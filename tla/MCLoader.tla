------------------------------ MODULE MCLoader ------------------------------
(***************************************************************************)
(* The boot loader and the memory it hands over, for TLC: its map of       *)
(* memory, volumes and file systems, configuration and menu, page tables,  *)
(* the start of the processors and the hand-off of the kernel, the         *)
(* installer of its first stage, and the physical memory the kernel then   *)
(* gives to its drivers. A behaviour is one of one unit, chosen at the     *)
(* start; the units share the variables x1 .. x19, and those a unit does   *)
(* not use stay as they are.                                               *)
(***************************************************************************)
EXTENDS PhysMem, TLC

VARIABLES
  unit, x1, x2, x3, x4, x5, x6, x7, x8, x9, x10, x11, x12, x13, x14, x15, x16, x17, x18, x19

\* The variables behind the ones a unit uses.
from15 == <<x15, x16, x17, x18, x19>>
from14 == <<x14, from15>>
from12 == <<x12, x13, from14>>
from9 == <<x9, x10, x11, from12>>
from8 == <<x8, from9>>
from6 == <<x6, x7, from8>>
from5 == <<x5, from6>>
from1 == <<x1, x2, x3, x4, from5>>
lvars == <<vars, unit, from1>>

Unused15 == x15 = 0 /\ x16 = 0 /\ x17 = 0 /\ x18 = 0 /\ x19 = 0
Unused14 == x14 = 0 /\ Unused15
Unused12 == x12 = 0 /\ x13 = 0 /\ Unused14
Unused9 == x9 = 0 /\ x10 = 0 /\ x11 = 0 /\ Unused12
Unused8 == x8 = 0 /\ Unused9
Unused6 == x6 = 0 /\ x7 = 0 /\ Unused8
Unused5 == x5 = 0 /\ Unused6
Unused1 == x1 = 0 /\ x2 = 0 /\ x3 = 0 /\ x4 = 0 /\ Unused5

-----------------------------------------------------------------------------
Range(b, t, type) == [base |-> b, length |-> t - b, type |-> type]
FirmwareMaps ==
  {<<Range(0, 11, "usable"), Range(11, 14, "reserved"), Range(14, 27, "usable"), Range(27, 30, "reserved")>>,
   <<Range(14, 22, "usable"), Range(0, 13, "usable"), Range(13, 14, "reserved"), Range(22, 26, "reserved"),
     Range(26, 29, "usable")>>,
   <<Range(0, 12, "usable"), Range(10, 14, "reserved"), Range(14, 24, "usable"), Range(22, 26, "reserved")>>}

EfiLayouts ==
  {[volumes |-> <<1, 2, 3>>, handles |-> hs, word |-> <<7, 7, w, 5>>, rest |-> <<"a", "a", r, "d">>, small |-> s] :
     hs \in {<<3, 1, 4>>, <<2, 3>>}, w \in {7, 11}, r \in {"a", "c"}, s \in {{}, {1}, {4}}}

MenuTrees ==
  {[parent |-> t, expanded |-> [n \in 1 .. Len(t) |-> n = x], default |-> d, timeout |-> s, remember |-> r, editor |-> TRUE] :
     t \in {<<>>, <<0, 1, 1, 3, 0>>, <<0, 0, 2>>}, x \in {1, 2}, d \in {0, 2, 9}, s \in {0, 2, -1}, r \in BOOLEAN}

MapCall(v, p, f, n) == [virt |-> v, phys |-> p, flags |-> f, count |-> n]
MapCalls == {MapCall(v, p, f, n) : v \in {0, 3}, p \in {0, 5}, f \in {{"w"}, {"nx"}}, n \in {1, 6}}
            \cup {MapCall(v, 8, {"w", "fb"}, n) : v \in {2, 4}, n \in {1, 4}}

\* PhysMem: maps of up to two entries, and kernels in front of, in and behind them.
MapEntries == [base : {0, 1, 5}, length : {3, 8}, usable : BOOLEAN]
BootMaps == {<<>>} \cup {<<e>> : e \in MapEntries} \cup {<<e, f>> : e \in MapEntries, f \in MapEntries}
Kernels == {[base |-> 0, end |-> 0]} \cup [base : {2, 6}, end : {4, 7, 20}]

\* Install: disks with tables of both kinds, with and without room for the stages.
InstallCalls ==
  LET \* Eight entries in two blocks, of which the second is taken by the embedding.
      Z == [kind |-> "zero"]
      Pt(flag, start) == [kind |-> "part", flag |-> flag, start |-> start]
      Entry(s) == [kind |-> "entry", start |-> s]
      Header(array, alternate, number, es) ==
        [kind |-> "EFI PART", array |-> array, alternate |-> alternate, number |-> number,
         sum |-> [i \in 1 .. number |-> es[i]]]
      Code(c) == [kind |-> c]
      Mbr(boot, p1, p2, ext) ==
        [i \in 0 .. 23 |-> CASE i = 0 -> Code(boot) [] i = 1 -> Code("stamp") [] i = 2 -> p1 [] i = 3 -> p2
                             [] i = 9 -> Code(ext) [] i >= 12 -> Code("data") [] OTHER -> Z]
      Gpt(es, valid) ==
        [i \in 0 .. 39 |-> CASE i = 0 -> Code("fs") [] i = 1 -> Code("stamp") [] i = 2 -> Pt("idle", 1) [] i = 3 -> Pt("idle", 0)
                             [] i = 4 -> Header(2, 9, 8, es)
                             [] i \in 8 .. 15 -> es[i - 7]
                             [] i \in 16 .. 27 -> Code("data")
                             [] i \in 28 .. 35 -> es[i - 27]
                             [] i = 36 -> IF valid THEN Header(7, 1, 8, es) ELSE Z
                             [] OTHER -> Z]
      Call(d, p, f) == [disk |-> d, part |-> p, force |-> f]
      Parts(S) == [i \in 1 .. 8 |-> IF i \in S THEN Entry(3 + ((i + 1) \div 2)) ELSE Z]
  IN  {Call(Mbr(b, Pt(x, s), Pt(y, 4), e), 0, f) :
         b \in {"zero", "fs"}, x \in {"idle", "odd", "odd+"}, s \in {2, 3}, y \in {"idle", "active"}, e \in {"zero", "fs"}, f \in BOOLEAN}
      \cup {Call(Gpt(Parts(S), v), p, f) :
         S \in {{1}, {1, 3}, {2, 5}}, v \in BOOLEAN, p \in {0, 1, 4}, f \in BOOLEAN}

\* Volumes: machines with disks of every kind, some of them with sectors that cannot be read.
BiosMachines ==
  LET Cells(n, at) == [i \in 1 .. n |-> IF i - 1 \in DOMAIN at THEN at[i - 1] ELSE [kind |-> "data", at |-> i - 1]]
      Zero == [kind |-> "zero"]
      Fits(a, b) == [i \in DOMAIN a \cup DOMAIN b |-> IF i \in DOMAIN a THEN a[i] ELSE b[i]]
      One(k, v) == [i \in {k} |-> v]
      No == [type |-> "none", start |-> 0, count |-> 0]
      P(t, s, c) == [type |-> t, start |-> s, count |-> c]
      Mbr(a, b, c, d) == [kind |-> "mbr", parts |-> <<a, b, c, d>>]
      Gpt(lba, n, rev) == [kind |-> "gpt", entry_lba |-> lba, number |-> n, revision |-> rev]
      Entry(s, l) == [kind |-> "entry", start |-> s, last |-> l]
      Ebr(s, c, nx) == [kind |-> "ebr", start |-> s, count |-> c, next |-> nx]
      Part(n, f, c) == [number |-> n, first |-> f, count |-> c]
      Disk(cells, sector, parts) ==
        [cells |-> cells, sector |-> sector, parts |-> parts, bad |-> {}, last |-> 0, writable |-> TRUE, removable |-> FALSE]
      Whole == Mbr(P("gpt", 1, 8), No, No, No)
      Gpt512 == Disk(Cells(9, Fits(One(0, Whole), Fits(One(1, Gpt(2, 3, 1)), Fits(One(2, Entry(5, 6)), Fits(One(3, Zero), One(4, Entry(7, 8))))))), 1,
                     {Part(1, 5, 2), Part(3, 7, 2)})
      Gpt4k == Disk(Cells(10, Fits(One(0, Whole), Fits(One(2, Gpt(2, 2, 1)), Fits(One(4, Zero), One(5, Entry(3, 4)))))), 2, {Part(2, 6, 4)})
      OldGpt == Disk(Cells(5, Fits(One(0, Mbr(No, P("data", 3, 2), No, No)), One(1, Gpt(2, 3, 2)))), 1, {Part(2, 3, 2)})
      Logical == Disk(Cells(12, Fits(One(0, Mbr(P("data", 1, 2), No, P("extended", 4, 8), No)), Fits(One(4, Ebr(1, 1, 3)), Fits(One(7, Ebr(0, 0, 6)), One(10, Ebr(1, 1, 0)))))), 1,
                      {Part(1, 1, 2), Part(3, 4, 8), Part(5, 5, 1), Part(7, 11, 1)})
      Floppy == [Disk(Cells(5, One(0, [kind |-> "fat"])), 1, {}) EXCEPT !.last = 255, !.removable = TRUE]
      ExtDisk == Disk(Cells(5, Fits(One(0, Mbr(No, P("data", 3, 2), No, No)), One(2, [kind |-> "ext"]))), 1, {})
      Cd == [Disk(Cells(8, One(0, [kind |-> "iso"])), 4, {}) EXCEPT !.writable = FALSE]
      Broken(d, s) == [d EXCEPT !.bad = {s}]
      M(b, ds) == [bda |-> b, drives |-> ds]
  IN  {M(1, <<Logical>>), M(2, <<Gpt512, Cd, Logical>>), M(1, <<Floppy, Gpt4k, OldGpt>>), M(2, <<ExtDisk, OldGpt, Cd, Cd>>),
                   M(2, <<Broken(Gpt512, 6), Broken(Logical, 0)>>), M(1, <<Broken(Logical, 3)>>), M(1, <<Broken(Logical, 5)>>), M(2, <<Gpt512, Cd, Gpt512, Cd>>)}

\* BootFat: a volume of each type, its chains in and out of order.
FatVolumes ==
  LET \* A volume made from a directory with a file, and a file, whose chains are given.
      Short(name, attr, cluster, size) == [attr |-> attr, name |-> name, cluster |-> cluster, size |-> size]
      Long(seq, last, chars) == [attr |-> "lfn", seq |-> seq, last |-> last, chars |-> chars]
      End == [attr |-> "end"]
      Gone == Short(<<"?", "A", " ">>, "gone", 0, 0)
      D(n, k) == [attr |-> "data", file |-> n, at |-> k]
      Data(n, len) == [k \in 1 .. len |-> D(n, k)]
      \* The root: a label, a deleted entry, the directory d, the file with the long
      \* name "abl" whose short name is "A1", one with two long-name entries exactly.
      RootEntries(dc, fc, gc) ==
        <<Short(<<"L", "B", " ">>, "label", 0, 0), Gone,
          Long(2, TRUE, <<"l", "0">>), Long(1, FALSE, <<"a", "b">>), Short(<<"A", "1", " ">>, "file", fc, 3),
          Short(<<"D", " ", " ">>, "dir", dc, 0),
          Long(2, TRUE, <<"b", "a">>), Long(1, FALSE, <<"a", "b">>), Short(<<"A", "2", " ">>, "file", gc, 1), End>>
      DirEntries(fc) == <<Short(<<"D", "1", " ">>, "dir", 0, 0), Long(1, TRUE, <<"a", "b">>), Short(<<"B", " ", "A">>, "file", fc, 2), End>>
      Files ==
        {[path |-> <<[long |-> <<"a", "b", "l">>, short |-> <<"a", "1">>]>>, cells |-> Data(1, 3)],
         [path |-> <<[long |-> <<"a", "b", "b", "a">>, short |-> <<"a", "2">>]>>, cells |-> Data(2, 1)],
         [path |-> <<[long |-> <<"d">>, short |-> <<"d">>], [long |-> <<"a", "b">>, short |-> <<"b", ".", "a">>]>>, cells |-> Data(3, 2)]}
      Chunk(s, k, n) == [i \in 1 .. n |-> IF (k - 1) * n + i <= Len(s) THEN s[(k - 1) * n + i] ELSE End]
      After(chain, c) ==
        LET i == CHOOSE j \in DOMAIN chain : chain[j] = c IN IF i = Len(chain) THEN 65535 ELSE chain[i + 1]
      \* type, sectors per cluster, chains of the directory, the two files and the
      \* directory's file, and of the root on FAT32.
      Make(type, spc, dch, f1, f2, f3, root) ==
        LET chains == {dch, f1, f2, f3} \cup (IF type = 32 THEN {root} ELSE {})
            nexts == [c \in 0 .. 15 |-> IF \E ch \in chains : \E i \in DOMAIN ch : ch[i] = c
                                        THEN After(CHOOSE ch \in chains : \E i \in DOMAIN ch : ch[i] = c, c)
                                        ELSE 0]
            v12 == [c \in 0 .. 15 |-> nexts[c] % 4096]
            byte12(b) == LET p == b \div 3  lo == v12[2 * p]  hi == v12[2 * p + 1]
                         IN  CASE b % 3 = 0 -> lo % 256 [] b % 3 = 1 -> lo \div 256 + 16 * (hi % 16) [] b % 3 = 2 -> hi \div 16
            map == CASE type = 12 -> [b \in 0 .. 23 |-> byte12(b)]
                     [] type = 16 -> [b \in 0 .. 31 |-> IF b % 2 = 0 THEN nexts[b \div 2] % 256 ELSE nexts[b \div 2] \div 256]
                     [] type = 32 -> [b \in 0 .. 63 |-> CASE b % 4 = 0 -> nexts[b \div 4] % 256
                                                        [] b % 4 = 1 -> nexts[b \div 4] \div 256
                                                        [] b % 4 > 1 -> 0]
            rootents == IF type = 32 THEN 0 ELSE 10
            first == 3 + (IF type = 32 THEN 0 ELSE 5)
            nclus == CASE type = 12 -> 12 [] type = 16 -> 20 [] type = 32 -> 30
            bpb == [signature |-> "FAT", reserved_sectors |-> 1, fats_count |-> 2, sectors_per_fat |-> 1, root_entries |-> rootents,
                    bytes_per_sector |-> 2, sectors_per_cluster |-> spc, root_directory_cluster |-> IF type = 32 THEN root[1] ELSE 0,
                    sectors |-> first + nclus * spc]
            content(ch) == CASE ch = dch -> DirEntries(f3[1]) [] ch = f1 -> Data(1, 3) [] ch = f2 -> Data(2, 1)
                             [] ch = f3 -> Data(3, 2) [] OTHER -> RootEntries(dch[1], f1[1], f2[1])
            cell(a) == LET c == (a - 2 * first) \div (2 * spc) + 2  off == (a - 2 * first) % (2 * spc)
                       IN  IF a < 6 THEN End
                           ELSE IF a < 2 * first THEN RootEntries(dch[1], f1[1], f2[1])[a - 5]
                           ELSE IF \E ch \in chains : \E i \in DOMAIN ch : ch[i] = c
                           THEN LET ch == CHOOSE x \in chains : \E i \in DOMAIN x : x[i] = c
                                    i == CHOOSE j \in DOMAIN ch : ch[j] = c
                                IN  Chunk(content(ch), i, 2 * spc)[off + 1]
                           ELSE D(9, a)
        IN  [bpb |-> bpb, map |-> map, cells |-> [a \in 0 .. 2 * first + 28 * spc - 1 |-> cell(a)], files |-> Files, label |-> <<"L", "B">>]
  IN  {Make(t, 1, <<3, 2>>, <<5, 4>>, <<7>>, <<6>>, <<15, 9, 8, 13, 12>>) : t \in {12, 16, 32}}
      \cup {Make(t, 1, <<5, 9>>, <<2, 11>>, <<3>>, <<10>>, <<4, 6, 8, 7, 12>>) : t \in {12, 16, 32}}
      \cup {Make(t, 2, <<6>>, <<4>>, <<2>>, <<9>>, <<3, 7, 5>>) : t \in {12, 16, 32}}
      \cup {LET v == Make(16, 2, <<6>>, <<4>>, <<2>>, <<9>>, <<3, 7, 5>>)
            IN  [v EXCEPT !.bpb.signature = "other", !.files = {}, !.label = <<>>]}

FatPaths ==
  {<<<<"a", "b", "l">>>>, <<<<"A", "b", "l">>>>, <<<<"a", "1">>>>, <<<<"a", "b">>>>, <<<<"a", "b", "b", "a">>>>, <<<<"a", "2">>>>,
   <<<<"d">>, <<"a", "b">>>>, <<<<"D">>, <<"b", ".", "a">>>>, <<<<"d">>, <<"b", "a">>>>, <<<<"d">>, <<"A", "b">>>>, <<<<"l", "b">>>>,
   <<<<"b">>>>, <<<<"a">>>>}
FatUpper(c) == CASE c = "a" -> "A" [] c = "b" -> "B" [] c = "l" -> "L" [] c = "d" -> "D" [] OTHER -> c

\* Ext2: both sizes of descriptors, files up to the third indirection, holes, links.
ExtVolumes ==
  LET Dir(size, blocks) == [mode |-> "dir", size |-> size, extents |-> FALSE, blocks |-> blocks]
      File(size, blocks) == [mode |-> "file", size |-> size, extents |-> FALSE, blocks |-> blocks]
      Tree(size, tree) == [mode |-> "file", size |-> size, extents |-> TRUE, tree |-> tree]
      Link(target, absolute, long) == [mode |-> "link", long |-> long, absolute |-> absolute, target |-> target]
      E(name, inode, rec_len) == [name |-> name, inode |-> inode, rec_len |-> rec_len]
      Node(depth, entries) == [depth |-> depth, entries |-> entries]
      Extent(block, len, start) == [block |-> block, len |-> len, start |-> start]
      To(b) == [to |-> b]
      Pair(b, c) == <<To(b), To(c)>>
      D(n, k) == [file |-> n, at |-> k]
      Data(n, len) == [k \in 1 .. len |-> D(n, k)]
      \* Inodes: 2 the root; 3 d; 4 f, of size cells; 5 the link l to d; 6 d/g; 7 the
      \* link s to /d/g; 8 x, by extents, with a hole at its end or not; 9 d/u, a link
      \* to .././f; 10 the link o to itself; 11 the long link t.
      Inode(n, size) ==
        CASE n = 2 -> Dir(8, <<30, 31, 32, 0, 0>>)
          [] n = 3 -> Dir(3, <<35, 36, 0, 0, 0>>)
          [] n = 4 -> File(size, <<20, 21, 12, 13, 16>>)
          [] n = 5 -> Link(<<"d">>, FALSE, FALSE)
          [] n = 6 -> File(1, <<37, 0, 0, 0, 0>>)
          [] n = 7 -> Link(<<"d", "g">>, TRUE, FALSE)
          [] n = 8 -> Tree(7, Node(1, <<[block |-> 0, leaf |-> 40], [block |-> 2, leaf |-> 41]>>))
          [] n = 9 -> Link(<<"..", ".", "f">>, FALSE, FALSE)
          [] n = 10 -> Link(<<"o">>, FALSE, FALSE)
          [] n = 11 -> Link(<<"f">>, FALSE, TRUE)
          [] OTHER -> [mode |-> "none"]
      \* Blocks: 12 to 19 f's pointers, 20 to 29 f; 30 to 34 the root; 35, 36 d, with
      \* what is left of a removed entry; 37 g; 40, 41 leaves of x's tree; 50 to 53 x.
      Content(b, gap) ==
        CASE b = 12 -> Pair(22, 23)
          [] b = 13 -> Pair(14, 15) [] b = 14 -> Pair(24, 25) [] b = 15 -> Pair(26, 27)
          [] b = 16 -> Pair(17, 18) [] b = 17 -> Pair(19, 0) [] b = 19 -> Pair(28, 29)
          [] b \in 20 .. 29 -> <<D("f", 2 * (b - 20) + 1), D("f", 2 * (b - 20) + 2)>>
          [] b = 30 -> <<E("f", 4, 1), E("gone", 0, 1)>>
          [] b = 31 -> <<E("d", 3, 1), E("l", 5, 1)>>
          [] b = 32 -> Pair(33, 34)
          [] b = 33 -> <<E("s", 7, 1), E("x", 8, 1)>>
          [] b = 34 -> <<E("o", 10, 1), E("t", 11, 1)>>
          [] b = 35 -> <<E("g", 6, 2), E("old", 4, 1)>>
          [] b = 36 -> <<E("u", 9, 1), To(0)>>
          [] b = 37 -> <<D("g", 1), To(0)>>
          [] b = 40 -> <<Node(0, <<Extent(0, 2, 50)>>), To(0)>>
          [] b = 41 -> <<Node(0, IF gap THEN <<Extent(2, 1, 53)>> ELSE <<Extent(2, 1, 53), Extent(3, 1, 52)>>), To(0)>>
          [] b = 50 -> <<D("x", 1), D("x", 2)>> [] b = 51 -> <<D("x", 3), D("x", 4)>>
          [] b = 52 -> <<D("x", 7), To(0)>> [] b = 53 -> <<D("x", 5), D("x", 6)>>
          [] OTHER -> Pair(0, 0)
      Make(desc, per_group, size, gap, features) ==
        LET groups == 0 .. 10 \div per_group
            table(g) == 60 + 8 * g
            inGroup(a) == {g \in groups : a \in 2 * table(g) .. 2 * table(g) + per_group - 1}
            cell(a) ==
              IF \E g \in groups : a = 2 + desc * g THEN [inode_table |-> table((a - 2) \div desc)]
              ELSE IF inGroup(a) # {}
              THEN LET g == CHOOSE h \in inGroup(a) : TRUE IN Inode(1 + g * per_group + (a - 2 * table(g)), size)
              ELSE Content(a \div 2, gap)[1 + (a % 2)]
        IN  [cells |-> [a \in 0 .. 159 |-> cell(a)], bgd |-> 2, desc |-> desc, per_group |-> per_group,
             magic |-> TRUE, features |-> features, errors |-> FALSE,
             files |-> {[paths |-> {<<"f">>, <<"d", "u">>, <<"l", "u">>}, cells |-> Data("f", size), holes |-> FALSE],
                        [paths |-> {<<"s">>, <<"d", "g">>, <<"l", "g">>}, cells |-> Data("g", 1), holes |-> FALSE],
                        [paths |-> {<<"x">>}, cells |-> Data("x", 7), holes |-> gap]}]
      Refused(v) == [v EXCEPT !.files = {}]
  IN  {Make(desc, pg, size, gap, {}) : desc \in {1, 2}, pg \in {4, 11}, size \in {0, 4, 5, 8, 15, 16, 18}, gap \in BOOLEAN}
      \cup {Refused(Make(1, 11, 4, FALSE, {"inline"})),
            Refused([Make(1, 11, 4, FALSE, {}) EXCEPT !.magic = FALSE]),
            Refused([Make(1, 11, 4, FALSE, {}) EXCEPT !.errors = TRUE])}

ExtPaths ==
  {<<"f">>, <<"s">>, <<"x">>, <<"d", "u">>, <<"l", "u">>, <<"d", "g">>, <<"l", "g">>,
          <<"gone">>, <<"o">>, <<"t">>, <<"d">>, <<"f", "g">>, <<"d", "old">>}

\* Iso9660: records of 36 bytes and more in sectors of 80.
IsoDrives ==
  LET NUL == "nul"
      Field(sig, text) == [sig |-> sig, len |-> 5 + Len(text), ver |-> 1, text |-> text]
      Record(name, fields, extent, size, dir) == [name |-> name, fields |-> fields, extent |-> extent, size |-> size, dir |-> dir]
      Self(lba) == Record(<<NUL>>, <<>>, lba, 0, TRUE)
      Up(lba) == Record(<<"up">>, <<Field("NM", <<>>)>>, lba, 0, TRUE)
      \* Plain names with and without a version; Rock Ridge names, behind other fields
      \* or empty.
      Plain(lba) ==
        {Record(<<"A", ".", ";", "1">>, <<>>, lba, 2, FALSE), Record(<<"A", ".", "b", ";", "1">>, <<>>, lba, 2, FALSE),
         Record(<<"b">>, <<>>, lba, 2, FALSE)}
      MCRecords(lba) ==
        Plain(lba) \cup
        {Record(<<"b", ";", "1">>, <<Field("PX", <<"1">>), Field("NM", <<"a">>)>>, lba, 2, FALSE),
         Record(<<"b", "b">>, <<Field("NM", <<"A", "b">>)>>, lba, 2, FALSE)}
      Disc(a, b, c, d) ==
        [signature |-> TRUE, descriptors |-> <<"boot", "primary", "terminator">>, root |-> 1,
         dirs |-> 1 :> <<Self(1), Up(1), a, b, c, Record(<<"b", "1">>, <<>>, 2, 0, TRUE)>> @@ 2 :> <<Self(2), Up(1), d>>]
  IN  {<<Disc(a, b, b, a), Disc(b, a, a, b)>> : a \in Plain(4), b \in MCRecords(5) \ Plain(5)}
      \cup {<<Disc(a, a, b, a), [Disc(a, a, a, a) EXCEPT !.signature = FALSE]>> : a \in MCRecords(4), b \in MCRecords(12)}
      \cup {<<[Disc(a, a, a, a) EXCEPT !.descriptors = <<"boot", "terminator">>]>> : a \in MCRecords(4)}

IsoPaths ==
  LET MCNames == {<<"a">>, <<"A">>, <<"a", ".", "b">>, <<"A", "b">>, <<"b">>, <<>>}
  IN  {<<n>> : n \in MCNames} \cup {<<<<"b", "1">>, n>> : n \in MCNames} \cup {<<<<"b", "1">>, <<>>, n>> : n \in {<<"a">>, <<"A", "b">>}}

IsoLower ==
  LET NUL == "nul"
  IN  [c \in {"a", "A", "b", ".", ";", "1", NUL, "up"} |-> IF c = "A" THEN "a" ELSE c]

\* Config: every file of up to three lines, and longer ones.
ConfigFiles ==
  LET T(w) == [use |-> FALSE, word |-> w]
      U(w) == [use |-> TRUE, word |-> w]
      Entry(d, v) == [kind |-> "entry", depth |-> d, value |-> v]
      Opt(k, v) == [kind |-> "option", key |-> k, value |-> v]
      Def(n, v) == [kind |-> "macro", name |-> n, value |-> v]
      Lines == {Entry(1, <<T("a")>>), Entry(2, <<T("b")>>), Entry(3, <<T("c")>>), Entry(1, <<>>),
                Opt("path", <<T("p"), U("m")>>), Opt("cmdline", <<T("q")>>), Opt("timeout", <<U("n")>>),
                Def("m", <<T("x")>>), Def("m", <<T("y"), U("m")>>)}
      Four == UNION {[1 .. n -> Lines] : n \in 0 .. 3}
      \* Longer ones: two modules of which the first has no command line, nested directories.
      Long ==
        {<<Opt("timeout", <<T("t")>>), Entry(1, <<T("a")>>), Opt("path", <<T("p")>>), Opt("path", <<T("r")>>), Opt("cmdline", <<T("q")>>),
           Opt("path", <<U("m")>>), Def("m", <<T("x")>>)>>,
         <<Entry(1, <<T("a")>>), Entry(2, <<T("b")>>), Entry(3, <<T("c")>>), Entry(3, <<T("d")>>), Entry(2, <<T("e")>>), Entry(1, <<T("f")>>),
           Entry(2, <<T("g")>>)>>}
  IN  Four \cup Long

ConfigBuiltin ==
  LET T(w) == [use |-> FALSE, word |-> w]
      Def(n, v) == [kind |-> "macro", name |-> n, value |-> v]
  IN  <<Def("n", <<T("x86-64")>>)>>

\* Handoff: kernels of every kind, and what must be refused.
KernelFiles ==
  LET Ph(type, offset, vaddr, paddr, filesz, memsz, align, flags) ==
        [type |-> type, offset |-> offset, vaddr |-> vaddr, paddr |-> paddr, filesz |-> filesz, memsz |-> memsz, align |-> align, flags |-> flags]
      Fixed(v) == [moves |-> FALSE, value |-> v]
      Moves(v) == [moves |-> TRUE, value |-> v]
      T(tag, un) == [tag |-> tag, un |-> un]
      R(addr, info, symbol, addend) == [addr |-> addr, info |-> info, symbol |-> symbol, addend |-> addend]
      S(undef, weak, value) == [undef |-> undef, weak |-> weak, value |-> value]
      \* A file: words 0 to 11 its contents, 12 to 21 the dynamic tags, from 22 on the
      \* tables, which a header that is not loaded puts at the address 26.
      Cells(words, tags, tables) ==
        [k \in 0 .. 39 |-> IF k < 12 THEN (IF k < Len(words) THEN words[k + 1] ELSE 0)
                           ELSE IF k < 22 THEN (IF k - 11 <= Len(tags) THEN tags[k - 11] ELSE T("null", 0))
                           ELSE IF k - 21 <= Len(tables) THEN tables[k - 21] ELSE 0]
      Tables == Ph("note", 22, 26, 0, 18, 18, 1, {})
      Dyn == Ph("dynamic", 12, 60, 0, 10, 10, 1, {})
      File(type, phdrs, words, tags, tables, image) ==
        [magic |-> TRUE, little |-> TRUE, machine |-> "x86_64", short_phdrs |-> FALSE, type |-> type, entry |-> phdrs[1].vaddr + 1,
         phdrs |-> phdrs \o (IF type = "dyn" THEN <<Tables, Dyn>> ELSE <<>>), cells |-> Cells(words, tags, tables), sections |-> <<>>,
         image |-> image, revision |-> 0, requests |-> <<>>]
      Plain(b, words) == [a \in b .. b + Len(words) - 1 |-> Fixed(words[a - b + 1])]
      Rx == {"r", "x"}
      Ro == {"r"}
      Rw == {"r", "w"}
      \* Text of four words, two read-only, three of data in front of two of bss.
      Usual(b) ==
        <<Ph("load", 0, b, 8, 4, 4, 2, Rx), Ph("load", 4, b + 4, 12, 2, 2, 2, Ro), Ph("load", 6, b + 6, 16, 3, 5, 2, Rw)>>
      Exec(words) == File("exec", Usual(48), words, <<>>, <<>>, Plain(48, words))
      Found(f, revision, reqs) == [f EXCEPT !.revision = revision, !.requests = reqs]
      \* The requests between the markers; with a base revision, known or too new.
      Marked == {Found(Exec(<<1, 2, 3, 4, -1, -11, -12, -2, -13>>), 0, <<53, 54>>),
                 Found(Exec(<<1, -10, 3, -1, -3, -4, 3, -11, -2>>), 3, <<55>>),
                 Found(Exec(<<1, 2, 3, 4, -3, -4, 2, -11, -12>>), 2, <<55, 56>>),
                 Found(Exec(<<-3, -4, 0, -1, -3, -4, 1, -11, 1>>), 1, <<55>>),
                 Found(Exec(<<-11, -12, -1, -11, -12, -13, 1, -2, -11>>), 0, <<51, 52, 53>>),
                 Found(Exec(<<1, 2, 3, -3, -4, 9, 1, -11, -14>>), 3, <<55, 56>>)}
      \* A relocatable kernel: every kind of relocation.
      RelocTags == <<T("rela", 26), T("relasz", 3), T("relaent", 1), T("relr", 30), T("relrsz", 2), T("relrent", 1),
                     T("symtab", 33), T("jmprel", 29), T("pltrelsz", 1), T("pltrel", 7)>>
      RelocTables(b, at) ==
        <<R(b + 1, "relative", 0, b + 6), R(b + 2, "glob_dat", 1, 0), R(b + 5, "abs64", 1, 2), R(b + 4, "jump_slot", at, 0),
          [is |-> "address", at |-> b + 6], [is |-> "bitmap", bits |-> {0, 1}], 0,
          S(TRUE, TRUE, 0), S(FALSE, FALSE, b + 3), S(TRUE, FALSE, 0)>>
      RelocImage(b) ==
        [a \in b .. b + 8 |-> CASE a = b + 1 -> Moves(b + 6) [] a = b + 2 -> Moves(b + 3) [] a = b + 5 -> Moves(b + 5)
                                [] a = b + 4 -> Fixed(0) [] a \in b + 6 .. b + 8 -> Moves(b + a - (b + 6)) [] OTHER -> Fixed(a - b)]
      Reloc(b, at) ==
        File("dyn", Usual(b), <<0, 9, 9, 3, 9, 9, b, b + 1, b + 2>>, RelocTags, RelocTables(b, at), RelocImage(b))
      \* One with its requests listed in a section.
      Listed ==
        [File("dyn", Usual(0), <<1, 2, 3, 4, 5, 6, 2, 4, 0>>, <<T("relr", 26), T("relrsz", 2), T("relrent", 1)>>,
              <<[is |-> "address", at |-> 6], [is |-> "bitmap", bits |-> {0}]>>,
              [a \in 0 .. 8 |-> IF a = 6 THEN Moves(2) ELSE IF a = 7 THEN Moves(4) ELSE Fixed(IF a = 8 THEN 0 ELSE a + 1)])
         EXCEPT !.sections = <<[name |-> "text", offset |-> 0, addr |-> 0, size |-> 4], [name |-> "limine_reqs", offset |-> 6, addr |-> 6, size |-> 3]>>,
                !.requests = <<2, 4>>]
      \* Two segments in one block of their alignment, with different permissions.
      Block == File("exec", <<Ph("load", 0, 48, 8, 2, 2, 4, Rx), Ph("load", 2, 50, 10, 2, 2, 4, Ro)>>, <<1, 2, 3, 4>>, <<>>, <<>>, Plain(48, <<1, 2, 3, 4>>))
      \* Data at the end without bss, a wide alignment, an empty segment.
      Wide == File("exec", <<Ph("load", 0, 48, 8, 3, 3, 4, Rx), Ph("load", 4, 52, 0, 0, 0, 4, Rx), Ph("load", 4, 56, 16, 2, 2, 4, Rw)>>,
                   <<1, 2, 3, 0, 5, 6>>, <<>>, <<>>, [a \in {48, 49, 50, 56, 57} |-> Fixed(IF a < 56 THEN a - 47 ELSE a - 51)])
      Legacy == [Wide EXCEPT !.machine = "x86_32"]
      \* What must be refused.
      Wrong ==
        LET good == Exec(<<1, 2, 3>>)
            with(p) == [good EXCEPT !.phdrs = p]
        IN  {[good EXCEPT !.magic = FALSE], [good EXCEPT !.little = FALSE], [good EXCEPT !.type = "rel"], [good EXCEPT !.short_phdrs = TRUE],
             with(Usual(4)),
             with([Usual(48) EXCEPT ![2].vaddr = 51]),
             with([Usual(48) EXCEPT ![2].vaddr = 57, ![3].vaddr = 58]),
             with([Usual(48) EXCEPT ![1].memsz = 3]),
             with([Usual(48) EXCEPT ![1].vaddr = 49, ![1].offset = 1, ![1].memsz = 3, ![1].filesz = 3]),
             [good EXCEPT !.type = "dyn"], [Reloc(48, 0) EXCEPT !.phdrs[5].filesz = 0],
             Reloc(0, 2),
             [Reloc(0, 0) EXCEPT !.cells[22].info = "copy"], [Reloc(0, 0) EXCEPT !.cells[12].tag = "needed"], [Reloc(0, 0) EXCEPT !.cells[21].un = 17],
             [Reloc(0, 0) EXCEPT !.cells[17].un = 2], [Reloc(0, 0) EXCEPT !.cells[14].un = 0],
             with(<<Ph("load", 0, 48, 8, 0, 0, 2, Rx)>>),
             Exec(<<-3, -4, 1, -3, -4, 2>>), Exec(<<-11, 1, -11>>), Exec(<<-11, -12, -13, -14>>), Exec(<<-11, 1, -11, -1>>), Exec(<<-3, -4, 1, -3, -4, 2, -1>>)}
  IN  Marked \cup {Reloc(0, 0), Reloc(48, 0), Listed, Wide, Legacy, Block} \cup Wrong

KernelMemmaps ==
  LET G(b, length, type) == [base |-> b, length |-> length, type |-> type]
  IN  {<<G(0, 3, "usable"), G(3, 1, "reserved"), G(4, 2, "kernel"), G(6, 1, "acpi"), G(7, 1, "framebuffer")>>,
                  <<G(0, 2, "usable"), G(2, 1, "framebuffer"), G(4, 2, "reserved"), G(6, 2, "usable")>>}

\* Multiboot: machines of up to 48 words, kernels with and without addresses.
MultibootBoots ==
  LET NONE == -1
      \* Memory: a reserved page in front and another in the middle, or none; or small.
      Ram(top, reserved) == [a \in 0 .. top - 1 |-> IF a \in reserved THEN "reserved" ELSE "usable"]
      MCRams == {Ram(48, {0, 1}), Ram(48, {0, 1, 12, 13}), Ram(32, {0, 1}), Ram(22, {0, 1})}
      Fields(header, load, load_end, bss_end) ==
        [type |-> "address", header_addr |-> header, load_addr |-> load, load_end_addr |-> load_end, bss_end_addr |-> bss_end, entry_addr |-> 9]
      Kernel(address, tags, sections, paddr) ==
        [checksum |-> TRUE, size |-> 5, header_offset |-> 1, address |-> address, tags |-> tags, sections |-> sections,
         paddr |-> paddr, image |-> 3, entry |-> paddr + 1]
      Section(addr, offset, size) == [addr |-> addr, offset |-> offset, size |-> size]
      MCSections == {<<>>, <<Section(0, 2, 3), Section(4, 0, 1), Section(0, 1, 0), Section(0, 0, 1)>>}
      MCAddresses == {Fields(5, 4, 8, 9), Fields(8, 7, 0, 0), Fields(4, 3, 7, 15), Fields(4, 5, 7, 0), Fields(5, 4, 8, 6)}
      Tag(type) == [type |-> type, optional |-> FALSE]
      EntryAt(a) == [type |-> "entry", optional |-> FALSE, addr |-> a]
      Request(what, optional) == [type |-> "request", optional |-> optional, what |-> what]
      Reloc(min, max, align, preference) ==
        [type |-> "relocatable", optional |-> FALSE, min_addr |-> min, max_addr |-> max, align |-> align, preference |-> preference]
      MCTags ==
        {<<>>, <<Tag("efi64"), EntryAt(7)>>, <<EntryAt(7), Tag("efi64"), Request({"acpi_new"}, FALSE)>>,
         <<EntryAt(6), Reloc(5, 20, 4, 0), Request({"acpi_old", "unknown"}, TRUE)>>, <<Reloc(2, 19, 2, 2)>>, <<Reloc(11, 14, 4, 1)>>,
         <<Request({"unknown"}, FALSE)>>, <<EntryAt(7), Request({"elf"}, FALSE)>>, <<[type |-> "unknown", optional |-> FALSE]>>}
      MCKernels1 ==
        {Kernel(<<f>>, <<>>, <<>>, 0) : f \in MCAddresses} \cup {Kernel(<<>>, <<>>, s, p) : s \in MCSections, p \in {4, 6, 12}}
        \cup {[Kernel(<<>>, <<>>, <<>>, 4) EXCEPT !.checksum = FALSE]}
      MCKernels2 ==
        {Kernel(<<>>, t, s, p) : t \in MCTags, s \in MCSections, p \in {4, 6, 12}}
        \cup {Kernel(<<>>, Append(t, f), <<>>, 0) : t \in MCTags, f \in MCAddresses \cup {Fields(5, NONE, 0, 0)}}
      MCModules == {<<>>, <<3>>, <<2, 1>>}
  IN  [proto : {1}, types : MCRams, kernel : MCKernels1, modules : MCModules, rsdp : {{}}]
      \cup [proto : {2}, types : MCRams, kernel : MCKernels2, modules : MCModules, rsdp : {{}, {"acpi_new"}}]

\* Memmap: maps in order, out of order and overlapping, of pages of two.
A == INSTANCE Memmap WITH
  PAGE_SIZE <- 2, EBDA <- 11, LOW_TOP <- 14, HIGH <- 24, MAX_ENTRIES <- 9, BSS_END <- 5, E820 <- FirmwareMaps,
  Counts <- {1, 4}, Aligns <- {2, 4}, MaxOps <- 3,
  memmap <- x1, e820 <- x2, conv <- x3, status <- x4, grants <- x5, lost <- x6, ops <- x7

\* Install
I == INSTANCE Install WITH
  Calls <- InstallCalls, BLOCKS <- {2, 8}, MaxFaults <- 2, SECTOR <- 4, ARRAY <- 2, GAP <- 3, UNINSTALL_DATA_MAX <- 13,
  call <- x1, block_size <- x2, disk <- x3, cache <- x4, cached_block <- x5, dirty <- x6, todo <- x7,
  aborts <- x8, uninstall_data <- x9, phase <- x10, retry <- x11, complaint <- x12, cut <- x13,
  faults <- x14

\* Volumes
V == INSTANCE Volumes WITH
  Machines <- BiosMachines, XFERS <- {1, 4}, MAX_VOLUMES <- 7, MaxReads <- 2,
  drives <- x1, bda <- x2, hdd <- x3, optical <- x4, volume_index <- x5, part <- x6, got <- x7, reads <- x8

\* EfiVolumes: regions 1 .. 4 that begin alike or not; volumes and handles in either
\* order.
U == INSTANCE EfiVolumes WITH
  Layouts <- EfiLayouts, Signatures <- {11, 12}, MaxFaults <- 1,
  lay <- x1, word <- x2, unique <- x3, handle_of <- x4, i <- x5, j <- x6, pool <- x7, orig <- x8,
  signature <- x9, new_signature <- x10, ret <- x11, phase <- x12, faults <- x13

\* BootFat
F == INSTANCE BootFat WITH
  Volumes <- FatVolumes, Paths <- FatPaths, upper <- FatUpper, Reads <- 0 .. 3, LFN_CHARS <- 2, LFN_MAX <- 2, BASE <- 2, EXTN <- 1,
  SECTOR_SIZES <- {2}, FAT12_LIMIT <- 14, FAT16_LIMIT <- 24,
  vol <- x1, case_insensitive_fopen <- x2, path <- x3, handle <- x4, buf <- x5

\* Ext2
X == INSTANCE Ext2 WITH
  Volumes <- ExtVolumes, Paths <- ExtPaths, Reads <- 0 .. 3, BLOCK <- 2, NDIRECT <- 2, MaxLinks <- 3,
  vol <- x1, path <- x2, handle <- x3, buf <- x4

\* Iso9660
R == INSTANCE Iso9660 WITH
  Drives <- IsoDrives, Paths <- IsoPaths, Lower <- IsoLower, SECTOR <- 80, WIDTH <- 800, HEAD <- 33,
  drives <- x1, vol <- x2, fold <- x3, contexts <- x4, path <- x5, handle <- x6, got <- x7, panicked <- x8

\* Config
C == INSTANCE Config WITH
  Files <- ConfigFiles, Keys <- {"path", "timeout"}, Pairs <- {<<"path", "cmdline">>}, Builtin <- ConfigBuiltin, MaxIndex <- 1,
  file <- x1, lines <- x2, macros <- x3, menu_tree <- x4, globals <- x5, phase <- x6, answer <- x7

\* Menu: a directory with two entries, one of them a directory, and an entry after it;
\* others.
M == INSTANCE Menu WITH
  Menus <- MenuTrees, ROWS <- 2, Typed <- {<<"typed", 1>>}, SECONDS <- 2, MaxPanics <- 1, MaxReboots <- 1,
  menu <- x1, expanded <- x2, body <- x3, selected_entry <- x4, selected_menu_entry <- x5,
  tree_offset <- x6, skip_timeout <- x7, left <- x8, booting_from_editor <- x9, booting_from_blank <- x10,
  saved_orig_entry <- x11, phase <- x12, first_run <- x13, text <- x14, LastBooted <- x15, usual <- x16,
  lastEntry <- x17, panics <- x18, reboots <- x19

\* Vmm: tables of two entries, four levels; ranges that cross large pages.
P == INSTANCE Vmm WITH
  Calls <- MapCalls, RADIX <- 2, LEVELS <- 4, MaxCalls <- 3,
  top_level <- x1, gib <- x2, pat <- x3, asked <- x4

\* Handoff, with Elf and Vmm.
H == INSTANCE Handoff WITH
  Files <- KernelFiles, Memmaps <- KernelMemmaps, PAGE <- 2, HIGH <- 48, TOP <- 64, BITMAP <- 3, PhysBases <- {8}, RADIX <- 2,
  LEVELS <- 5, direct_map_offset <- 16, FOUR_GIB <- 4, MAX_REQUESTS <- 3, SUPPORTED_BASE_REVISION <- 3,
  elf <- x1, kaslr <- x2, pc <- x3, out <- x4, seg <- x5, mem <- x6, top_level <- x7, nx <- x8, gib <- x9,
  pat <- x10, stage <- x11, base_revision <- x12, requests <- x13, memmap <- x14

\* Multiboot
B == INSTANCE Multiboot WITH
  Boots <- MultibootBoots, PAGE <- 2, INFO <- 6, INFO_SIZE <- 2, STUB_SIZE <- 1, MAX_RETRIES <- 24,
  boot <- x1, pc <- x2, ram <- x3, ranges <- x4, entry_point <- x5, own <- x6, places <- x7, n <- x8

-----------------------------------------------------------------------------
Entry(kind, id, on, cap, m) == [kind |-> kind, id |-> id, enabled |-> on, capable |-> cap, method |-> m]
Xapic(id, on, cap) == Entry("xapic", id, on, cap, "ipi")
Gicc(id, on) == Entry("gicc", id, on, FALSE, "psci")
Node(id, m) == Entry("cpu", id, TRUE, FALSE, m)
Hart(id) == Entry("hart", id, TRUE, FALSE, "sbi")
Firmware ==
  {<<Xapic(0, TRUE, FALSE), Xapic(1, TRUE, TRUE), Xapic(2, FALSE, TRUE), Xapic(3, TRUE, FALSE)>>,
   <<Gicc(1, TRUE), Gicc(0, TRUE), Gicc(2, FALSE), Gicc(3, TRUE)>>,
   <<Node(1, "psci"), Node(2, "none"), Node(0, "none"), Node(3, "spin-table")>>,
   <<Hart(0), Hart(1), Entry("coprocessor", 2, TRUE, FALSE, "none"), Hart(3)>>,
   <<Node(1, "psci"), Node(0, "none"), Node(2, "illegal")>>,
   <<Gicc(0, TRUE), Entry("gicc", 1, TRUE, FALSE, "park")>>,
   <<Hart(1), Hart(2), Hart(3), Hart(0)>>}

\* Smp: firmware tables of up to four processors, of every kind of entry.
S == INSTANCE Smp WITH
  Bsp <- 0, Tables <- Firmware, POLLS <- 2,
  table <- x1, ret <- x2, count <- x3, max_cpus <- x4, info <- x5, flag <- x6, mode <- x7, gdt <- x8,
  polls <- x9, ap <- x10, kicked <- x11

UnusedPhys == memmap = <<>> /\ kernel = [base |-> 0, end |-> 0] /\ base = 0 /\ end = 0 /\ next = 0 /\ grants = {}

LoaderInit ==
  \/ unit = "physmem" /\ Init /\ Unused1
  \/ unit = "memmap" /\ A!Init /\ Unused8 /\ UnusedPhys
  \/ unit = "install" /\ I!Init /\ Unused15 /\ UnusedPhys
  \/ unit = "bios" /\ V!Init /\ Unused9 /\ UnusedPhys
  \/ unit = "efi" /\ U!Init /\ Unused14 /\ UnusedPhys
  \/ unit = "fat" /\ F!Init /\ Unused6 /\ UnusedPhys
  \/ unit = "ext2" /\ X!Init /\ Unused5 /\ UnusedPhys
  \/ unit = "iso" /\ R!Init /\ Unused9 /\ UnusedPhys
  \/ unit = "config" /\ C!Init /\ Unused8 /\ UnusedPhys
  \/ unit = "menu" /\ M!Init /\ UnusedPhys
  \/ unit = "vmm" /\ P!Init /\ Unused5 /\ UnusedPhys
  \/ unit = "handoff" /\ H!Init /\ Unused15 /\ UnusedPhys
  \/ unit = "smp" /\ S!Init /\ Unused12 /\ UnusedPhys
  \/ unit = "multiboot" /\ B!Init /\ Unused9 /\ UnusedPhys

LoaderNext ==
  \/ unit = "physmem" /\ Next /\ UNCHANGED <<unit, from1>>
  \/ unit = "memmap" /\ A!Next /\ UNCHANGED <<vars, unit, from8>>
  \/ unit = "install" /\ I!Next /\ UNCHANGED <<vars, unit, from15>>
  \/ unit = "bios" /\ V!Next /\ UNCHANGED <<vars, unit, from9>>
  \/ unit = "efi" /\ U!Next /\ UNCHANGED <<vars, unit, from14>>
  \/ unit = "fat" /\ F!Next /\ UNCHANGED <<vars, unit, from6>>
  \/ unit = "ext2" /\ X!Next /\ UNCHANGED <<vars, unit, from5>>
  \/ unit = "iso" /\ R!Next /\ UNCHANGED <<vars, unit, from9>>
  \/ unit = "config" /\ C!Next /\ UNCHANGED <<vars, unit, from8>>
  \/ unit = "menu" /\ M!Next /\ UNCHANGED <<vars, unit>>
  \/ unit = "vmm" /\ P!Next /\ UNCHANGED <<vars, unit, from5>>
  \/ unit = "handoff" /\ H!Next /\ UNCHANGED <<vars, unit, from15>>
  \/ unit = "smp" /\ S!Next /\ UNCHANGED <<vars, unit, from12>>
  \/ unit = "multiboot" /\ B!Next /\ UNCHANGED <<vars, unit, from9>>

LoaderSpec == LoaderInit /\ [][LoaderNext]_lvars

-----------------------------------------------------------------------------
(* The properties of the units. *)

\* Every word of memory is accounted for once, and no allocation is given out twice or from
\* what is not usable (MemoryAccounted of Memmap).
MemoryAccounted == unit = "memmap" => A!MemoryAccounted

\* Uninstalling puts back what installing has overwritten, newest first, and an install that
\* reports success has its stages in place and no partition under them (Install).
InstallUndone == unit = "install" => I!UndoRestores /\ I!Installed

\* The list of volumes is what the disks hold, and reading a volume gives its own sectors
\* (VolumesExact of Volumes); a volume is matched with the firmware's handle of the same disk
\* and the disks are left as they were (HandlesFound of EfiVolumes).
VolumesExact ==
  /\ unit = "bios" => V!VolumesExact
  /\ unit = "efi" => U!HandlesFound

\* A file is found under its names and read byte for byte, whatever the layout of the volume
\* (BootReadsExact of BootFat, ExtReadsExact of Ext2, IsoReadsExact of Iso9660).
BootReadsExact ==
  /\ unit = "fat" => F!BootReadsExact
  /\ unit = "ext2" => X!ExtReadsExact
  /\ unit = "iso" => R!IsoReadsExact

\* The menu tree and its values are those of the configuration file (ConfigRead of Config);
\* the entry marked on the screen is the one Enter boots, and with remember_last_entry the
\* one the machine comes back to (Menu).
MenuTrue ==
  /\ unit = "config" => C!ConfigRead
  /\ unit = "menu" => M!MenuTrue /\ M!RemembersLast

\* The kernel is loaded, relocated, searched for requests and mapped as its file says
\* (ImageExact of Elf, HandoffExact of Handoff); every address leads to the page asked for
\* last, with its flags (MappingExact of Vmm); a Multiboot kernel, its modules and sections are
\* where they were to be when the kernel is entered (MultibootExact of Multiboot).  Every
\* processor that is started gets its own smp_info and no other's, whichever are slow or never
\* come, as long as none that was given up on wakes after all (OwnInfo of Smp).
HandoffExact ==
  /\ unit = "handoff" => H!ImageExact /\ H!HandoffExact
  /\ unit = "vmm" => P!MappingExact
  /\ unit = "multiboot" => B!MultibootExact
  /\ unit = "smp" => S!OwnInfo

\* PROTOCOL.md: "the kernel will be properly loaded and mapped with appropriate MMU
\* permissions": the segments have theirs whatever their alignment (Handoff).
KernelMapped == unit = "handoff" => H!KernelMapped
HandoffSpec ==
  /\ unit = "handoff" /\ H!Init /\ Unused15 /\ UnusedPhys
  /\ [][H!Next /\ UNCHANGED <<vars, unit, from15>>]_lvars
=============================================================================
