------------------------------ MODULE Iso9660 ------------------------------
(***************************************************************************)
(* The boot loader's reader of CD images,                                  *)
(* limine-8.4.0/common/fs/iso9660.s2.c: the volume descriptors, the cached *)
(* root, directories with records that do not cross sectors, plain and     *)
(* Rock Ridge names, and files.  A directory is the sequence of its        *)
(* records, laid out here the way a disc has them; a byte of a file is     *)
(* labelled by its place on the disc.                                      *)
(***************************************************************************)
EXTENDS Integers, Sequences, FiniteSetsExt, SequencesExt, TLC

CONSTANTS
  SECTOR,        \* ISO9660_SECTOR_SIZE
  WIDTH,         \* bytes a 32-bit product of LBA and sector size can count
  HEAD,          \* bytes of a record in front of its name, 33
  Drives,        \* sequences of volumes: .signature, .descriptors, .root (its LBA), .dirs (by LBA)
  Paths,         \* sequences of names; none leads through a file
  Lower          \* [letters -> letters], what strcasecmp makes of them

NUL == "nul"
\* A record has .name (of characters), .fields of the system use area (.sig,
\* .len, .ver, .text), .extent, .size and .dir.

VARIABLES
  drives,        \* the volumes of the machine
  vol,           \* the one opened last
  fold,          \* case_insensitive_fopen
  contexts,      \* volume -> the root that was read when it was first opened
  path,          \* what was asked for last
  handle,        \* <<>> or <<[LBA, size]>>
  got,           \* <<>> or <<[loc, bytes]>> of the last read
  panicked
vars == <<drives, vol, fold, contexts, path, handle, got, panicked>>

-----------------------------------------------------------------------------
\* On the disc: a record is padded to an even length and begins a new sector
\* when the rest of this one is too short; the directory fills its sectors.
Pad(r) == IF Len(r.name) % 2 = 0 THEN 1 ELSE 0
Area(r) == FoldLeft(LAMBDA a, f : a + f.len, 0, r.fields)
Length(r) == LET l == HEAD + Len(r.name) + Pad(r) + Area(r) IN l + (l % 2)
Room(at) == SECTOR - (at % SECTOR)
\* Where each record begins, and where the last one ends.
Starts(recs) ==
  LET Add(at, r) == LET end == at[Len(at)]
                        start == IF Room(end) < Length(r) THEN end + Room(end) ELSE end
                    IN  [at EXCEPT ![Len(at)] = start] \o <<start + Length(r)>>
  IN  FoldLeft(Add, <<0>>, recs)
DirSize(recs) == LET e == Starts(recs)[Len(recs) + 1] IN ((e + SECTOR - 1) \div SECTOR) * SECTOR
\* The directory a read of the disc at this address finds there.
ReadDir(v, address) == IF address % SECTOR = 0 /\ address \div SECTOR \in DOMAIN v.dirs THEN v.dirs[address \div SECTOR] ELSE <<>>

-----------------------------------------------------------------------------
\* iso9660_find_PVD: the first descriptor that is the primary or ends the list.
Decisive(v) == Min({i \in DOMAIN v.descriptors : v.descriptors[i] \in {"primary", "terminator"}})
HasPVD(v) == v.descriptors[Decisive(v)] = "primary"
\* iso9660_cache_root, iso9660_get_context.
Product(lba) == (lba * SECTOR) % WIDTH
iso9660_cache_root(v) == ReadDir(v, Product(v.root))
\* Mutant: whichever root is cached is taken.
Root_Any(v) == IF contexts # <<>> THEN contexts[Min(DOMAIN contexts)] ELSE iso9660_cache_root(drives[v])
Root(v) == IF v \in DOMAIN contexts THEN contexts[v] ELSE iso9660_cache_root(drives[v])

\* load_name: the fields of the system use area up to an NM, as long as they
\* have version 1 (or length 2) and four bytes are left.
NM(r) ==
  LET left[i \in 1 .. Len(r.fields) + 1] == IF i = 1 THEN Length(r) - HEAD - Len(r.name) - Pad(r) ELSE left[i - 1] - r.fields[i - 1].len
      good(i) == left[i] >= 4 /\ (r.fields[i].ver = 1 \/ r.fields[i].len = 2)
      at == {i \in DOMAIN r.fields : r.fields[i].sig = "NM" /\ \A j \in 1 .. i : good(j)}
  IN  IF at = {} THEN <<>> ELSE <<r.fields[Min(at)]>>
RockRidge(nm) == nm # <<>> /\ nm[1].len # 5
UntilNul(name) == LET nuls == {i \in DOMAIN name : name[i] = NUL} IN IF nuls = {} THEN name ELSE SubSeq(name, 1, Min(nuls) - 1)
\* Mutant: the dot in front of a version stays.
PlainName_Dot(name) == LET ends == {i \in DOMAIN name : name[i] = ";"} IN IF ends = {} THEN name ELSE SubSeq(name, 1, Min(ends) - 1)
PlainName(name) ==
  LET ends == {i \in DOMAIN name : name[i] = ";" \/ (name[i] = "." /\ i < Len(name) /\ name[i + 1] = ";")}
  IN  IF ends = {} THEN name ELSE SubSeq(name, 1, Min(ends) - 1)
load_name(r, nm) == UntilNul(IF RockRidge(nm) THEN nm[1].text ELSE PlainName(r.name))
strcasecmp(a, b) == [i \in DOMAIN a |-> Lower[a[i]]] = [i \in DOMAIN b |-> Lower[b[i]]]
Matches(r, name) ==
  LET Same(nm, n) == IF RockRidge(nm) /\ ~fold THEN name = n ELSE strcasecmp(name, n)
      With(nm) == Same(nm, load_name(r, nm))
  IN  With(NM(r))

\* iso9660_find: from record to record by their lengths; where there is none,
\* on to the next sector, if this is not the last.
NextSector(size) == size - (size % SECTOR)
\* Mutant: the search ends with the first sector.
iso9660_find_Sector(recs, name) ==
  LET here == {i \in DOMAIN recs : Starts(recs)[i] < SECTOR /\ Matches(recs[i], name)} IN IF here = {} THEN 0 ELSE Min(here)
iso9660_find(recs, name) ==
  LET Search(starts, total) ==
        LET At(size) == {i \in DOMAIN recs : starts[i] = total - size}
            find[size \in Nat] ==
              LET Look(i) == IF Matches(recs[i], name) THEN i ELSE find[size - Length(recs[i])]
              IN  IF size = 0 THEN 0
                  ELSE IF At(size) # {} THEN Look(Min(At(size)))
                  ELSE IF size <= SECTOR THEN 0 ELSE find[NextSector(size)]
        IN  find[total]
  IN  Search(Starts(recs), DirSize(recs))

-----------------------------------------------------------------------------
Init ==
  /\ drives \in Drives /\ vol = 1 /\ fold \in BOOLEAN /\ contexts = <<>>
  /\ path = <<>> /\ handle = <<>> /\ got = <<>> /\ panicked = FALSE

\* iso9660_open: component after component, each directory read when it is
\* entered.
Walk(v, names) ==
  LET Found(recs, i) == IF i = 0 THEN <<>> ELSE <<[LBA |-> recs[i].extent, size |-> recs[i].size]>>
      In(recs, k) == Found(recs, iso9660_find(recs, names[k]))
      Enter(at, k) == IF at = <<>> THEN at ELSE In(IF k = 1 THEN Root(v) ELSE ReadDir(drives[v], Product(at[1].LBA)), k)
  IN  FoldLeft(Enter, <<[LBA |-> 0, size |-> 0]>>, [k \in DOMAIN names |-> k])
iso9660_open ==
  /\ ~panicked /\ handle = <<>>      \* one file at a time
  /\ \E v \in DOMAIN drives, p \in Paths :
       /\ vol' = v /\ path' = p
       /\ panicked' = (drives[v].signature /\ v \notin DOMAIN contexts /\ ~HasPVD(drives[v]))
       /\ IF drives[v].signature /\ ~panicked'
          THEN contexts' = (v :> Root(v)) @@ contexts /\ handle' = Walk(v, p)
          ELSE handle' = <<>> /\ UNCHANGED contexts
  /\ got' = <<>>
  /\ UNCHANGED <<drives, fold>>

iso9660_read ==
  /\ handle # <<>>
  /\ \E loc \in 0 .. handle[1].size - 1, count \in 1 .. handle[1].size :
       /\ loc + count <= handle[1].size
       /\ got' = <<[loc |-> loc, bytes |-> [k \in 1 .. count |-> Product(handle[1].LBA) + loc + k - 1]]>>
  /\ UNCHANGED <<drives, vol, fold, contexts, path, handle, panicked>>

iso9660_close ==
  /\ handle # <<>>
  /\ handle' = <<>> /\ path' = <<>> /\ got' = <<>>
  /\ UNCHANGED <<drives, vol, fold, contexts, panicked>>

Next == iso9660_open \/ iso9660_read \/ iso9660_close
Spec == Init /\ [][Next]_vars

-----------------------------------------------------------------------------
\* Reference: the names a record has for a user, with Rock Ridge and without;
\* "" is the directory itself.
Whole(r) == \E f \in {r.fields[i] : i \in DOMAIN r.fields} : f.sig = "NM" /\ f.len > 5
Known(r, name) ==
  IF Whole(r)
  THEN LET f == r.fields[Min({i \in DOMAIN r.fields : r.fields[i].sig = "NM"})]
       IN  IF fold THEN strcasecmp(name, f.text) ELSE name = f.text
  ELSE \/ name = <<>> /\ r.name = <<NUL>>
       \/ \E v \in {<<>>, <<";", "1">>, <<".", ";", "1">>} :
            LET stem == SubSeq(r.name, 1, Len(r.name) - Len(v))
            IN  /\ Len(v) < Len(r.name) /\ stem \o v = r.name /\ r.name # <<NUL>>
                /\ (v = <<>> => \A i \in DOMAIN r.name : r.name[i] # ";")
                /\ (v = <<";", "1">> => stem[Len(stem)] # ".")
                /\ strcasecmp(name, stem)
Disc == drives[vol]
Lookup(lba, name) == LET at == {i \in DOMAIN Disc.dirs[lba] : Known(Disc.dirs[lba][i], name)} IN IF at = {} THEN <<>> ELSE <<Disc.dirs[lba][Min(at)]>>
Meant(names) ==
  LET at[k \in 0 .. Len(names)] ==
        IF k = 0 THEN <<[extent |-> Disc.root, dir |-> TRUE]>>
        ELSE IF at[k - 1] = <<>> THEN <<>> ELSE Lookup(at[k - 1][1].extent, names[k])
  IN  at[Len(names)]
Near == \A lba \in DOMAIN Disc.dirs : lba * SECTOR < WIDTH /\ \A i \in DOMAIN Disc.dirs[lba] : Disc.dirs[lba][i].extent * SECTOR < WIDTH

\* On a disc of less than 4 GiB a path leads to the file it names, wherever in
\* its sectors the record lies, whichever kind of name it has and whether or
\* not the root of this volume, or of another, was read before; there is no other result, and what is read is
\* the bytes asked for (iso9660_open, iso9660_find, load_name, iso9660_read).
IsoReadsExact ==
  /\ Near /\ Disc.signature /\ ~panicked /\ path # <<>> =>
       \A m \in {Meant(path)} :
         /\ handle # <<>> <=> m # <<>>
         /\ handle # <<>> => handle[1].LBA = m[1].extent /\ handle[1].size = m[1].size
  /\ Near /\ got # <<>> =>
       \A k \in DOMAIN got[1].bytes : got[1].bytes[k] = handle[1].LBA * SECTOR + got[1].loc + k - 1
=============================================================================
