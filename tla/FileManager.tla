---------------------------- MODULE FileManager ----------------------------
(***************************************************************************)
(* The file manager of src/apps/file_manager.c, key by key, on a volume    *)
(* that the shell changes behind its back, and how src/services/fs.c       *)
(* resolves the paths it is given.  A path is the sequence of its          *)
(* components, a component the sequence of its characters; what an         *)
(* operation of fs.c does on the disk is in modules Fat and Dirent, and is *)
(* one step here.  The line being typed, the status line and the drawing   *)
(* are left out: a rename gets one of Inputs.                              *)
(***************************************************************************)
EXTENDS Integers, Sequences, FiniteSets, FiniteSetsExt, SequencesExt

CONSTANTS
  Names,            \* what entries are called, in the order of fs_stricmp
  Inputs,           \* bound: what is typed for a new name, as components
  PathCap, JoinCap, ClipCap,   \* sizeof next, src and dst, clipboard
  ListCap,          \* entries fs_list_dir is given room for
  MaxDirs,          \* bound: directories below the root
  Given,            \* what the volume holds at the start: contents 1, 2, ...
  MaxOps            \* bound: commands of the shell

Dot == <<".">>
DotDot == <<".", ".">>
Listed == <<Dot, DotDot>> \o Names       \* every name, in order
AllNames == ToSet(Listed)
Root == 0
Dirs == 0 .. MaxDirs

VARIABLES
  vol,        \* by directory: what its entries are; a directory not in use has none
  ops,        \* commands of the shell so far; each write brings a content of its own
  path, entries, selection, mode, sort, desc, clip, cut,     \* file_manager_t
  fresh,      \* nobody else has changed the volume since the last refresh
  broken      \* a directory was freed through its own "." entry

fm == <<path, entries, selection, mode, sort, desc, clip, cut>>
vars == <<vol, ops, fm, fresh, broken>>

None == [kind |-> "none", to |-> 0]
File(c) == [kind |-> "file", to |-> c]
Dir(k) == [kind |-> "dir", to |-> k]
Absent == [n \in AllNames |-> None]
EmptyDir(k, up) == [Absent EXCEPT ![Dot] = Dir(k), ![DotDot] = Dir(up)]
Files(v) == UNION {{e.to : e \in {e \in Range(v[k]) : e.kind = "file"}} : k \in Dirs} \ {0}
GivenFiles == Cardinality(Files(Given))
InUse(k) == k = Root \/ vol[k] # Absent
IsEmpty(k) == \A n \in AllNames \ {Dot, DotDot} : vol[k][n] = None

-----------------------------------------------------------------------------
(* path_dir_cluster: the directory of the last component, and its name. *)
NoDir == -1
Into(v, k, n) == IF k # NoDir /\ n \in AllNames /\ v[k][n].kind = "dir" THEN v[k][n].to ELSE NoDir
Parts(p) == SelectSeq(p, LAMBDA n : n # <<>>)

DirIn(v, p) ==
  LET q == Parts(p)
      at[i \in 0 .. Len(q)] == IF i = 0 THEN Root ELSE Into(v, at[i - 1], q[i])
  IN  IF q = <<>> THEN Root ELSE at[Len(q) - 1]
DirOf(p) == DirIn(vol, p)
Leaf(p) == IF Parts(p) = <<>> THEN <<>> ELSE Last(Parts(p))
Entry(p) == IF DirOf(p) # NoDir /\ Leaf(p) \in AllNames THEN vol[DirOf(p)][Leaf(p)] ELSE None
Found(p) == Entry(p).kind # "none"
SameEntry(p, q) == DirOf(p) = DirOf(q) /\ Leaf(p) = Leaf(q)

Set(v, p, e) == [v EXCEPT ![DirOf(p)][Leaf(p)] = e]

\* fs_list_dir
ListedDir(v, p) == IF p = <<>> THEN Root ELSE DirIn(v, p)

\* fs_rename: when it goes through, and the volume afterwards.
Renames(old, new) ==
  /\ old # new
  /\ DirOf(old) # NoDir /\ DirOf(new) # NoDir /\ Leaf(new) \in AllNames
  /\ ~Found(new) /\ Found(old)
  /\ Entry(old).kind = "dir" => DirOf(old) = DirOf(new)
Renamed(old, new) == Set(Set(vol, new, Entry(old)), old, None)

\* fs_delete; a directory that goes through its own "." is still in its parent.
Deletes(p) == Found(p) /\ (Entry(p).kind = "dir" => IsEmpty(Entry(p).to))
Deleted(v, p) ==
  LET e == v[DirOf(p)][Leaf(p)]
      w == Set(v, p, None)
  IN  IF e.kind = "dir" THEN [w EXCEPT ![e.to] = Absent] ELSE w
Breaks(p) == Entry(p).kind = "dir" /\ Leaf(p) \in {Dot, DotDot}

\* fs_copy: when it writes at all, and what it makes of dst; the volume may be full, and
\* an entry whose overwriting fails holds nothing of use (content 0).
Copies(src, dst) ==
  /\ Entry(src).kind = "file"
  /\ DirOf(dst) # NoDir /\ Leaf(dst) \in AllNames /\ Entry(dst).kind # "dir"
Copied(src, dst) == Set(vol, dst, Entry(src))
HalfCopied(dst) == Set(vol, dst, File(0))

-----------------------------------------------------------------------------
(* fm_join_path: the text of a path is cut to what its buffer holds. *)
TextLen(p) ==
  LET upTo[i \in 0 .. Len(p)] == IF i = 0 THEN 0 ELSE upTo[i - 1] + Len(p[i]) + 1 IN upTo[Len(p)]
Join(p, q, cap) ==
  LET whole == p \o q
      k == Max({i \in 0 .. Len(whole) : TextLen(SubSeq(whole, 1, i)) < cap})
      room == cap - 1 - TextLen(SubSeq(whole, 1, k))
  IN  IF k = Len(whole) \/ room = 0 THEN SubSeq(whole, 1, k)
      ELSE Append(SubSeq(whole, 1, k), SubSeq(whole[k + 1], 1, room - 1))

-----------------------------------------------------------------------------
(* file_manager_refresh: list, sort, keep the cursor inside. *)
Rank(n) == CHOOSE i \in DOMAIN Listed : Listed[i] = n
Key(e, by) == IF by = "size" THEN IF e.kind = "dir" THEN 0 ELSE e.to ELSE Rank(e.name)

\* fs_sort_entries swaps neighbours while the right one comes strictly before the left.
Before(a, b, by, down) ==
  LET less(x, y) == IF x.kind # y.kind THEN x.kind = "dir" ELSE Key(x, by) < Key(y, by)
  IN  IF down THEN less(b, a) ELSE less(a, b)

Sorted(s, by, down) ==
  LET place(i) == Cardinality({j \in DOMAIN s : \/ Before(s[j], s[i], by, down)
                                                \/ j <= i /\ ~Before(s[i], s[j], by, down)})
  IN  [k \in DOMAIN s |-> s[CHOOSE i \in DOMAIN s : place(i) = k]]

\* The slots of a directory are in the order of the names here.
Listing(v, p, by, down) ==
  LET k == ListedDir(v, p)
      all == SelectSeq(Listed, LAMBDA n : k # NoDir /\ v[k][n] # None)
      room == IF Len(all) > ListCap THEN ListCap ELSE Len(all)
  IN  Sorted([i \in 1 .. room |-> [name |-> all[i], kind |-> v[k][all[i]].kind, to |-> v[k][all[i]].to]],
             by, down)

Clamped(sel, n) == IF n = 0 THEN 0 ELSE IF sel >= n THEN n - 1 ELSE sel

Refresh(sel) ==
  /\ entries' = Listing(vol', path', sort', desc')
  /\ selection' = Clamped(sel, Len(entries'))
  /\ fresh' = TRUE

AtEntry == selection < Len(entries)
Selected == entries[selection + 1].name

Init ==
  /\ vol = Given /\ ops = 0
  /\ path = <<>> /\ selection = 0
  /\ mode = "normal" /\ sort = "name" /\ desc = FALSE
  /\ clip = <<>> /\ cut = FALSE
  /\ entries = Listing(vol, path, sort, desc)
  /\ fresh = TRUE /\ broken = FALSE

-----------------------------------------------------------------------------
(* file_manager_handle_key with no question open. *)
Normal == mode = "normal" /\ ~broken

Up ==
  /\ Normal /\ selection > 0
  /\ selection' = selection - 1
  /\ UNCHANGED <<vol, ops, path, entries, mode, sort, desc, clip, cut, fresh, broken>>

Down ==
  /\ Normal /\ selection + 1 < Len(entries)
  /\ selection' = selection + 1
  /\ UNCHANGED <<vol, ops, path, entries, mode, sort, desc, clip, cut, fresh, broken>>

\* Without an extension the type is the name, so Type sorts as Name does.
SortKey ==
  /\ Normal
  /\ sort' = (CASE sort = "name" -> "size" [] sort = "size" -> "type" [] sort = "type" -> "name")
  /\ UNCHANGED <<vol, ops, path, mode, desc, clip, cut, broken>>
  /\ Refresh(selection)

ReverseKey ==
  /\ Normal
  /\ desc' = ~desc
  /\ UNCHANGED <<vol, ops, path, mode, sort, clip, cut, broken>>
  /\ Refresh(selection)

\* Keys C and X.
Take(cutting) ==
  /\ Normal /\ AtEntry
  /\ clip' = Join(path, <<Selected>>, ClipCap) /\ cut' = cutting
  /\ UNCHANGED <<vol, ops, path, entries, selection, mode, sort, desc, fresh, broken>>

\* Mutant: the source goes although the copy failed.
MoveOutcomes_Careless(src, dst) ==
  IF src = dst THEN {<<vol, TRUE>>}
  ELSE IF Renames(src, dst) THEN {<<Renamed(src, dst), TRUE>>}
  ELSE IF ~Copies(src, dst) THEN {<<vol, FALSE>>}
  ELSE {<<Deleted(Copied(src, dst), src), TRUE>>, <<Deleted(HalfCopied(dst), src), TRUE>>}

\* fs_move: the volume afterwards, and what it returns.
MoveOutcomes(src, dst) ==
  IF src = dst THEN {<<vol, TRUE>>}
  ELSE IF Renames(src, dst) THEN {<<Renamed(src, dst), TRUE>>}
  ELSE IF ~Copies(src, dst) THEN {<<vol, FALSE>>}
  ELSE {<<Deleted(Copied(src, dst), src), TRUE>>, <<HalfCopied(dst), FALSE>>}

CopyOutcomes(src, dst) ==
  IF ~Copies(src, dst) THEN {<<vol, FALSE>>}
  ELSE {<<Copied(src, dst), TRUE>>, <<HalfCopied(dst), FALSE>>}

PasteTarget == Join(path, <<Last(clip)>>, JoinCap)

\* Key V.  A clipboard that was cut right behind a slash has no name to paste under.
Paste ==
  /\ Normal /\ clip # <<>> /\ Last(clip) # <<>>
  /\ \E r \in IF cut THEN MoveOutcomes(clip, PasteTarget) ELSE CopyOutcomes(clip, PasteTarget) :
       /\ vol' = r[1]
       /\ clip' = IF cut /\ r[2] THEN <<>> ELSE clip
       /\ UNCHANGED <<ops, path, mode, sort, desc, cut>>
       /\ broken' = (cut /\ r[2] /\ clip # PasteTarget /\ Breaks(clip))
       /\ IF r[2] THEN Refresh(selection)
          ELSE UNCHANGED <<entries, selection>> /\ fresh' = (fresh /\ vol' = vol)

AskDelete ==
  /\ Normal /\ AtEntry
  /\ mode' = "delete"
  /\ UNCHANGED <<vol, ops, path, entries, selection, sort, desc, clip, cut, fresh, broken>>

AskName ==
  /\ Normal /\ AtEntry
  /\ mode' = "rename"
  /\ UNCHANGED <<vol, ops, path, entries, selection, sort, desc, clip, cut, fresh, broken>>

\* file_manager_set_path
SetPath(p) ==
  /\ path' = p
  /\ UNCHANGED <<vol, ops, mode, sort, desc, clip, cut, broken>>
  /\ Refresh(0)

Open ==
  /\ Normal /\ AtEntry /\ entries[selection + 1].kind = "dir"
  /\ TextLen(Append(path, Selected)) + 1 < PathCap
  /\ SetPath(Append(path, Selected))

Back ==
  /\ Normal /\ path # <<>>
  /\ SetPath(Front(path))

-----------------------------------------------------------------------------
(* The answers to its two questions. *)
Target(q) == Join(path, q, JoinCap)

\* Mutant: the answer is taken for the entry below the cursor.
DoomedName_Next == entries[((selection + 1) % Len(entries)) + 1].name

DoomedName == Selected

Confirm ==
  LET p == Target(<<DoomedName>>)
  IN  /\ mode = "delete" /\ ~broken
      /\ mode' = "normal"
      /\ UNCHANGED <<ops, path, sort, desc, clip, cut>>
      /\ IF Deletes(p)
         THEN vol' = Deleted(vol, p) /\ broken' = Breaks(p) /\ Refresh(selection)
         ELSE UNCHANGED <<vol, entries, selection, fresh, broken>>

Enter(input) ==
  LET old == Target(<<Selected>>)
      new == Target(input)
  IN  /\ mode = "rename" /\ ~broken
      /\ mode' = "normal"
      /\ UNCHANGED <<ops, path, sort, desc, clip, cut>>
      /\ IF input # <<>> /\ old = new
         THEN UNCHANGED <<vol, broken>> /\ Refresh(selection)
         ELSE IF input # <<>> /\ Renames(old, new)
         THEN /\ vol' = Renamed(old, new)
              /\ broken' = Breaks(old)
              /\ Refresh(selection)
         ELSE UNCHANGED <<vol, entries, selection, fresh, broken>>

\* N or Escape, Escape.
Dismiss ==
  /\ mode # "normal" /\ ~broken
  /\ mode' = "normal"
  /\ UNCHANGED <<vol, ops, path, entries, selection, sort, desc, clip, cut, fresh, broken>>

FmKey ==
  \/ Up \/ Down \/ SortKey \/ ReverseKey \/ Paste \/ AskDelete \/ AskName \/ Open \/ Back
  \/ Confirm \/ Dismiss
  \/ \E c \in BOOLEAN : Take(c)
  \/ \E i \in Inputs : Enter(i)

-----------------------------------------------------------------------------
(* The shell, in a window of its own: write, mkdir and rm of an entry. *)
ShellWrite(k, n) ==
  /\ InUse(k) /\ vol[k][n].kind # "dir"
  /\ vol' = [vol EXCEPT ![k][n] = File(GivenFiles + ops + 1)]

ShellMkdir(k, n) ==
  /\ InUse(k) /\ vol[k][n] = None
  /\ \E new \in {d \in Dirs : ~InUse(d)} :
       /\ \A d \in Dirs : ~InUse(d) => new <= d
       /\ vol' = [vol EXCEPT ![k][n] = Dir(new), ![new] = EmptyDir(new, k)]

ShellRemove(k, n) ==
  /\ InUse(k) /\ vol[k][n] # None
  /\ vol[k][n].kind = "dir" => IsEmpty(vol[k][n].to)
  /\ vol' = IF vol[k][n].kind = "dir" THEN [vol EXCEPT ![k][n] = None, ![vol[k][n].to] = Absent]
            ELSE [vol EXCEPT ![k][n] = None]

Shell ==
  /\ ~broken /\ ops < MaxOps
  /\ ops' = ops + 1
  /\ \E k \in Dirs, n \in ToSet(Names) : ShellWrite(k, n) \/ ShellMkdir(k, n) \/ ShellRemove(k, n)
  /\ fresh' = FALSE
  /\ UNCHANGED <<fm, broken>>

Next == FmKey \/ Shell

Spec == Init /\ [][Next]_vars

-----------------------------------------------------------------------------

Whole(q) == TextLen(path \o q) < JoinCap

\* Contents that a step takes off the volume.
Lost == Files(vol) \ Files(vol')

\* No key loses a file the user did not name.  What the delete question removes is the
\* entry under the cursor, however old the list is; a paste removes nothing but the file
\* it replaces, also when the volume is full; the rest removes nothing.  Left out are
\* paths cut to fit their buffer and a paste whose two paths spell the same entry, which
\* fs_move copies onto itself and deletes.
LosesNothing ==
  \/ Lost = {}
  \/ FmKey =>
    \/ mode = "delete" /\ (Whole(<<Selected>>) => Lost = {Entry(Append(path, Selected)).to})
    \/ mode = "normal" /\ clip # <<>> /\ ~SameEntry(clip, PasteTarget) /\ Lost = {Entry(PasteTarget).to}
    \/ mode = "normal" /\ clip # <<>> /\ SameEntry(clip, PasteTarget)
NothingLost == [][LosesNothing]_vars

\* FEATURES.md: the file manager "Displays real filesystem contents" and opens
\* directories: what it shows is what is in the directory its path names.
\* fs_list_dir lists the directory above it instead.
ListsOpened ==
  (fresh /\ ~broken /\ (path = <<>> \/ Entry(path).kind = "dir")) =>
    LET k == IF path = <<>> THEN Root ELSE Entry(path).to
        all == {n \in AllNames : vol[k][n] # None}
    IN  /\ {entries[i].name : i \in DOMAIN entries} \subseteq all
        /\ Cardinality(all) <= ListCap => Len(entries) = Cardinality(all)
=============================================================================
