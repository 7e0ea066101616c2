------------------------------ MODULE MCSystem ------------------------------
(***************************************************************************)
(* The kernel's services and drivers and what is built on the file system, *)
(* for TLC: the scheduler on two processors, keyboard and mouse, the PCI   *)
(* search, the rings of the network card, the disk driver, the FAT volume  *)
(* and its directories, the file manager, the commands of the shell and    *)
(* the pages of the browser. A behaviour is one of one unit, chosen at the *)
(* start: the scheduler, the network card and the disk driver have the     *)
(* variables of Sched, Nic and VirtioBlk, the other units share x1 .. x17, *)
(* and those a unit does not use stay as they are.                         *)
(***************************************************************************)
EXTENDS Sched, Nic, VirtioBlk, Sequences, TLC

VARIABLES
  unit, x1, x2, x3, x4, x5, x6, x7, x8, x9, x10, x11, x12, x13, x14, x15, x16, x17

\* The variables behind the ones a unit uses.
from14 == <<x14, x15, x16, x17>>
from13 == <<x13, from14>>
from11 == <<x11, x12, from13>>
from8 == <<x8, x9, x10, from11>>
from6 == <<x6, x7, from8>>
from5 == <<x5, from6>>
from4 == <<x4, from5>>
from1 == <<x1, x2, x3, from4>>
ownVars == <<vars, nicVars, blkVars>>
systemVars == <<ownVars, unit, from1>>

Unused14 == x14 = 0 /\ x15 = 0 /\ x16 = 0 /\ x17 = 0
Unused13 == x13 = 0 /\ Unused14
Unused11 == x11 = 0 /\ x12 = 0 /\ Unused13
Unused8 == x8 = 0 /\ x9 = 0 /\ x10 = 0 /\ Unused11
Unused6 == x6 = 0 /\ x7 = 0 /\ Unused8
Unused5 == x5 = 0 /\ Unused6
Unused4 == x4 = 0 /\ Unused5
Unused1 == x1 = 0 /\ x2 = 0 /\ x3 = 0 /\ Unused4

-----------------------------------------------------------------------------
\* The configuration space of a PCI function with vendor v, device d, header byte h and
\* BAR 0.  In a slot: nothing; a single function, answering at both numbers or at one; or
\* several functions.
Off == {0, 4, 12} \cup {16 + 4 * i : i \in 0 .. 5}
Ones == [o \in Off |-> <<255, 255, 255, 255>>]
Fn(v, d, h, bar, st) ==
  [o \in Off |-> CASE o = 0 -> <<v, 0, d, 0>> [] o = 4 -> <<1, 0, st, 0>> [] o = 12 -> <<0, 0, h, 0>>
                   [] o = 16 -> bar [] o = 20 -> <<7, 0, 0, 0>> [] o > 20 -> <<0, 0, 0, 0>>]
Bars == {<<1, 192, 0, 0>>, <<4, 0, 16, 224>>}
Plugged(b) == {Ones, Fn(1, 1, 0, b, 1), Fn(2, 2, 0, b, 0), Fn(1, 1, 128, b, 1), Fn(2, 2, 128, b, 1)}
Beside(b, f) == IF f = Ones THEN {Ones} ELSE IF f[12][3] < 128 THEN {f, Ones} ELSE Plugged(b)
PciSlots == UNION {UNION {{<<f, g>> : g \in Beside(b, f)} : f \in Plugged(b)} : b \in Bars}
Spaces ==
  {[p \in (0 .. 1) \X (0 .. 1) \X (0 .. 1) |->
      CASE p[1] = 0 /\ p[2] = 0 -> x[p[3] + 1]
        [] p[1] = 0 /\ p[2] = 1 -> y[p[3] + 1]
        [] p[1] = 1 /\ p[2] = 0 -> Ones
        [] p[1] = 1 /\ p[2] = 1 -> z[p[3] + 1]]
     : x, y \in PciSlots, z \in {<<Ones, Ones>>, <<Fn(2, 2, 0, <<4, 0, 16, 224>>, 0), Ones>>}}

\* Volumes for the file manager (a directory with a file, and a file) and the shell.
A == <<"a">>
AB == <<"a", "b">>
Nodes == <<[kind |-> "none", to |-> 0], [kind |-> "file", to |-> 1], [kind |-> "file", to |-> 2],
           [kind |-> "dir", to |-> 0], [kind |-> "dir", to |-> 1]>>
Listing(a, ab, dot, dots) == (A :> Nodes[a]) @@ (AB :> Nodes[ab]) @@ (<<".">> :> Nodes[dot]) @@ (<<".", ".">> :> Nodes[dots])
Tree == (0 :> Listing(5, 2, 1, 1)) @@ (1 :> Listing(1, 3, 5, 4))
Texts == (<<"a">> :> [dir |-> FALSE, text |-> <<"a", "\n", "b", "\n", "a">>])
         @@ (<<"b">> :> [dir |-> TRUE, text |-> <<>>]) @@ (<<"b", "a">> :> [dir |-> TRUE, text |-> <<>>])

\* What pages are made of.
PagePieces ==
  {<<"x">>, <<"&", "l", "t", ";">>, <<"<", "/", "p", ">">>, <<"<", "x", ">">>,
   <<"&", "a", "m", "p", ";">>, <<"l", "t", ";">>, <<"&", "x">>, <<"cr", "lf">>, <<"length1">>}
PageAnswers ==
  {s \in [pieces : UNION {[1 .. n -> PagePieces] : n \in 0 .. 2}, framing : {"close", "length", "chunked"},
          cut : {0, 6}, first : 1 .. 2] : s.framing # "chunked" => s.first = 1}

\* Input: a key of every kind, a ring for three scancodes; mouse motions that look like
\* first bytes (-1) and that do not.  Keyboard and mouse are units of their own.
I == INSTANCE Input WITH
  Letter <- {"a"}, Named <- {"enter"}, Extended <- {"up"}, Modifier <- {"shift", "alt"}, SIZE <- 4, MaxStrokes <- 4,
  extended <- x1, shift_down <- x2, alt_down <- x3, scancode_buf <- x4, scancode_head <- x5,
  scancode_tail <- x6, push_at <- x7, arg <- x8, pop_at <- x9, popped <- x10, wire <- x11, held <- x12,
  strokes <- x13, lost <- x14, dropped <- x15, meant <- x16, events <- x17,
  Flags <- {8, 9}, Motion <- {0, -1}, Leftovers <- {<<>>, <<0>>, <<7, 16>>}, Origin <- 2, MaxPackets <- 3,
  packet <- x1, mouse_x <- x2, mouse_y <- x3, mouse_buttons <- x4, port <- x5, sent <- x6, reported <- x7

\* Pci: two buses with two slots of two functions each.
D == INSTANCE Pci WITH
  BUSES <- 2, SLOTS <- 2, FUNCS <- 2, Ids <- {<<1, 1>>, <<2, 2>>}, Machines <- Spaces,
  space <- x1, want <- x2, at <- x3, dev <- x4, phase <- x5

\* Nic (in the configuration): two pollers, a receive ring of three descriptors and four
\* frames, a send ring of two and three.
\* VirtioBlk: four sectors, a bounce buffer of two, ring indices that wrap.

\* Fat: three names, five clusters of two bytes.
F == INSTANCE Fat WITH
  Names <- {"a", "b", "c"}, Last <- 6, ClusterBytes <- 2, Lengths <- {0, 3}, MaxOps <- 4, MaxCrashes <- 1,
  fat <- x1, data <- x2, dir <- x3, pc <- x4, op <- x5, want <- x6, ops <- x7, crashes <- x8, leaky <- x9,
  torn <- x10

\* Dirent: short names, and two long names, one of them of two parts; the long names came
\* with the volume, each within a cluster; small sectors.
E == INSTANCE Dirent WITH
  Short <- {"v", "x", "y", "z"}, Long <- {"long1", "long2"},
  Aliases <- [long1 |-> "x", long2 |-> "x"], Parts <- [long1 |-> 1, long2 |-> 2],
  SlotsPerSector <- 3, SectorsPerCluster <- 1, MaxClusters <- 3, Given <- <<"long2", "y", "long1">>,
  Made <- {"v", "x", "y", "z"}, Values <- {1, 2}, MaxOps <- 4,
  dir <- x1, want <- x2, ops <- x3

\* FileManager: a directory with a file beside a file, short buffers.
G == INSTANCE FileManager WITH
  Names <- <<A, AB>>, Inputs <- {<<>>, <<A, AB>>}, PathCap <- 5, JoinCap <- 7, ClipCap <- 6, ListCap <- 3,
  MaxDirs <- 1, MaxOps <- 1, Given <- Tree,
  vol <- x1, ops <- x2, path <- x3, entries <- x4, selection <- x5, mode <- x6, sort <- x7, desc <- x8,
  clip <- x9, cut <- x10, fresh <- x11, broken <- x12

\* Commands: paths with dots and with case, from directories spelled in other ways.
C == INSTANCE Commands WITH
  PATH_MAX <- 10, SEG_MAX <- 4, TEXT_MAX <- 4, Counts <- {1, 3}, MaxOps <- 2,
  Args <- {<<"a">>, <<"A">>, <<".", ".", "/", "a">>, <<"/", "b">>, <<"b", "/", ".", ".", "/", "a">>},
  Words <- {<<"b">>, <<"b", " ", "b", "a">>},
  Starts <- {<<"/">>, <<"/", "B", "/">>, <<"/", "b", "/", "A">>}, Given <- Texts,
  vol <- x1, cwd <- x2, printed <- x3, ops <- x4

\* Page: URLs of up to three characters; pages of up to two pieces, by length, in up to
\* two chunks or to the end, whole or cut short.
P == INSTANCE Page WITH
  Prefix <- {"", "http", "https"}, MaxUrl <- 3, HostCap <- 3, PathCap <- 3, Answers <- PageAnswers,
  phase <- x1, url <- x2, prefix <- x3, host <- x4, path <- x5, sent <- x6, raw <- x7, p <- x8,
  content <- x9, o <- x10, in_tag <- x11, tag <- x12, decoded <- x13

ASSUME I!KeyboardAssumption /\ I!MouseAssumption /\ F!FatAssumption /\ E!DirentAssumption

-----------------------------------------------------------------------------
NoCard == NicInit /\ ~g_ready
NoDisk == BlkInit /\ ~blk_ready
AtRest == Init /\ NoCard /\ NoDisk

SystemInit ==
  \/ unit = "sched" /\ AtRest /\ Unused1
  \/ unit = "keyboard" /\ I!KeyboardInit /\ AtRest
  \/ unit = "mouse" /\ I!MouseInit /\ Unused8 /\ AtRest
  \/ unit = "pci" /\ D!Init /\ Unused6 /\ AtRest
  \/ unit = "nic" /\ NicInit /\ Init /\ NoDisk /\ Unused1
  \/ unit = "disk" /\ BlkInit /\ Init /\ NoCard /\ Unused1
  \/ unit = "fat" /\ F!Init /\ Unused11 /\ AtRest
  \/ unit = "dirent" /\ E!Init /\ Unused4 /\ AtRest
  \/ unit = "files" /\ G!Init /\ Unused13 /\ AtRest
  \/ unit = "commands" /\ C!Init /\ Unused5 /\ AtRest
  \/ unit = "page" /\ P!Init /\ Unused14 /\ AtRest

\* Drivers and applications may come to rest when the bounds are reached; the scheduler
\* always goes on.
Rest == unit # "sched" /\ UNCHANGED systemVars

SystemNext ==
  \/ unit = "sched" /\ Next /\ UNCHANGED <<nicVars, blkVars, unit, from1>>
  \/ unit = "keyboard" /\ I!KeyboardNext /\ UNCHANGED <<ownVars, unit>>
  \/ unit = "mouse" /\ I!MouseNext /\ UNCHANGED <<ownVars, unit, from8>>
  \/ unit = "pci" /\ D!Next /\ UNCHANGED <<ownVars, unit, from6>>
  \/ unit = "nic" /\ NicNext /\ UNCHANGED <<vars, blkVars, unit, from1>>
  \/ unit = "disk" /\ BlkNext /\ UNCHANGED <<vars, nicVars, unit, from1>>
  \/ unit = "fat" /\ F!Next /\ UNCHANGED <<ownVars, unit, from11>>
  \/ unit = "dirent" /\ E!Next /\ UNCHANGED <<ownVars, unit, from4>>
  \/ unit = "files" /\ G!Next /\ UNCHANGED <<ownVars, unit, from13>>
  \/ unit = "commands" /\ C!Next /\ UNCHANGED <<ownVars, unit, from5>>
  \/ unit = "page" /\ P!Next /\ UNCHANGED <<ownVars, unit, from14>>
  \/ Rest

SystemSpec == SystemInit /\ [][SystemNext]_systemVars

-----------------------------------------------------------------------------
(* The properties of the units; those of the scheduler, the network card and the disk *)
(* driver are in Sched, Nic and VirtioBlk.                                            *)

\* While the ring drops nothing, every key comes out once, in order and with its shift
\* state, but for one key behind each release of an extended one; once all is handled the
\* modifiers are what is held, and mouse packets stay whole (Input).  A card found
\* is the first function on the bus with the ids asked for, at the base addresses its
\* registers hold (Pci).
DevicesDecoded ==
  /\ unit = "keyboard" => I!ModifiersTrack /\ I!KeysArrive /\ I!PrefixCostsOneKey
  /\ unit = "mouse" => I!PacketsWhole
  /\ unit = "pci" => D!DeviceFound

\* push_scancode and pop_scancode, interleaved access by access, are the puts and takes of
\* a bounded queue: nothing is lost once it is in, doubled or reordered (Ring, Fifo).
Scancodes == I!Code
Q == INSTANCE Fifo WITH
  Capacity <- 3, Value <- Scancodes,
  queue <- IF unit = "keyboard" THEN I!R!Waiting ELSE <<>>, taken <- IF unit = "keyboard" THEN x10 ELSE I!Prefix
ImplementsFifo == Q!FSpec

\* Between operations every entry has its own whole chain of clusters and, while nothing was
\* cut short, no cluster is lost (Fat).
VolumeSound == unit = "fat" => F!VolumeSound /\ F!NoLeak

\* Between operations a file reads back as written, also after a power failure or on a full
\* volume, unless the file itself was being overwritten or renamed (Fat).
ReadsBack == unit = "fat" => F!ReadsBack

\* Looking a name up, listing the directory and what was stored agree, and no part of a long
\* name is left without the rest (Dirent).
NamesExact == unit = "dirent" => E!LookupExact /\ E!ListingExact /\ E!NoOrphanParts

\* No key of the file manager loses a file the user did not name (FileManager).
NothingLost == [][unit = "files" => G!LosesNothing]_systemVars

\* A command changes nothing but what its arguments name, and prints what is there (Commands).
CommandsTrue == [][unit = "commands" => C!ActsOnNamed /\ C!PrintsTrue]_systemVars

\* The text shown is what the page sent stands for, none of its framing, and a URL is split
\* as it is written (Page).
PageExact == unit = "page" => P!BodyExact /\ P!TextExact /\ P!UrlSplit

\* docs/FEATURES.md: the file manager "Displays real filesystem contents": what it shows is
\* what is in the directory its path names (FileManager).
ListsOpened == unit = "files" => G!ListsOpened

\* Dirent once more, on a volume without long names, where one is created.
L == INSTANCE Dirent WITH
  Short <- {"x", "y", "z"}, Long <- {"long1", "long2"}, Aliases <- [long1 |-> "x", long2 |-> "x"],
  Parts <- [long1 |-> 1, long2 |-> 2], SlotsPerSector <- 4, SectorsPerCluster <- 2, MaxClusters <- 2, Given <- <<>>,
  Made <- {"x", "long1"}, Values <- {1, 2}, MaxOps <- 3,
  dir <- x1, want <- x2, ops <- x3
LongNamesSpec ==
  /\ unit = "longnames" /\ L!Init /\ Unused4 /\ AtRest
  /\ [][L!Next /\ UNCHANGED <<ownVars, unit, from4>>]_systemVars

\* docs/FEATURES.md, Storage: "FAT32 read/write with long filename support."  A file stored
\* under a long name can be looked up under it (Dirent).
LongNamesFound == unit = "longnames" => L!LongNamesFound
=============================================================================
