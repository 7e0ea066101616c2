------------------------------- MODULE Config -------------------------------
(***************************************************************************)
(* The boot loader's configuration, limine-8.4.0/common/lib/config.c:       *)
(* macros collected and expanded, the menu tree built from the depths of    *)
(* the entries' titles, the file cut before the first entry, and the        *)
(* look-up of an option, of its n-th repetition and of a pair of options.   *)
(* A configuration is a sequence of lines; a value is a sequence of words,  *)
(* each a text or the use of a macro.  Blanks, carriage returns and the     *)
(* checksum of the file are left out, and so are the buffers' sizes.        *)
(***************************************************************************)
EXTENDS Integers, Sequences

CONSTANTS
  Files,          \* the configurations read: sequences of lines
  Keys,           \* options looked up
  Pairs,          \* pairs of options looked up together
  Builtin,        \* macros that are always there, ARCH and FW_TYPE
  MaxIndex        \* bound: repetitions asked for

VARIABLES file, lines, macros, menu_tree, globals, phase, answer
vars == <<file, lines, macros, menu_tree, globals, phase, answer>>

-----------------------------------------------------------------------------
(* init_config *)
IsEntry(l) == l.kind = "entry"
IsMacro(l) == l.kind = "macro"
Macros(f) == SelectSeq(f, IsMacro)

\* Load macros: each in front of the list, so the last definition is met first.
Load_InOrder(f) == Builtin \o Macros(f)
Load(f) == LET ms == Macros(f) IN [i \in 1 .. Len(ms) |-> ms[Len(ms) + 1 - i]] \o Builtin
Value(ms, name) ==
  LET at == {i \in DOMAIN ms : ms[i].name = name}
  IN  IF at = {} THEN <<>> ELSE ms[CHOOSE i \in at : \A j \in at : i <= j].value

\* Expand macros: definitions go, uses are replaced, once.
Expanded(ms, words) ==
  LET upto[k \in 0 .. Len(words)] ==
        IF k = 0 THEN <<>>
        ELSE upto[k - 1] \o (IF words[k].use THEN Value(ms, words[k].word) ELSE <<words[k]>>)
  IN  upto[Len(words)]
NotMacro(l) == ~IsMacro(l)
Expand(ms, f) ==
  LET kept == SelectSeq(f, NotMacro)
  IN  [i \in DOMAIN kept |-> [kept[i] EXCEPT !.value = Expanded(ms, @)]]

\* config_get_entry_name and config_get_entry: the i-th entry and its options.
Count(f, k) == Len(SelectSeq(SubSeq(f, 1, k), IsEntry))
EntryAt(f, i) == {k \in DOMAIN f : IsEntry(f[k]) /\ Count(f, k) = i}
BodyEnd(f, k) ==
  LET later == {j \in DOMAIN f : j > k /\ IsEntry(f[j])}
  IN  IF later = {} THEN Len(f) ELSE (CHOOSE j \in later : \A m \in later : j <= m) - 1
config_get_entry(f, k) == SubSeq(f, k + 1, BodyEnd(f, k))

\* is_child: by the slashes before the title.  A title of slashes alone is no
\* child at its own depth.
is_child(f, depth, i) ==
  IF EntryAt(f, i) = {} THEN "not"
  ELSE LET l == f[CHOOSE k \in EntryAt(f, i) : TRUE]
       IN  IF l.depth < depth \/ (l.depth = depth /\ l.value = <<>>) THEN "not"
           ELSE IF l.depth > depth THEN "indirect" ELSE "direct"

\* create_menu_tree, with the entries in the order they are linked: each has
\* its line, its parent's line (0 for none) and whether it has entries below.
PANIC == <<[line |-> 0]>>
RECURSIVE Tree(_, _, _, _)
Tree(f, parent, depth, i) ==
  CASE is_child(f, depth, i) = "not" -> <<>>
    [] is_child(f, depth, i) = "indirect" -> Tree(f, parent, depth, i + 1)
    [] is_child(f, depth, i) = "direct" ->
         LET k == CHOOSE j \in EntryAt(f, i) : TRUE
             below == is_child(f, depth + 1, i + 1)
             sub == IF below = "direct" THEN Tree(f, k, depth + 1, i + 1) ELSE <<>>
             rest == Tree(f, parent, depth, i + 1)
         IN  IF below = "indirect" \/ sub = PANIC \/ rest = PANIC THEN PANIC
             ELSE <<[line |-> k, parent |-> parent, dir |-> below = "direct"]>> \o sub \o rest
create_menu_tree(f) == Tree(f, 0, 1, 1)

\* The end of init_config: what is before the first entry is left as the text
\* global options are read from, unless the entry starts the file.
Cut(f) ==
  IF EntryAt(f, 1) = {} \/ EntryAt(f, 1) = {1} THEN f
  ELSE SubSeq(f, 1, (CHOOSE k \in EntryAt(f, 1) : TRUE) - 1)

-----------------------------------------------------------------------------
(* config_get_value and config_get_tuple, over the lines of a body *)
NULL == [at |-> 0, value |-> <<>>]
Keyed(f, key) == {k \in DOMAIN f : f[k].kind = "option" /\ f[k].key = key}
RECURSIVE Nth(_, _)
Nth(S, n) ==
  IF S = {} THEN 0
  ELSE LET first == CHOOSE k \in S : \A j \in S : k <= j IN IF n = 0 THEN first ELSE Nth(S \ {first}, n - 1)
config_get_value(f, index, key) ==
  LET k == Nth(Keyed(f, key), index) IN IF k = 0 THEN NULL ELSE [at |-> k, value |-> f[k].value]

\* value2 is looked for behind value1, and dropped when the next value1 comes
\* first; lastkey is where the last value was found.
Behind(f, at, key) == {k \in Keyed(f, key) : k > at}
TupleValue2_Any(f, v1, next1, key2) ==
  LET k == Nth(Behind(f, v1.at, key2), 0) IN IF k = 0 THEN NULL ELSE [at |-> k, value |-> f[k].value]
TupleValue2(f, v1, next1, key2) ==
  LET k == Nth(Behind(f, v1.at, key2), 0)
  IN  IF k = 0 \/ (next1 # NULL /\ k > next1.at) THEN NULL ELSE [at |-> k, value |-> f[k].value]
config_get_tuple(f, index, key1, key2) ==
  LET v1 == config_get_value(f, index, key1)
  IN  IF v1 = NULL THEN <<NULL, NULL>>
      ELSE <<v1, TupleValue2(f, v1, config_get_value(f, index + 1, key1), key2)>>

-----------------------------------------------------------------------------
NoAnswer == [from |-> -1, index |-> 0, keys |-> <<>>, got |-> <<>>]
Init ==
  /\ file \in Files
  /\ lines = file
  /\ macros = <<>>
  /\ menu_tree = <<>>
  /\ globals = <<>>
  /\ phase = "read"
  /\ answer = NoAnswer

ExpandMacros ==
  /\ phase = "read"
  /\ phase' = "expanded"
  /\ macros' = Load(file)
  /\ lines' = Expand(Load(file), file)
  /\ UNCHANGED <<file, menu_tree, globals, answer>>
BuildTree ==
  /\ phase = "expanded"
  /\ menu_tree' = create_menu_tree(lines)
  /\ phase' = IF create_menu_tree(lines) = PANIC THEN "panic" ELSE "ready"
  /\ globals' = IF create_menu_tree(lines) = PANIC THEN <<>> ELSE Cut(lines)
  /\ UNCHANGED <<file, lines, macros, answer>>

\* What is asked: of the file (from = 0) or of an entry of the tree.
Text(from) == IF from = 0 THEN globals ELSE config_get_entry(lines, menu_tree[from].line)
AskValue ==
  /\ phase = "ready"
  /\ answer = NoAnswer
  /\ \E from \in 0 .. Len(menu_tree), index \in 0 .. MaxIndex, key \in Keys :
       answer' = [from |-> from, index |-> index, keys |-> <<key>>, got |-> <<config_get_value(Text(from), index, key)>>]
  /\ UNCHANGED <<file, lines, macros, menu_tree, globals, phase>>
AskTuple ==
  /\ phase = "ready"
  /\ answer = NoAnswer
  /\ \E from \in 1 .. Len(menu_tree), index \in 0 .. MaxIndex, pair \in Pairs :
       answer' = [from |-> from, index |-> index, keys |-> pair, got |-> config_get_tuple(Text(from), index, pair[1], pair[2])]
  /\ UNCHANGED <<file, lines, macros, menu_tree, globals, phase>>

Next == ExpandMacros \/ BuildTree \/ AskValue \/ AskTuple
Spec == Init /\ [][Next]_vars

-----------------------------------------------------------------------------
TypeOK ==
  /\ file \in Files
  /\ phase \in {"read", "expanded", "ready", "panic"}
  /\ \A i \in DOMAIN lines : lines[i].kind \in {"entry", "option"} \/ phase = "read"

\* Where every title has text and is at most one level deeper than the one
\* before, the menu has every entry once, in the file's order, below the last
\* entry before it that is one level up.
Titles(f) == {k \in DOMAIN f : IsEntry(f[k])}
WellFormed(f) ==
  \A k \in Titles(f) :
    /\ f[k].value # <<>>
    /\ f[k].depth = 1 \/ \E j \in Titles(f) : j < k /\ f[j].depth >= f[k].depth - 1 /\ \A m \in Titles(f) : ~(j < m /\ m < k)
Parent(f, k) ==
  LET up == {j \in Titles(f) : j < k /\ f[j].depth = f[k].depth - 1}
  IN  IF up = {} THEN 0 ELSE CHOOSE j \in up : \A m \in up : m <= j
TreeExact ==
  phase \in {"ready", "panic"} /\ WellFormed(lines) =>
    /\ phase = "ready"
    /\ {menu_tree[i].line : i \in DOMAIN menu_tree} = Titles(lines)
    /\ \A i, j \in DOMAIN menu_tree : i < j => menu_tree[i].line < menu_tree[j].line
    /\ \A i \in DOMAIN menu_tree : menu_tree[i].parent = Parent(lines, menu_tree[i].line)

\* A look-up returns the option's value with the macros as last defined, and
\* the second of a pair of options is the one that belongs to the first: it
\* comes behind it and before the next of the first kind.
Meant(words) ==
  LET upto[k \in 0 .. Len(words)] ==
        IF k = 0 THEN <<>>
        ELSE upto[k - 1] \o (IF ~words[k].use THEN <<words[k]>>
                             ELSE LET defs == {j \in DOMAIN file : IsMacro(file[j]) /\ file[j].name = words[k].word}
                                  IN  IF defs = {} THEN Value(Builtin, words[k].word)
                                      ELSE file[CHOOSE j \in defs : \A m \in defs : m <= j].value)
  IN  upto[Len(words)]
PairsKept ==
  Len(answer.got) = 2 /\ answer.got[2] # NULL =>
    LET body == Text(answer.from)
        one == answer.got[1].at
        two == answer.got[2].at
    IN  /\ one < two
        /\ \A k \in Keyed(body, answer.keys[1]) : ~(one < k /\ k < two)
ValuesMeant ==
  phase # "read" =>
    \A i \in DOMAIN lines : \E k \in DOMAIN file :
      ~IsMacro(file[k]) /\ lines[i].value = Meant(file[k].value) /\ Len(SelectSeq(SubSeq(file, 1, k), NotMacro)) = i
ConfigRead == TreeExact /\ ValuesMeant /\ PairsKept

\* Not guaranteed: CONFIG.md, "Global options can appear anywhere in the file and are not part
\* of an entry".
GlobalsAnywhere ==
  phase = "ready" =>
    \A k \in DOMAIN lines : lines[k].kind = "option" /\ lines[k].key = "timeout" =>
      config_get_value(globals, 0, "timeout") # NULL
=============================================================================
