------------------------------ MODULE Commands ------------------------------
(***************************************************************************)
(* The shell's commands on files and text, src/apps/shell.c: how           *)
(* resolve_path spells the path it hands to fs.c, and what each command    *)
(* then does to the volume and prints.  A path is the sequence of its      *)
(* characters and a name is one character long.  The volume is what fs.c   *)
(* shows of it: the files and directories by their folded names; it never  *)
(* fills up here (modules Fat and Dirent have the disk).  Wording, colours *)
(* and the commands that only print a system counter are left out.         *)
(***************************************************************************)
EXTENDS Integers, Sequences, FiniteSets, SequencesExt

CONSTANTS
  PATH_MAX,       \* sizeof temp and resolved
  SEG_MAX,        \* room in seg_pos
  TEXT_MAX,       \* sizeof text, what join_args may fill
  Args,           \* bound: the paths typed
  Words,          \* bound: the texts typed
  Counts,         \* bound: the numbers typed
  Given,          \* the volume at the start
  Starts,         \* the directories that cd has been to by then, as it spells them
  MaxOps          \* bound: commands

VARIABLES
  vol,            \* from the entries' places (folded names from the root) to what they hold
  cwd,
  printed,        \* what the last command printed: its name, arguments and answer
  ops

vars == <<vol, cwd, printed, ops>>

Fold(c) == IF c = "A" THEN "a" ELSE IF c = "B" THEN "b" ELSE c
Upto(s, n) == SubSeq(s, 1, IF Len(s) < n THEN Len(s) ELSE n)

-----------------------------------------------------------------------------
(* resolve_path *)
Temp(in) ==
  IF in[1] = "/" THEN Upto(in, PATH_MAX - 1)
  ELSE LET c == Upto(cwd, PATH_MAX - 2)
           at == IF Last(c) # "/" THEN Append(c, "/") ELSE c
       IN  at \o Upto(in, PATH_MAX - Len(at) - 1)

\* The pieces between the slashes.
Segments(p) ==
  LET step(c, segs) == IF c = "/" THEN Append(segs, <<>>)
                       ELSE Append(Front(segs), Append(Last(segs), c))
      at[i \in 0 .. Len(p)] == IF i = 0 THEN <<<<>>>> ELSE step(p[i], at[i - 1])
  IN  at[Len(p)]

\* ".." cuts back to where the last segment began; the slash before it stays.
Pop_First(st) == [out |-> SubSeq(st.out, 1, Head(st.pos)), pos |-> <<>>]
Pop(st) == [out |-> SubSeq(st.out, 1, Last(st.pos)), pos |-> Front(st.pos)]

Push(st, seg) ==
  LET open == IF Len(st.out) > 1 /\ Len(st.out) < PATH_MAX - 1 THEN Append(st.out, "/") ELSE st.out
  IN  [out |-> open \o Upto(seg, PATH_MAX - 1 - Len(open)),
       pos |-> IF Len(st.pos) < SEG_MAX THEN Append(st.pos, Len(open)) ELSE st.pos]

Walk(st, seg) ==
  CASE seg \in {<<>>, <<".">>} -> st
    [] seg = <<".", ".">> -> IF st.pos # <<>> THEN Pop(st) ELSE st
    [] OTHER -> Push(st, seg)

resolve_path(in) ==
  LET segs == Segments(Temp(in))
      at[i \in 0 .. Len(segs)] ==
        IF i = 0 THEN [out |-> <<"/">>, pos |-> <<>>] ELSE Walk(at[i - 1], segs[i])
  IN  at[Len(segs)].out

\* dirname_from and basename_from, of a path as it was typed.
NoSlashes(p) == LET e == {i \in 2 .. Len(p) : p[i] # "/"} \cup {1}
                IN  SubSeq(p, 1, CHOOSE i \in e : \A j \in e : j <= i)
basename_from(p) ==
  LET q == NoSlashes(p)
      s == {i \in 1 .. Len(q) - 1 : q[i] = "/"} \cup {0}
  IN  SubSeq(q, 1 + (CHOOSE i \in s : \A j \in s : j <= i), Len(q))
dirname_from(p) ==
  LET q == NoSlashes(p)
      s == {i \in 2 .. Len(q) : q[i] = "/"} \cup {1}
      i == CHOOSE i \in s : \A j \in s : j <= i
  IN  IF i = 1 THEN <<"/">> ELSE SubSeq(q, 1, i - 1)

-----------------------------------------------------------------------------
(* fs.c, on a path that resolve_path has spelled *)
Place(p) == LET segs == SelectSeq(Segments(p), LAMBDA s : s # <<>>)
            IN  [i \in 1 .. Len(segs) |-> Fold(segs[i][1])]
Dir == [dir |-> TRUE, text |-> <<>>]
File(t) == [dir |-> FALSE, text |-> t]
Exists(x) == x = <<>> \/ x \in DOMAIN vol
IsDir(x) == x = <<>> \/ (x \in DOMAIN vol /\ vol[x].dir)
IsFile(x) == x \in DOMAIN vol /\ ~vol[x].dir
Reaches(x) == x # <<>> /\ IsDir(Front(x))          \* path_dir_cluster finds the directory
IsEmpty(x) == \A y \in DOMAIN vol : Front(y) # x
Put(v, x, e) == [y \in DOMAIN v \cup {x} |-> IF y = x THEN e ELSE v[y]]
Without(v, x) == [y \in DOMAIN v \ {x} |-> v[y]]
Writes(x) == Reaches(x) /\ ~IsDir(x)
Deletes(x) == x \in DOMAIN vol /\ (IsDir(x) => IsEmpty(x))
Copies(x, y) == IsFile(x) /\ Writes(y)

\* fs_rename; what was below a directory that is renamed stays below it.
Renames(x, y) == Reaches(x) /\ Reaches(y) /\ ~Exists(y) /\ Exists(x) /\ (IsDir(x) => Front(x) = Front(y))
Renamed(x, y) ==
  LET to(z) == IF IsPrefix(x, z) THEN y \o SubSeq(z, Len(x) + 1, Len(z)) ELSE z
  IN  [w \in {to(z) : z \in DOMAIN vol} |-> vol[CHOOSE z \in DOMAIN vol : to(z) = w]]

\* fs_move: a rename, and where that is refused a copy and a delete.
fs_move(p, q) ==
  LET x == Place(p)
      y == Place(q)
  IN  IF p = q THEN [ok |-> TRUE, vol |-> vol]
      ELSE IF Renames(x, y) THEN [ok |-> TRUE, vol |-> Renamed(x, y)]
      ELSE IF Copies(x, y) THEN [ok |-> TRUE, vol |-> Without(Put(vol, y, File(vol[x].text)), x)]
      ELSE [ok |-> FALSE, vol |-> vol]

-----------------------------------------------------------------------------
(* What the text commands print.  NL ends a line. *)
NL == "\n"
Blank(c) == c \in {" ", NL}
Breaks(t) == Cardinality({i \in 1 .. Len(t) : t[i] = NL})
BreaksTo(t, i) == Breaks(SubSeq(t, 1, i))

wc(t) == [lines |-> Breaks(t),
          words |-> Cardinality({i \in 1 .. Len(t) : ~Blank(t[i]) /\ (i = 1 \/ Blank(t[i - 1]))}),
          len |-> Len(t)]

\* head: up to and with the n-th line end; a line end of its own where none was printed.
HeadText_Late(t, n) == SelectSeq([i \in 1 .. Len(t) |-> <<t[i], BreaksTo(t, i - 1)>>], LAMBDA x : x[2] <= n)
HeadText(t, n) == SelectSeq([i \in 1 .. Len(t) |-> <<t[i], BreaksTo(t, i - 1)>>], LAMBDA x : x[2] < n)
head(t, n) ==
  LET s == HeadText(t, n)
      u == [i \in 1 .. Len(s) |-> s[i][1]]
  IN  IF Breaks(u) = 0 THEN Append(u, NL) ELSE u

\* tail: from the n-th line end before the last one on.
tail(t, n) ==
  LET from == IF Breaks(t) - n < 0 THEN 0 ELSE Breaks(t) - n
      k == Cardinality({i \in 1 .. Len(t) : BreaksTo(t, i - 1) < from})
  IN  Append(SubSeq(t, k + 1, Len(t)), NL)

\* grep: each line is cut out and printed when strstr_local finds the needle in it.
Lines(t) ==
  LET step(c, ls) == IF c = NL THEN Append(ls, <<>>) ELSE Append(Front(ls), Append(Last(ls), c))
      at[i \in 0 .. Len(t)] == IF i = 0 THEN <<<<>>>> ELSE step(t[i], at[i - 1])
  IN  at[Len(t)]
strstr_local_Head(hay, needle) == IsPrefix(needle, hay)
strstr_local(hay, needle) ==
  \/ needle = <<>>
  \/ \E i \in 1 .. Len(hay) : /\ i + Len(needle) - 1 <= Len(hay)
                            /\ SubSeq(hay, i, i + Len(needle) - 1) = needle
grep(t, needle) == SelectSeq(Lines(t), LAMBDA l : strstr_local(l, needle))

memcmp_local(t, u) == Len(t) = Len(u) /\ \A i \in 1 .. Len(t) : t[i] = u[i]
Upper(t) == [i \in 1 .. Len(t) |-> IF t[i] = "a" THEN "A" ELSE IF t[i] = "b" THEN "B" ELSE t[i]]
Lower(t) == [i \in 1 .. Len(t) |-> Fold(t[i])]
join_args(t) == Upto(t, TEXT_MAX - 1)

-----------------------------------------------------------------------------
(* One action per command of execute_command; an argument that is missing  *)
(* only prints the usage.                                                  *)
RanWith(cmd, arg, p, q, ok, said) ==
  /\ ops < MaxOps
  /\ ops' = ops + 1
  /\ printed' = [cmd |-> cmd, arg |-> arg, from |-> p, to |-> q, ok |-> ok, said |-> said]
Ran(cmd, p, q, ok, said) == RanWith(cmd, <<>>, p, q, ok, said)

Init ==
  /\ vol = Given
  /\ cwd \in Starts
  /\ printed = [cmd |-> "none", arg |-> <<>>, from |-> <<>>, to |-> <<>>, ok |-> TRUE, said |-> <<>>]
  /\ ops = 0

Cd == \E p \in Args :
  LET to == resolve_path(p)
  IN  /\ cwd' = IF IsDir(Place(to)) THEN Upto(to, PATH_MAX - 1) ELSE cwd
      /\ Ran("cd", p, p, IsDir(Place(to)), <<>>)
      /\ UNCHANGED vol

Rewrite(cmd, p, t) ==
  LET x == Place(resolve_path(p))
  IN  /\ vol' = IF Writes(x) THEN Put(vol, x, File(t)) ELSE vol
      /\ Ran(cmd, p, p, Writes(x), <<>>)
      /\ UNCHANGED cwd

Write == \E p \in Args, t \in Words : Rewrite("write", p, join_args(t))
Empty == \E p \in Args : Rewrite("touch", p, <<>>)     \* touch and truncate
AppendText == \E p \in Args, t \in Words :
  LET x == Place(resolve_path(p))
  IN  Rewrite("append", p, (IF IsFile(x) THEN vol[x].text ELSE <<>>) \o join_args(t))

MakeDir == \E p \in Args :
  LET x == Place(resolve_path(p))
      ok == Reaches(x) /\ ~Exists(x)
  IN  /\ vol' = IF ok THEN Put(vol, x, Dir) ELSE vol
      /\ Ran("mkdir", p, p, ok, <<>>)
      /\ UNCHANGED cwd

Erase(cmd, p) ==
  LET x == Place(resolve_path(p))
  IN  /\ vol' = IF Deletes(x) THEN Without(vol, x) ELSE vol
      /\ Ran(cmd, p, p, Deletes(x), <<>>)
      /\ UNCHANGED cwd
RemoveDir == \E p \in Args : Erase("rmdir", p)          \* which takes a file too
Delete == \E p \in Args : Erase("rm", p)

Copy == \E p, q \in Args :
  LET x == Place(resolve_path(p))
      y == Place(resolve_path(q))
  IN  /\ vol' = IF Copies(x, y) THEN Put(vol, y, File(vol[x].text)) ELSE vol
      /\ Ran("cp", p, q, Copies(x, y), <<>>)
      /\ UNCHANGED cwd

Move == \E p, q \in Args :
  LET r == fs_move(resolve_path(p), resolve_path(q))
  IN  /\ vol' = r.vol
      /\ Ran("mv", p, q, r.ok, <<>>)
      /\ UNCHANGED cwd

Says(cmd, arg, p, q, ok, said) ==
  RanWith(cmd, arg, p, q, ok, IF ok THEN said ELSE <<>>) /\ UNCHANGED <<vol, cwd>>

\* A command that reads the file its argument names.
Read(cmd, arg, p, Of(_)) ==
  LET x == Place(resolve_path(p))
  IN  Says(cmd, arg, p, p, IsFile(x), IF IsFile(x) THEN Of(vol[x].text) ELSE <<>>)

Show == \E p \in Args : Read("cat", <<>>, p, LAMBDA t : t)
Count == \E p \in Args : Read("wc", <<>>, p, wc)
HeadLines == \E p \in Args, n \in Counts : Read("head", n, p, LAMBDA t : head(t, n))
TailLines == \E p \in Args, n \in Counts : Read("tail", n, p, LAMBDA t : tail(t, n))
Grep == \E p \in Args, w \in Words : Read("grep", w, p, LAMBDA t : grep(t, w))

Compare == \E p, q \in Args :
  LET x == Place(resolve_path(p))
      y == Place(resolve_path(q))
      ok == IsFile(x) /\ IsFile(y)
  IN  Says("cmp", <<>>, p, q, ok, IF ok THEN memcmp_local(vol[x].text, vol[y].text) ELSE <<>>)

Stat == \E p \in Args :                                \* stat and exists
  LET x == Place(resolve_path(p))
  IN  Says("stat", <<>>, p, p, Exists(x), IF Exists(x) THEN [dir |-> IsDir(x)] ELSE <<>>)

SplitName == \E p \in Args : Says("names", <<>>, p, p, TRUE, <<dirname_from(p), basename_from(p)>>)

Speak == \E t \in Words :                              \* lower, upper, reverse, len
  LET s == join_args(t)
  IN  Says("speak", <<>>, <<>>, <<>>, TRUE, <<Lower(s), Upper(s), Reverse(s), Len(s)>>)

Next ==
  \/ Cd
  \/ Write
  \/ Empty
  \/ AppendText
  \/ MakeDir
  \/ Delete
  \/ RemoveDir
  \/ Copy
  \/ Move
  \/ Show
  \/ Count
  \/ HeadLines
  \/ TailLines
  \/ Grep
  \/ Compare
  \/ Stat
  \/ SplitName
  \/ Speak

Spec == Init /\ [][Next]_vars

-----------------------------------------------------------------------------
(* Reference: the entry an argument names, walking from the current directory *)
Canon(in) ==
  LET segs == Segments(in)
      to(x, s) == CASE s \in {<<>>, <<".">>} -> x
                    [] s = <<".", ".">> -> IF x = <<>> THEN x ELSE Front(x)
                    [] OTHER -> Append(x, Fold(s[1]))
      at[i \in 0 .. Len(segs)] ==
        IF i = 0 THEN IF in[1] = "/" THEN <<>> ELSE Place(cwd) ELSE to(at[i - 1], segs[i])
  IN  at[Len(segs)]

\* The buffers of resolve_path hold the path and its segments.
Fits(in) == Len(cwd) + Len(in) + 1 < PATH_MAX /\ Len(Place(cwd)) + Len(Place(in)) <= SEG_MAX
Touched == {x \in DOMAIN vol \cup DOMAIN vol' :
              x \notin DOMAIN vol \/ x \notin DOMAIN vol' \/ vol[x] # vol'[x]}

\* However cd has spelled the current directory, and whatever "." and ".."
\* the arguments hold, a command changes nothing but the entries its
\* arguments name and what is below them, as long as the paths fit
\* (resolve_path, execute_command).
ActsOnNamed ==
  Fits(printed'.from) /\ Fits(printed'.to)
    => \A x \in Touched : IsPrefix(Canon(printed'.from), x) \/ IsPrefix(Canon(printed'.to), x)

\* Reference: the lines of a text, and the text of some of them.
Joined(ls) == LET at[i \in 0 .. Len(ls)] == IF i = 0 THEN <<>> ELSE at[i - 1] \o ls[i] \o <<NL>> IN at[Len(ls)]
FirstLines(t, n) == IF n <= Breaks(t) THEN Joined(SubSeq(Lines(t), 1, n))
                    ELSE IF Breaks(t) = 0 THEN Append(t, NL) ELSE t
LastLines(t, n) == LET k == Breaks(t) IN Joined(SubSeq(Lines(t), IF n >= k THEN 1 ELSE k - n + 1, k + 1))
Holds(l, w) == \E i, j \in 0 .. Len(l) : j = i + Len(w) /\ SubSeq(l, i + 1, j) = w

\* What head, tail, grep and cmp print of the files their arguments name are
\* the first lines, the last finished lines and what follows them, exactly
\* the lines that hold the text, and whether the texts are the same
\* (execute_command, strstr_local).
PrintsTrue ==
  LET t == vol[Canon(printed'.from)].text
      cmd == printed'.cmd
      n == printed'.arg
  IN  printed'.ok /\ Fits(printed'.from) /\ Fits(printed'.to) =>
      /\ cmd = "head" => printed'.said = FirstLines(t, n)
      /\ cmd = "tail" => printed'.said = LastLines(t, n)
      /\ cmd = "grep" => printed'.said = SelectSeq(Lines(t), LAMBDA l : Holds(l, n))
      /\ cmd = "cmp" => printed'.said = (t = vol[Canon(printed'.to)].text)

CommandsTrue == [][ActsOnNamed /\ PrintsTrue]_vars

\* Not guaranteed: a move that reports success leaves the file under the name it
\* was moved to. Moved to its own name in another case, the file is deleted,
\* fs_move answers 1 and the shell prints "mv: ok".
MoveKeepsText ==
  [][LET x == Canon(printed'.from)
         y == Canon(printed'.to)
     IN  printed'.cmd = "mv" /\ printed'.ok /\ IsFile(x) /\ Fits(printed'.from) /\ Fits(printed'.to)
           => y \in DOMAIN vol' /\ vol'[y].text = vol[x].text]_vars
=============================================================================
