---------------------------- MODULE DesktopProofs ----------------------------
(***************************************************************************)
(* The windows' indices, cells and marks, for any number of windows.  The  *)
(* helpers of desktop.c permute the array: the lemmas say what each of     *)
(* them keeps, and the steps of desktop_loop are put together from them.   *)
(***************************************************************************)
EXTENDS Desktop, FiniteSetTheorems, TLAPS

Sizes == Size \cup {"normal"}
Window ==
  [id : Nat, type : Types \cup {"none", "Terminal"}, active : BOOLEAN, minimized : BOOLEAN, size : Sizes,
   term : [cells : Buffer \cup {NULL}, size : Sizes], shell : Slot]
Desks == [w : [Slot -> Window], n : 0 .. MAX_WINDOWS, active : Int, drag : Int, resize : Int]

\* The parts of IndicesHeld and CellsOwned about an array w of n windows.
ActiveHeld(w, n, active) ==
  active \in 0 .. n - 1 \cup {None} /\ \A i \in 0 .. n - 1 : w[i].active <=> i = active
GrabHeld(w, n, drag, resize, g) == g # NULL => \E i \in 0 .. n - 1 : i \in {drag, resize} /\ w[i].id = g
Owned(w, n, given) ==
  \A i, j \in 0 .. n - 1 :
    w[i].type = "Terminal" /\ w[i].term.cells # NULL
      => /\ w[i].term.cells \in given
         /\ w[j].type = "Terminal" /\ w[j].term.cells = w[i].term.cells => i = j

-----------------------------------------------------------------------------
\* Two windows that differ in nothing the properties follow through the array.
Alike(u, v) == u.id = v.id /\ u.type = v.type /\ u.term = v.term

LEMMA SetActive ==
  ASSUME NEW v \in Window, NEW a \in BOOLEAN
  PROVE  /\ [v EXCEPT !.active = a] \in Window /\ Alike([v EXCEPT !.active = a], v)
         /\ [v EXCEPT !.active = a].active = a
BY Zenon DEF Window, Alike

LEMMA SetMinimized ==
  ASSUME NEW v \in Window, NEW a \in BOOLEAN
  PROVE  /\ [v EXCEPT !.minimized = a] \in Window /\ Alike([v EXCEPT !.minimized = a], v)
         /\ [v EXCEPT !.minimized = a].active = v.active
BY Zenon DEF Window, Alike

LEMMA SetSize ==
  ASSUME NEW v \in Window, NEW s \in Sizes
  PROVE  /\ [v EXCEPT !.size = s] \in Window /\ Alike([v EXCEPT !.size = s], v)
         /\ [v EXCEPT !.size = s].active = v.active
BY Zenon DEF Window, Alike

\* The desk e has these parts.
Is(e, w, n, active, drag, resize) ==
  e \in Desks /\ e.w = w /\ e.n = n /\ e.active = active /\ e.drag = drag /\ e.resize = resize

LEMMA SetArray ==
  ASSUME NEW d \in Desks, NEW w \in [Slot -> Window], NEW a \in Int
  PROVE  Is([d EXCEPT !.w = w, !.active = a], w, d.n, a, d.drag, d.resize)
BY Zenon DEF Desks, Is

\* What depends only on identities, types and cells.
LEMMA AlikeKeeps ==
  ASSUME NEW n \in Nat, NEW v, NEW w, \A i \in 0 .. n - 1 : Alike(w[i], v[i])
  PROVE  /\ \A drag, resize, g : GrabHeld(v, n, drag, resize, g) => GrabHeld(w, n, drag, resize, g)
         /\ \A given : Owned(v, n, given) => Owned(w, n, given)
<1>1. ASSUME NEW drag, NEW resize, NEW g, GrabHeld(v, n, drag, resize, g)  PROVE GrabHeld(w, n, drag, resize, g)
  BY <1>1, Zenon DEF GrabHeld, Alike
<1>2. ASSUME NEW given, Owned(v, n, given)  PROVE Owned(w, n, given)
  BY <1>2 DEF Owned, Alike
<1> QED BY <1>1, <1>2, Zenon

\* desktop_focus_window makes one window active, or none.
LEMMA FocusKeeps ==
  ASSUME NEW d \in Desks, NEW k,
         ActiveHeld(d.w, d.n, d.active) \/ k \in 0 .. d.n - 1
  PROVE  LET e == desktop_focus_window(d, k)
         IN  /\ e \in Desks /\ e.n = d.n /\ e.drag = d.drag /\ e.resize = d.resize
             /\ \A i \in Slot : Alike(e.w[i], d.w[i])
             /\ ActiveHeld(e.w, e.n, e.active)
<1> USE DesktopAssumption
<1> DEFINE e == desktop_focus_window(d, k)
           shown == [i \in Slot |-> IF i < d.n THEN [d.w[i] EXCEPT !.active = FALSE] ELSE d.w[i]]
<1>0. d.w \in [Slot -> Window] /\ d.n \in 0 .. MAX_WINDOWS /\ d.active \in Int
  BY Zenon DEF Desks
<1>1. CASE k \notin 0 .. d.n - 1
  BY <1>1, <1>0, Zenon DEF desktop_focus_window, Alike
<1>2. CASE k \in 0 .. d.n - 1
  <2>1. k \in Slot /\ k \in Int /\ \A i \in 0 .. d.n - 1 : i \in Slot /\ i < d.n /\ i # None
    BY <1>2, <1>0 DEF Slot, None
  <2>2. \A i \in Slot : shown[i] \in Window /\ Alike(shown[i], d.w[i]) /\ (i < d.n => shown[i].active = FALSE)
    <3> SUFFICES ASSUME NEW i \in Slot
                 PROVE  shown[i] \in Window /\ Alike(shown[i], d.w[i]) /\ (i < d.n => shown[i].active = FALSE)
      BY Zenon
    <3>1. d.w[i] \in Window
      BY <1>0, Zenon
    <3>2. CASE i < d.n
      <4>1. shown[i] = [d.w[i] EXCEPT !.active = FALSE]
        BY <3>2, Zenon
      <4> QED BY <4>1, <3>1, SetActive, Zenon
    <3>3. CASE ~(i < d.n)
      <4>1. shown[i] = d.w[i]
        BY <3>3, Zenon
      <4> QED BY <4>1, <3>1, <3>3, Zenon DEF Alike
    <3> QED BY <3>2, <3>3, Zenon
  <2>3. shown \in [Slot -> Window]
    BY <2>2, Zenon
  <2> HIDE DEF shown
  <2>4. CASE d.w[k].minimized
    <3>1. e = [d EXCEPT !.w = shown, !.active = None]
      BY <1>2, <2>4, Zenon DEF desktop_focus_window, shown
    <3>2. e.w = shown /\ e.n = d.n /\ e.active = None /\ e.drag = d.drag /\ e.resize = d.resize /\ e \in Desks
      <4>1. None \in Int
        BY DEF None
      <4>2. Is([d EXCEPT !.w = shown, !.active = None], shown, d.n, None, d.drag, d.resize)
        BY <4>1, <2>3, SetArray, Zenon
      <4> QED BY <4>2, <3>1, Zenon DEF Is
    <3>3. ActiveHeld(e.w, e.n, e.active)
      BY <3>2, <2>1, <2>2, <1>0, Zenon DEF ActiveHeld
    <3> QED BY <3>2, <3>3, <2>2, Zenon
  <2>5. CASE ~d.w[k].minimized
    <3> DEFINE x == [shown[k] EXCEPT !.active = TRUE]
               w == [shown EXCEPT ![k] = x]
    <3>1. x \in Window /\ Alike(x, d.w[k]) /\ x.active = TRUE
      <4>1. shown[k] \in Window /\ Alike(shown[k], d.w[k])
        BY <2>1, <2>2, Zenon
      <4>2. x \in Window /\ Alike(x, shown[k]) /\ x.active = TRUE
        BY <4>1, SetActive, Zenon
      <4> QED BY <4>1, <4>2, Zenon DEF Alike
    <3>2. e = [d EXCEPT !.w = w, !.active = k]
      BY <1>2, <2>5, Zenon DEF desktop_focus_window, shown
    <3> HIDE DEF x
    <3>3. w \in [Slot -> Window] /\ w[k] = x /\ \A i \in Slot : i # k => w[i] = shown[i]
      BY <3>1, <2>1, <2>3, Zenon
    <3> HIDE DEF w
    <3>4. e.w = w /\ e.n = d.n /\ e.active = k /\ e.drag = d.drag /\ e.resize = d.resize /\ e \in Desks
      <4>1. Is([d EXCEPT !.w = w, !.active = k], w, d.n, k, d.drag, d.resize)
        BY <3>3, <2>1, SetArray, Zenon
      <4> QED BY <4>1, <3>2, Zenon DEF Is
    <3>5. \A i \in Slot : Alike(w[i], d.w[i])
      BY <3>1, <3>3, <2>2, Zenon
    <3>6. ActiveHeld(w, d.n, k)
      BY <3>1, <3>3, <2>1, <2>2, <1>2, Zenon DEF ActiveHeld
    <3> QED BY <3>4, <3>5, <3>6, Zenon
  <2> QED BY <2>4, <2>5, Zenon
<1> QED BY <1>1, <1>2, Zenon

\* desktop_focus_next focuses a window, or leaves everything as it is.
LEMMA FocusNextKeeps ==
  ASSUME NEW d \in Desks, NEW dir, ActiveHeld(d.w, d.n, d.active)
  PROVE  LET e == desktop_focus_next(d, dir)
         IN  /\ e \in Desks /\ e.n = d.n /\ e.drag = d.drag /\ e.resize = d.resize
             /\ \A i \in Slot : Alike(e.w[i], d.w[i])
             /\ ActiveHeld(e.w, e.n, e.active)
<1> DEFINE e == desktop_focus_next(d, dir)
<1>1. e = d \/ \E k : e = desktop_focus_window(d, k)
  BY Zenon DEF desktop_focus_next
<1>2. CASE e = d
  <2>1. \A i \in Slot : Alike(d.w[i], d.w[i])
    BY Zenon DEF Alike
  <2> HIDE DEF e
  <2>2. /\ e \in Desks /\ e.n = d.n /\ e.drag = d.drag /\ e.resize = d.resize
        /\ \A i \in Slot : Alike(e.w[i], d.w[i])
        /\ ActiveHeld(e.w, e.n, e.active)
    BY <1>2, <2>1, Zenon
  <2> QED BY <2>2, Zenon DEF e
<1>3. ASSUME NEW k, e = desktop_focus_window(d, k)
      PROVE  /\ e \in Desks /\ e.n = d.n /\ e.drag = d.drag /\ e.resize = d.resize
             /\ \A i \in Slot : Alike(e.w[i], d.w[i])
             /\ ActiveHeld(e.w, e.n, e.active)
  <2> HIDE DEF e
  <2> QED BY <1>3, FocusKeeps, Zenon
<1> QED BY <1>1, <1>2, <1>3, Zenon

-----------------------------------------------------------------------------
\* An array whose windows are, each once, windows of another one.
Within(w, m, v, n) ==
  \E f \in [0 .. m - 1 -> 0 .. n - 1] :
    /\ \A i, j \in 0 .. m - 1 : f[i] = f[j] => i = j
    /\ \A i \in 0 .. m - 1 : w[i] = v[f[i]]

LEMMA WithinOwned ==
  ASSUME NEW m \in Nat, NEW n \in Nat, NEW v, NEW w, NEW given, Within(w, m, v, n), Owned(v, n, given)
  PROVE  Owned(w, m, given)
<1> PICK f \in [0 .. m - 1 -> 0 .. n - 1] :
      /\ \A i, j \in 0 .. m - 1 : f[i] = f[j] => i = j
      /\ \A i \in 0 .. m - 1 : w[i] = v[f[i]]
  BY Zenon DEF Within
<1> SUFFICES ASSUME NEW i \in 0 .. m - 1, NEW j \in 0 .. m - 1, w[i].type = "Terminal", w[i].term.cells # NULL
             PROVE  /\ w[i].term.cells \in given
                    /\ w[j].type = "Terminal" /\ w[j].term.cells = w[i].term.cells => i = j
  BY Zenon DEF Owned
<1>1. f[i] \in 0 .. n - 1 /\ f[j] \in 0 .. n - 1 /\ w[i] = v[f[i]] /\ w[j] = v[f[j]]
  BY Zenon
<1>2. v[f[i]].type = "Terminal" /\ v[f[i]].term.cells # NULL
  BY <1>1, Zenon
<1>3. /\ v[f[i]].term.cells \in given
      /\ v[f[j]].type = "Terminal" /\ v[f[j]].term.cells = v[f[i]].term.cells => f[i] = f[j]
  BY <1>1, <1>2, Zenon DEF Owned
<1> QED BY <1>1, <1>3, Zenon

\* desktop_raise_window: the window is the last one, the indices follow.
LEMMA RaiseKeeps ==
  ASSUME NEW d \in Desks, NEW i \in 0 .. d.n - 1
  PROVE  LET e == desktop_raise_window(d, i)
         IN  /\ e \in Desks /\ e.n = d.n /\ e.w[d.n - 1] = d.w[i]
             /\ \A g : GrabHeld(d.w, d.n, d.drag, d.resize, g) => GrabHeld(e.w, e.n, e.drag, e.resize, g)
             /\ \A given : Owned(d.w, d.n, given) => Owned(e.w, e.n, given)
<1> USE DesktopAssumption
<1> DEFINE e == desktop_raise_window(d, i)
           top == d.n - 1
           w == [k \in Slot |-> IF k = top THEN d.w[i] ELSE IF k >= i /\ k < top THEN d.w[k + 1] ELSE d.w[k]]
<1>0. d.w \in [Slot -> Window] /\ d.n \in 0 .. MAX_WINDOWS /\ d.active \in Int /\ d.drag \in Int /\ d.resize \in Int
  BY Zenon DEF Desks
<1>1. top \in Slot /\ i \in Slot /\ i \in Int /\ d.n = top + 1 /\ i <= top /\ 0 .. top \subseteq Slot
  BY <1>0 DEF Slot
<1>2. CASE i = top
  <2>1. e = d
    BY <1>2, Zenon DEF desktop_raise_window
  <2> HIDE DEF e
  <2>2. /\ e \in Desks /\ e.n = d.n /\ e.w[d.n - 1] = d.w[i]
        /\ \A g : GrabHeld(d.w, d.n, d.drag, d.resize, g) => GrabHeld(e.w, e.n, e.drag, e.resize, g)
        /\ \A given : Owned(d.w, d.n, given) => Owned(e.w, e.n, given)
    BY <2>1, <1>2, Zenon
  <2> QED BY <2>2, Zenon DEF e
<1>3. CASE i # top
  <2>1. Is(e, w, d.n, Follow(d.active, i, top), Follow(d.drag, i, top), Follow(d.resize, i, top))
    <3>1. w \in [Slot -> Window]
      <4> SUFFICES ASSUME NEW k \in Slot PROVE w[k] \in Window
        BY Zenon
      <4>1. k >= i /\ k < top => k + 1 \in Slot
        BY <1>1 DEF Slot
      <4> QED BY <4>1, <1>0, <1>1, Zenon
    <3>2. \A k \in Int : Follow(k, i, top) \in Int
      BY <1>1 DEF Follow, Slot
    <3>3. e = [d EXCEPT !.w = w, !.active = Follow(d.active, i, top), !.drag = Follow(d.drag, i, top),
                        !.resize = Follow(d.resize, i, top)]
      BY <1>3, Zenon DEF desktop_raise_window
    <3> DEFINE a == Follow(d.active, i, top)
               b == Follow(d.drag, i, top)
               c == Follow(d.resize, i, top)
    <3>4. a \in Int /\ b \in Int /\ c \in Int
      BY <3>2, <1>0, Zenon
    <3> HIDE DEF w, e, a, b, c
    <3>5. Is(e, w, d.n, a, b, c)
      BY <3>1, <3>3, <3>4, Zenon DEF Is, Desks, a, b, c
    <3> QED BY <3>5, Zenon DEF a, b, c
  <2> HIDE DEF e
  <2>2. w[top] = d.w[i]
    BY <1>1, Zenon
  <2>3. ASSUME NEW g, GrabHeld(d.w, d.n, d.drag, d.resize, g), g # NULL
        PROVE  \E k \in 0 .. top : k \in {Follow(d.drag, i, top), Follow(d.resize, i, top)} /\ w[k].id = g
    <3>1. PICK k \in 0 .. top : k \in {d.drag, d.resize} /\ d.w[k].id = g
      BY <2>3, <1>1, Zenon DEF GrabHeld
    <3>2. Follow(k, i, top) \in 0 .. top /\ w[Follow(k, i, top)] = d.w[k]
      BY <3>1, <1>1 DEF Follow, Slot
    <3>3. Follow(k, i, top) \in {Follow(d.drag, i, top), Follow(d.resize, i, top)}
      BY <3>1, Zenon
    <3> HIDE DEF w
    <3> QED BY <3>1, <3>2, <3>3, Zenon
  <2>4. Within(w, d.n, d.w, d.n)
    <3> DEFINE f == [k \in 0 .. d.n - 1 |-> IF k = top THEN i ELSE IF k >= i THEN k + 1 ELSE k]
    <3>0. \A k \in 0 .. d.n - 1 : (k = top \/ (k >= i /\ k < top) \/ k < i) /\ k \in Slot /\ k \in Int
      BY <1>0, <1>1, <1>3
    <3>1. f \in [0 .. d.n - 1 -> 0 .. d.n - 1]
      <4> SUFFICES ASSUME NEW k \in 0 .. d.n - 1 PROVE f[k] \in 0 .. d.n - 1
        BY Zenon
      <4> QED BY <1>0, <1>1, <3>0
    <3>2. \A k, l \in 0 .. d.n - 1 : f[k] = f[l] => k = l
      BY <1>0, <1>1
    <3>3. \A k \in 0 .. d.n - 1 : w[k] = d.w[f[k]]
      BY <1>0, <1>1, <3>0
    <3> HIDE DEF f, w
    <3> QED BY <3>1, <3>2, <3>3, Zenon DEF Within
  <2>5. \A given : Owned(d.w, d.n, given) => Owned(w, d.n, given)
    <3> HIDE DEF w
    <3> QED BY <2>4, WithinOwned, <1>0
  <2> HIDE DEF w
  <2>6. \A g : GrabHeld(d.w, d.n, d.drag, d.resize, g) => GrabHeld(e.w, e.n, e.drag, e.resize, g)
    BY <2>1, <2>3, <1>1, Zenon DEF Is, GrabHeld
  <2>7. \A given : Owned(d.w, d.n, given) => Owned(e.w, e.n, given)
    BY <2>1, <2>5, Zenon DEF Is
  <2>8. e \in Desks /\ e.n = d.n /\ e.w[d.n - 1] = d.w[i]
    BY <2>1, <2>2, Zenon DEF Is
  <2> QED BY <2>6, <2>7, <2>8, Zenon DEF e
<1> QED BY <1>2, <1>3, Zenon

\* desktop_close_window: the last window takes the slot, and the one that is last then
\* has the focus.
LEMMA CloseKeeps ==
  ASSUME NEW d \in Desks, NEW i \in 0 .. d.n - 1
  PROVE  LET e == desktop_close_window(d, i)
         IN  /\ e \in Desks /\ e.drag = d.drag /\ e.resize = d.resize
             /\ ActiveHeld(e.w, e.n, e.active)
             /\ \A given : Owned(d.w, d.n, given) => Owned(e.w, e.n, given)
<1> USE DesktopAssumption
<1> DEFINE e == desktop_close_window(d, i)
           m == d.n - 1
           last == d.w[m]
           left == Left(last.term, last.shell)
           w == [d.w EXCEPT ![i] = last, ![m] = left]
           mid == [d EXCEPT !.w = w, !.n = m]
<1>0. d.w \in [Slot -> Window] /\ d.n \in 0 .. MAX_WINDOWS
  BY Zenon DEF Desks
<1>1. m \in Slot /\ i \in Slot /\ i \in Int /\ m \in 0 .. MAX_WINDOWS /\ d.n = m + 1 /\ i <= m /\ 0 .. m \subseteq Slot
  BY <1>0 DEF Slot
<1>2. last \in Window /\ left \in Window
  <2>1. last \in Window
    BY <1>0, <1>1, Zenon
  <2> HIDE DEF last
  <2> QED BY <2>1, Zenon DEF Left, Window, Sizes
<1>3. e = Refocus(mid)
  BY Zenon DEF desktop_close_window
<1> HIDE DEF e, last, left
<1>4. w \in [Slot -> Window] /\ \A k \in 0 .. m - 1 : w[k] = IF k = i THEN last ELSE d.w[k]
  BY <1>0, <1>1, <1>2
<1>5. Within(w, m, d.w, d.n)
  <2> DEFINE f == [k \in 0 .. m - 1 |-> IF k = i THEN m ELSE k]
  <2>1. f \in [0 .. m - 1 -> 0 .. d.n - 1]
    BY <1>1
  <2>2. \A k, l \in 0 .. m - 1 : f[k] = f[l] => k = l
    BY <1>1
  <2>3. \A k \in 0 .. m - 1 : w[k] = d.w[f[k]]
    BY <1>1, <1>4, Zenon DEF last
  <2> HIDE DEF f, w
  <2> QED BY <2>1, <2>2, <2>3, Zenon DEF Within
<1> HIDE DEF w
<1>6. Is(mid, w, m, d.active, d.drag, d.resize)
  BY <1>1, <1>4, Zenon DEF Is, Desks
<1> HIDE DEF mid
<1>7. \A given : Owned(d.w, d.n, given) => Owned(mid.w, m, given)
  BY <1>5, <1>6, WithinOwned, <1>0, <1>1 DEF Is
<1>8. CASE m = 0
  <2>1. e = [mid EXCEPT !.active = None]
    BY <1>3, <1>6, <1>8, Zenon DEF Refocus, Is
  <2>2. e \in Desks /\ e.drag = d.drag /\ e.resize = d.resize /\ e.n = 0 /\ e.active = None /\ e.w = mid.w
    BY <2>1, <1>6, <1>8 DEF Is, Desks, None
  <2>3. ActiveHeld(e.w, e.n, e.active)
    BY <2>2 DEF ActiveHeld
  <2>4. \A given : Owned(d.w, d.n, given) => Owned(e.w, e.n, given)
    BY <2>2, <1>7, <1>8, Zenon
  <2> QED BY <2>2, <2>3, <2>4, Zenon DEF e
<1>9. CASE m # 0
  <2>1. e = desktop_focus_window(mid, m - 1)
    BY <1>3, <1>6, <1>9, Zenon DEF Refocus, Is
  <2>2. mid \in Desks /\ m - 1 \in 0 .. mid.n - 1 /\ mid.n = m
    BY <1>1, <1>6, <1>9 DEF Is
  <2>3. /\ e \in Desks /\ e.n = mid.n /\ e.drag = mid.drag /\ e.resize = mid.resize
        /\ \A k \in Slot : Alike(e.w[k], mid.w[k])
        /\ ActiveHeld(e.w, e.n, e.active)
    BY <2>1, <2>2, FocusKeeps, Zenon
  <2>4. \A k \in 0 .. m - 1 : Alike(e.w[k], mid.w[k])
    BY <2>3, <1>1 DEF Slot
  <2>5. \A given : Owned(mid.w, m, given) => Owned(e.w, m, given)
    <3>1. m \in Nat
      BY <1>1
    <3> QED BY <3>1, <2>4, AlikeKeeps, Zenon
  <2> QED BY <2>2, <2>3, <2>5, <1>6, <1>7, Zenon DEF e, Is
<1> QED BY <1>8, <1>9, Zenon

-----------------------------------------------------------------------------
(* The invariant. *)

DeskPart ==
  /\ windows \in [Slot -> Window] /\ window_count \in 0 .. MAX_WINDOWS
  /\ active_index \in Int /\ dragging_index \in Int /\ resizing_index \in Int
  /\ allocated \subseteq Buffer /\ opened \in Nat
  /\ ActiveHeld(windows, window_count, active_index)
  /\ GrabHeld(windows, window_count, dragging_index, resizing_index, grabbed)
  /\ Owned(windows, window_count, allocated)

LauncherPart ==
  /\ launcher \in [open : BOOLEAN, selection : Nat, matches : Nat]
  /\ launcher.selection < launcher.matches \/ launcher.selection = 0

\* As long as no shell has strayed, what is unseen inside the windows is in the active
\* one, which is open and shown: so the one mark there is for a window is enough.
MarkPart ==
  /\ dirty \in [full : BOOLEAN, panel : BOOLEAN, window : Int]
  /\ unseen \in [layout : BOOLEAN, launcher : BOOLEAN, inside : SUBSET Int]
  /\ strayed \in BOOLEAN
  /\ ~strayed /\ ~dirty.full =>
       /\ ~unseen.layout
       /\ unseen.launcher => dirty.panel /\ launcher.open
       /\ \A k \in unseen.inside : k = dirty.window /\ k = active_index /\ k \in Open /\ ~windows[k].minimized

IInv == DeskPart /\ LauncherPart /\ MarkPart

-----------------------------------------------------------------------------
(* Steps on the array. *)

LEMMA DeskIs == DeskPart => Is(Desk, windows, window_count, active_index, dragging_index, resizing_index)
BY Zenon DEF DeskPart, Desk, Desks, Is

LEMMA DeskBecomes ==
  ASSUME NEW e \in Desks, Become(e), ActiveHeld(e.w, e.n, e.active),
         GrabHeld(e.w, e.n, e.drag, e.resize, grabbed'), Owned(e.w, e.n, allocated'),
         allocated' \subseteq Buffer, opened' \in Nat
  PROVE  DeskPart'
<1>1. /\ e.w \in [Slot -> Window] /\ e.n \in 0 .. MAX_WINDOWS /\ e.active \in Int /\ e.drag \in Int /\ e.resize \in Int
  BY Zenon DEF Desks
<1>2. /\ windows' = e.w /\ window_count' = e.n /\ active_index' = e.active
      /\ dragging_index' = e.drag /\ resizing_index' = e.resize
  BY Zenon DEF Become
<1>3. ActiveHeld(windows, window_count, active_index)'
  BY <1>2, Zenon DEF ActiveHeld
<1>4. GrabHeld(windows, window_count, dragging_index, resizing_index, grabbed)'
  BY <1>2, Zenon DEF GrabHeld
<1>5. Owned(windows, window_count, allocated)'
  BY <1>2, Zenon DEF Owned
<1> QED BY <1>1, <1>2, <1>3, <1>4, <1>5, Zenon DEF DeskPart

LEMMA DeskStays ==
  ASSUME DeskPart, UNCHANGED <<windows, window_count, active_index, dragging_index, resizing_index, allocated, opened, grabbed>>
  PROVE  DeskPart'
BY DEF DeskPart, ActiveHeld, GrabHeld, Owned

\* A focus given to a window of a desk that is alike.
LEMMA FocusStep ==
  ASSUME DeskPart, NEW d \in Desks, d.n = window_count, d.drag = dragging_index, d.resize = resizing_index,
         \A i \in 0 .. window_count - 1 : Alike(d.w[i], windows[i]),
         NEW k, ActiveHeld(d.w, d.n, d.active) \/ k \in 0 .. d.n - 1,
         Become(desktop_focus_window(d, k)), UNCHANGED <<allocated, opened, grabbed>>
  PROVE  DeskPart'
<1> DEFINE e == desktop_focus_window(d, k)
<1>0. window_count \in Nat /\ window_count <= MAX_WINDOWS /\ 0 .. window_count - 1 \subseteq Slot
  BY DesktopAssumption DEF DeskPart, Slot
<1>1. /\ e \in Desks /\ e.n = d.n /\ e.drag = d.drag /\ e.resize = d.resize
      /\ \A i \in Slot : Alike(e.w[i], d.w[i])
      /\ ActiveHeld(e.w, e.n, e.active)
  BY FocusKeeps, Zenon
<1> HIDE DEF e
<1>2. \A i \in 0 .. window_count - 1 : Alike(e.w[i], windows[i])
  BY <1>0, <1>1, Zenon DEF Alike
<1>3. /\ GrabHeld(windows, window_count, dragging_index, resizing_index, grabbed)
          => GrabHeld(e.w, window_count, dragging_index, resizing_index, grabbed)
      /\ Owned(windows, window_count, allocated) => Owned(e.w, window_count, allocated)
  BY <1>0, <1>2, AlikeKeeps, Zenon
<1>4. GrabHeld(e.w, e.n, e.drag, e.resize, grabbed') /\ Owned(e.w, e.n, allocated')
  BY <1>1, <1>3, Zenon DEF DeskPart
<1>5. allocated' \subseteq Buffer /\ opened' \in Nat
  BY Zenon DEF DeskPart
<1> QED BY <1>1, <1>4, <1>5, DeskBecomes, Zenon DEF e

\* The array changes only in fields the properties do not follow.
LEMMA AlikeStep ==
  ASSUME DeskPart, windows' \in [Slot -> Window],
         \A i \in 0 .. window_count - 1 : Alike(windows'[i], windows[i]) /\ windows'[i].active = windows[i].active,
         UNCHANGED <<window_count, active_index, allocated, opened>>,
         dragging_index' \in Int, resizing_index' \in Int,
         grabbed' = NULL \/ UNCHANGED <<dragging_index, resizing_index, grabbed>>
  PROVE  DeskPart'
<1>0. window_count \in Nat
  BY DEF DeskPart
<1>1. ActiveHeld(windows, window_count, active_index)'
  BY Zenon DEF DeskPart, ActiveHeld
<1>2. /\ GrabHeld(windows, window_count, dragging_index, resizing_index, grabbed)
          => GrabHeld(windows', window_count, dragging_index, resizing_index, grabbed)
      /\ Owned(windows, window_count, allocated) => Owned(windows', window_count, allocated)
  BY <1>0, AlikeKeeps, Zenon
<1>3. GrabHeld(windows, window_count, dragging_index, resizing_index, grabbed)'
  BY <1>2, Zenon DEF DeskPart, GrabHeld
<1>4. Owned(windows, window_count, allocated)'
  BY <1>2, Zenon DEF DeskPart, Owned
<1> QED BY <1>1, <1>3, <1>4, Zenon DEF DeskPart

LEMMA CloseStep ==
  ASSUME DeskPart, NEW i \in Open, Close(i)
  PROVE  DeskPart'
<1> DEFINE e == desktop_close_window(Desk, i)
<1>1. Desk \in Desks /\ i \in 0 .. Desk.n - 1 /\ Desk.w = windows /\ Desk.n = window_count
  BY DeskIs, Zenon DEF Is, Open
<1>2. /\ e \in Desks /\ ActiveHeld(e.w, e.n, e.active)
      /\ \A given : Owned(Desk.w, Desk.n, given) => Owned(e.w, e.n, given)
  BY <1>1, CloseKeeps, Zenon
<1>3. Become(e) /\ grabbed' = NULL /\ UNCHANGED <<allocated, opened>>
  BY Zenon DEF Close
<1> HIDE DEF e
<1>4. GrabHeld(e.w, e.n, e.drag, e.resize, grabbed')
  BY <1>3, Zenon DEF GrabHeld
<1>5. Owned(e.w, e.n, allocated')
  BY <1>1, <1>2, <1>3, Zenon DEF DeskPart
<1>6. allocated' \subseteq Buffer /\ opened' \in Nat
  BY <1>3, Zenon DEF DeskPart
<1> QED BY <1>2, <1>3, <1>4, <1>5, <1>6, DeskBecomes, Zenon

-----------------------------------------------------------------------------
(* malloc, and the steps that call it. *)

\* malloc gives a free buffer or none, and different ones for different calls.
LEMMA MallocGives ==
  ASSUME NEW free \in SUBSET Buffer, NEW k \in Int, NEW l \in Int
  PROVE  /\ Malloc(free, k) \in free \cup {NULL}
         /\ Malloc(free, k) # NULL /\ Malloc(free, k) = Malloc(free, l) => k = l
<1> DEFINE least(m) == {b \in free : Cardinality({c \in free : c < b}) = m - 1}
<1>1. \A m \in {k, l} : Malloc(free, m) = NULL \/ Malloc(free, m) \in least(m)
  <2> SUFFICES ASSUME NEW m \in {k, l}, Malloc(free, m) # NULL  PROVE Malloc(free, m) \in least(m)
    BY Zenon
  <2>1. least(m) # {} /\ Malloc(free, m) = CHOOSE b \in least(m) : TRUE
    BY Zenon DEF Malloc
  <2> HIDE DEF least
  <2> QED BY <2>1, Zenon
<1>2. Malloc(free, k) \in free \cup {NULL}
  BY <1>1, Zenon
<1>3. ASSUME Malloc(free, k) # NULL, Malloc(free, k) = Malloc(free, l)  PROVE k = l
  <2> DEFINE b == Malloc(free, k)
             size == Cardinality({c \in free : c < b})
  <2>1. size = k - 1 /\ size = l - 1
    BY <1>1, <1>3, Zenon
  <2> HIDE DEF size
  <2> QED BY <2>1
<1> QED BY <1>2, <1>3, Zenon

\* A window of this type.
OfType(u, type) == u \in Window /\ u.type = type

LEMMA SetWindow ==
  ASSUME NEW v \in Window, NEW id \in Nat, NEW type \in Types
  PROVE  OfType([v EXCEPT !.id = id, !.type = type, !.size = "normal", !.active = FALSE, !.minimized = FALSE], type)
BY Zenon DEF Window, Sizes, OfType

LEMMA SetSlot ==
  ASSUME NEW d \in Desks, NEW i, NEW x, NEW m \in 0 .. MAX_WINDOWS, [d.w EXCEPT ![i] = x] \in [Slot -> Window]
  PROVE  Is([d EXCEPT !.w[i] = x, !.n = m], [d.w EXCEPT ![i] = x], m, d.active, d.drag, d.resize)
<1> DEFINE y == [d.w EXCEPT ![i] = x]
<1>1. [d EXCEPT !.w[i] = x, !.n = m] = [d EXCEPT !.w = y, !.n = m]
  BY Zenon DEF Desks
<1>2. y \in [Slot -> Window]
  BY Zenon
<1> HIDE DEF y
<1>3. Is([d EXCEPT !.w = y, !.n = m], y, m, d.active, d.drag, d.resize)
  BY <1>2, Zenon DEF Desks, Is
<1> QED BY <1>1, <1>3, Zenon DEF y

\* A new window.
LEMMA CreateStep ==
  ASSUME DeskPart, NEW type \in Types, desktop_create_window(type), UNCHANGED grabbed
  PROVE  DeskPart'
<1> USE DesktopAssumption
<1>1. CASE window_count >= MAX_WINDOWS
  BY <1>1, DeskStays, Zenon DEF desktop_create_window
<1>2. CASE ~(window_count >= MAX_WINDOWS)
  <2> DEFINE i == window_count
             b == IF type = "Terminal" THEN Malloc(Buffer \ allocated, 1) ELSE NULL
             win == [windows[i] EXCEPT !.id = opened + 1, !.type = type, !.size = "normal",
                                       !.active = FALSE, !.minimized = FALSE]
             made == IF type = "Terminal" THEN [win EXCEPT !.term = [cells |-> b, size |-> "normal"], !.shell = i]
                     ELSE win
             w == [windows EXCEPT ![i] = made]
             d == [Desk EXCEPT !.w[i] = made, !.n = i + 1]
             e == desktop_focus_window(d, i)
  <2>0. /\ windows \in [Slot -> Window] /\ i \in Slot /\ i \in Nat /\ i + 1 \in 0 .. MAX_WINDOWS /\ opened \in Nat
        /\ \A j \in 0 .. i : j \in Slot /\ (j # i => j \in 0 .. i - 1)
        /\ allocated \subseteq Buffer
    BY <1>2 DEF DeskPart, Slot
  <2>1. Become(e) /\ allocated' = allocated \cup ({b} \ {NULL}) /\ opened' = opened + 1
    BY <1>2, Zenon DEF desktop_create_window
  <2>2. b \in (Buffer \ allocated) \cup {NULL}
    <3>1. Malloc(Buffer \ allocated, 1) \in (Buffer \ allocated) \cup {NULL}
      BY MallocGives, <2>0
    <3> QED BY <3>1, Zenon
  <2> HIDE DEF b
  <2>3. made \in Window /\ made.type = type /\ (type = "Terminal" => made.term.cells = b)
    <3>1. windows[i] \in Window
      BY <2>0, Zenon
    <3>2. win \in Window /\ win.type = type
      <4>1. opened + 1 \in Nat
        BY <2>0
      <4>2. OfType(win, type)
        BY <3>1, <4>1, SetWindow, Zenon
      <4> QED BY <4>2, Zenon DEF OfType
    <3> HIDE DEF win
    <3>3. CASE type = "Terminal"
      <4> DEFINE t == [cells |-> b, size |-> "normal"]
      <4>1. t \in [cells : Buffer \cup {NULL}, size : Sizes] /\ t.cells = b
        BY <2>2, Zenon DEF Sizes
      <4>2. made = [win EXCEPT !.term = t, !.shell = i]
        BY <3>3, Zenon
      <4> HIDE DEF t, made
      <4>3. made \in Window /\ made.type = win.type /\ made.term = t
        BY <3>2, <4>1, <4>2, <2>0, Zenon DEF Window
      <4> QED BY <4>1, <4>3, <3>2, Zenon
    <3>4. CASE type # "Terminal"
      BY <3>2, <3>4, Zenon
    <3> QED BY <3>3, <3>4, Zenon
  <2> HIDE DEF made
  <2>4. w \in [Slot -> Window] /\ w[i] = made /\ \A j \in Slot : j # i => w[j] = windows[j]
    BY <2>0, <2>3, Zenon
  <2>5. Is(d, w, i + 1, active_index, dragging_index, resizing_index)
    <3>1. /\ Desk \in Desks /\ Desk.w = windows /\ Desk.active = active_index
          /\ Desk.drag = dragging_index /\ Desk.resize = resizing_index
      BY DeskIs, Zenon DEF Is
    <3>2. [Desk.w EXCEPT ![i] = made] = w
      BY <3>1, Zenon
    <3>3. i + 1 \in 0 .. MAX_WINDOWS /\ [Desk.w EXCEPT ![i] = made] \in [Slot -> Window]
      BY <2>0, <2>4, <3>2, Zenon
    <3>4. Is(d, [Desk.w EXCEPT ![i] = made], i + 1, Desk.active, Desk.drag, Desk.resize)
      BY <3>1, <3>3, SetSlot, Zenon
    <3> HIDE DEF w, d
    <3> QED BY <3>1, <3>2, <3>4, Zenon
  <2> HIDE DEF w, d
  <2>6. d \in Desks /\ i \in 0 .. d.n - 1
    BY <2>0, <2>5 DEF Is
  <2>7. /\ e \in Desks /\ e.n = d.n /\ e.drag = d.drag /\ e.resize = d.resize
        /\ \A j \in Slot : Alike(e.w[j], d.w[j])
        /\ ActiveHeld(e.w, e.n, e.active)
    BY <2>6, FocusKeeps, Zenon
  <2> HIDE DEF e
  <2>8. e.n = i + 1 /\ e.drag = dragging_index /\ e.resize = resizing_index /\ e.n - 1 = i
    BY <2>0, <2>5, <2>7 DEF Is
  <2>9. /\ \A j \in 0 .. i - 1 : Alike(e.w[j], windows[j])
        /\ Alike(e.w[i], made)
    BY <2>0, <2>4, <2>5, <2>7 DEF Is, Alike
  <2>10. GrabHeld(e.w, e.n, e.drag, e.resize, grabbed')
    <3> SUFFICES ASSUME grabbed # NULL
                 PROVE  \E j \in 0 .. i : j \in {dragging_index, resizing_index} /\ e.w[j].id = grabbed
      BY <2>8, Zenon DEF GrabHeld
    <3>1. PICK j \in 0 .. i - 1 : j \in {dragging_index, resizing_index} /\ windows[j].id = grabbed
      BY Zenon DEF DeskPart, GrabHeld
    <3>2. j \in 0 .. i /\ e.w[j].id = grabbed
      BY <3>1, <2>0, <2>9 DEF Alike
    <3> QED BY <3>1, <3>2, Zenon
  <2>11. Owned(e.w, e.n, allocated')
    <3> SUFFICES ASSUME NEW j \in 0 .. i, NEW k \in 0 .. i, e.w[j].type = "Terminal", e.w[j].term.cells # NULL
                 PROVE  /\ e.w[j].term.cells \in allocated'
                        /\ e.w[k].type = "Terminal" /\ e.w[k].term.cells = e.w[j].term.cells => j = k
      BY <2>8, Zenon DEF Owned
    <3>1. Owned(windows, i, allocated)
      BY Zenon DEF DeskPart
    <3>2. \A l \in 0 .. i - 1 : e.w[l].type = "Terminal" /\ e.w[l].term.cells # NULL => e.w[l].term.cells \in allocated
      BY <3>1, <2>9, Zenon DEF Alike, Owned
    <3>3. e.w[i].type = "Terminal" /\ e.w[i].term.cells # NULL => e.w[i].term.cells = b /\ b \notin allocated /\ b \in allocated'
      BY <2>1, <2>2, <2>3, <2>9, Zenon DEF Alike
    <3>4. CASE j = i
      BY <3>2, <3>3, <3>4, <2>0, Zenon
    <3>5. CASE j # i /\ k = i
      BY <3>2, <3>3, <3>5, <2>0, <2>1, Zenon
    <3>6. CASE j # i /\ k # i
      <4>1. j \in 0 .. i - 1 /\ k \in 0 .. i - 1
        BY <3>6, <2>0, Zenon
      <4> QED BY <4>1, <3>1, <3>2, <2>1, <2>9 DEF Alike, Owned
    <3> QED BY <3>4, <3>5, <3>6, Zenon
  <2>12. allocated' \subseteq Buffer /\ opened' \in Nat
    BY <2>0, <2>1, <2>2
  <2> QED BY <2>1, <2>7, <2>10, <2>11, <2>12, DeskBecomes, Zenon
<1> QED BY <1>1, <1>2, Zenon

LEMMA SetTerm ==
  ASSUME NEW v \in Window, NEW t \in [cells : Buffer \cup {NULL}, size : Sizes]
  PROVE  /\ [v EXCEPT !.term = t] \in Window /\ [v EXCEPT !.term = t].id = v.id /\ [v EXCEPT !.term = t].type = v.type
         /\ [v EXCEPT !.term = t].active = v.active /\ [v EXCEPT !.term = t].term = t
BY Zenon DEF Window

\* The terminals that get new cells are counted: no two have the same number.
LEMMA RankOwn ==
  ASSUME NEW R \in SUBSET Slot, NEW i \in R, NEW j \in R,
         Cardinality({l \in R : l <= i}) = Cardinality({l \in R : l <= j})
  PROVE  i = j
<1> DEFINE upto(m) == {l \in R : l <= m}
<1>0. Slot \subseteq Int /\ IsFiniteSet(R)
  <2>1. IsFiniteSet(Slot)
    BY FS_Interval, DesktopAssumption DEF Slot
  <2>2. IsFiniteSet(R)
    BY <2>1, FS_Subset, Zenon
  <2>3. Slot \subseteq Int
    BY DEF Slot
  <2> QED BY <2>2, <2>3, Zenon
<1>1. ASSUME NEW a \in R, NEW b \in R, a < b, Cardinality(upto(a)) = Cardinality(upto(b))  PROVE FALSE
  <2>1. upto(a) \in SUBSET upto(b) /\ b \in upto(b) /\ b \notin upto(a)
    <3>1. a \in Int /\ b \in Int /\ R \subseteq Int
      BY <1>0, Zenon
    <3>2. b \in upto(b) /\ b \notin upto(a)
      BY <3>1, <1>1
    <3>3. \A l \in upto(a) : l \in upto(b)
      BY <3>1, <1>1
    <3> QED BY <3>2, <3>3, Zenon
  <2>2. IsFiniteSet(upto(b))
    BY <1>0, FS_Subset, Zenon
  <2> HIDE DEF upto
  <2>3. upto(b) = upto(a)
    BY <2>1, <2>2, <1>1, FS_Subset, Zenon
  <2> QED BY <2>1, <2>3, Zenon
<1> QED BY <1>0, <1>1

\* Drawing: a terminal whose cells are replaced gets its own, and no other loses any.
LEMMA DrawStep ==
  ASSUME DeskPart, Draw
  PROVE  DeskPart'
<1> USE DesktopAssumption
<1> DEFINE D == {i \in Open : (dirty.full \/ dirty.window = i) /\ ~windows[i].minimized}
           R == Outgrown(D)
           freed == {windows[i].term.cells : i \in R} \ {NULL}
           free == Buffer \ (allocated \ freed)
           rank == [i \in R |-> Cardinality({j \in R : j <= i})]
           f == [i \in R |-> Malloc(free, Cardinality({j \in R : j <= i}))]
           w == [i \in Slot |-> IF i \in R THEN [windows[i] EXCEPT !.term = [cells |-> f[i], size |-> windows[i].size]]
                                ELSE windows[i]]
<1>0. /\ windows' = w /\ allocated' = ((allocated \ freed) \cup {f[i] : i \in R}) \ {NULL}
      /\ UNCHANGED <<window_count, active_index, dragging_index, resizing_index, opened, grabbed>>
  BY Zenon DEF Draw
<1>1. /\ windows \in [Slot -> Window] /\ window_count \in 0 .. MAX_WINDOWS /\ allocated \subseteq Buffer
      /\ Open = 0 .. window_count - 1 /\ Open \subseteq Slot /\ Owned(windows, window_count, allocated)
  BY DEF DeskPart, Open, Slot
<1>2. R \subseteq Open /\ R \subseteq Slot /\ \A i \in R : windows[i].type = "Terminal"
  BY <1>1, Zenon DEF Outgrown
<1> HIDE DEF D, R
<1>3. \A i \in R : f[i] = Malloc(free, rank[i]) /\ rank[i] \in Nat
  <2> SUFFICES ASSUME NEW i \in R PROVE Cardinality({j \in R : j <= i}) \in Nat
    BY Zenon
  <2>1. IsFiniteSet(Slot)
    BY FS_Interval DEF Slot
  <2>2. IsFiniteSet({j \in R : j <= i})
    BY <2>1, <1>2, FS_Subset, Zenon
  <2> QED BY <2>2, FS_CardinalityType, Zenon
<1>4. \A i, j \in R : rank[i] = rank[j] => i = j
  BY <1>2, RankOwn
<1> HIDE DEF f, rank, freed
<1>5. /\ \A i \in R : f[i] \in free \cup {NULL}
      /\ \A i, j \in R : f[i] # NULL /\ f[i] = f[j] => i = j
  <2> free \in SUBSET Buffer
    BY Zenon
  <2> HIDE DEF free
  <2>1. \A k, l \in Int : /\ Malloc(free, k) \in free \cup {NULL}
                          /\ Malloc(free, k) # NULL /\ Malloc(free, k) = Malloc(free, l) => k = l
    BY MallocGives, Zenon
  <2> QED BY <2>1, <1>3, <1>4
<1>6. \A i \in Slot : /\ w[i] \in Window /\ w[i].id = windows[i].id /\ w[i].type = windows[i].type
                      /\ w[i].active = windows[i].active
                      /\ i \in R => w[i].term.cells = f[i]
                      /\ i \notin R => w[i].term = windows[i].term
  <2> SUFFICES ASSUME NEW i \in Slot
               PROVE  /\ w[i] \in Window /\ w[i].id = windows[i].id /\ w[i].type = windows[i].type
                      /\ w[i].active = windows[i].active
                      /\ i \in R => w[i].term.cells = f[i]
                      /\ i \notin R => w[i].term = windows[i].term
    BY Zenon
  <2>1. windows[i] \in Window
    BY <1>1, Zenon
  <2>2. CASE i \in R
    <3> DEFINE t == [cells |-> f[i], size |-> windows[i].size]
    <3>1. t \in [cells : Buffer \cup {NULL}, size : Sizes] /\ t.cells = f[i]
      BY <2>1, <2>2, <1>5, Zenon DEF Window
    <3>2. w[i] = [windows[i] EXCEPT !.term = t]
      BY <2>2, Zenon
    <3> HIDE DEF t, w
    <3> QED BY <2>1, <2>2, <3>1, <3>2, SetTerm
  <2>3. CASE i \notin R
    <3>1. w[i] = windows[i]
      BY <2>3, Zenon
    <3> QED BY <3>1, <2>1, <2>3, Zenon
  <2> QED BY <2>2, <2>3, Zenon
<1>7. w \in [Slot -> Window]
  BY <1>6, Zenon
<1> HIDE DEF w
<1>8. allocated' \subseteq Buffer
  BY <1>0, <1>1, <1>5, Zenon
<1>9. ActiveHeld(windows, window_count, active_index)'
  BY <1>0, <1>1, <1>6, Zenon DEF DeskPart, ActiveHeld
<1>10. GrabHeld(windows, window_count, dragging_index, resizing_index, grabbed)'
  BY <1>0, <1>1, <1>6, Zenon DEF DeskPart, GrabHeld
<1>11. Owned(w, window_count, allocated')
  <2> SUFFICES ASSUME NEW i \in Open, NEW j \in Open, w[i].type = "Terminal", w[i].term.cells # NULL
               PROVE  /\ w[i].term.cells \in allocated'
                      /\ w[j].type = "Terminal" /\ w[j].term.cells = w[i].term.cells => i = j
    BY <1>1, Zenon DEF Owned
  <2>0. i \in Slot /\ j \in Slot
    BY <1>1, Zenon
  \* The cells of a terminal that keeps them were not freed.
  <2>1. ASSUME NEW k \in Open, k \notin R, w[k].type = "Terminal", w[k].term.cells # NULL
        PROVE  w[k].term.cells \in allocated \ freed /\ w[k].term.cells \notin free
    <3>1. w[k].term = windows[k].term /\ windows[k].type = "Terminal" /\ k \in Slot
      BY <2>1, <1>1, <1>6, Zenon
    <3>2. w[k].term.cells \in allocated
      BY <3>1, <2>1, <1>1, Zenon DEF Owned
    <3>3. \A l \in R : windows[l].term.cells # windows[k].term.cells
      BY <3>1, <2>1, <1>1, <1>2, Zenon DEF Owned
    <3>4. w[k].term.cells \notin freed
      BY <3>1, <3>3, Zenon DEF freed
    <3> QED BY <3>2, <3>4, Zenon
  <2>2. ASSUME NEW k \in Open, k \in R
        PROVE  w[k].term.cells = f[k] /\ (f[k] # NULL => f[k] \in free /\ f[k] \in allocated')
    BY <2>2, <1>0, <1>1, <1>5, <1>6, Zenon
  <2>3. w[i].term.cells \in allocated'
    <3>1. CASE i \in R
      BY <3>1, <2>2, Zenon
    <3>2. CASE i \notin R
      BY <3>2, <2>1, <1>0, Zenon
    <3> QED BY <3>1, <3>2, Zenon
  <2>4. ASSUME w[j].type = "Terminal", w[j].term.cells = w[i].term.cells  PROVE i = j
    <3>1. CASE i \in R /\ j \in R
      BY <3>1, <2>2, <2>4, <1>5
    <3>2. CASE i \notin R /\ j \notin R
      <4>1. /\ windows[i].term = w[i].term /\ windows[j].term = w[j].term
            /\ windows[i].type = "Terminal" /\ windows[j].type = "Terminal"
        BY <3>2, <2>0, <2>4, <1>6, Zenon
      <4> QED BY <4>1, <2>4, <1>1, Zenon DEF Owned
    <3>3. CASE (i \in R) # (j \in R)
      BY <3>3, <2>1, <2>2, <2>4
    <3> QED BY <3>1, <3>2, <3>3, Zenon
  <2> QED BY <2>3, <2>4, Zenon
<1>12. Owned(windows, window_count, allocated)'
  BY <1>0, <1>11, Zenon DEF Owned
<1> QED BY <1>0, <1>7, <1>8, <1>9, <1>10, <1>12, Zenon DEF DeskPart

-----------------------------------------------------------------------------
(* The other steps on the array. *)

\* One window of the array changes a flag or its size.
LEMMA SetField ==
  ASSUME NEW v \in [Slot -> Window], NEW i \in Slot
  PROVE  /\ \A a \in BOOLEAN : [v EXCEPT ![i].minimized = a] = [v EXCEPT ![i] = [v[i] EXCEPT !.minimized = a]]
         /\ \A z \in Sizes : [v EXCEPT ![i].size = z] = [v EXCEPT ![i] = [v[i] EXCEPT !.size = z]]
BY Zenon

LEMMA OneAlike ==
  ASSUME NEW v \in [Slot -> Window], NEW i \in Slot, NEW u \in Window, Alike(u, v[i])
  PROVE  /\ [v EXCEPT ![i] = u] \in [Slot -> Window] /\ [v EXCEPT ![i] = u][i] = u
         /\ \A j \in Slot : Alike([v EXCEPT ![i] = u][j], v[j]) /\ (j # i => [v EXCEPT ![i] = u][j] = v[j])
BY Zenon DEF Alike

\* A step to a desk that is alike.
LEMMA AlikeDesk ==
  ASSUME DeskPart, NEW e \in Desks, e.n = window_count, e.drag = dragging_index, e.resize = resizing_index,
         \A i \in Slot : Alike(e.w[i], windows[i]), ActiveHeld(e.w, e.n, e.active),
         Become(e), UNCHANGED <<allocated, opened, grabbed>>
  PROVE  DeskPart'
<1>0. window_count \in Nat /\ window_count <= MAX_WINDOWS /\ 0 .. window_count - 1 \subseteq Slot
  BY DesktopAssumption DEF DeskPart, Slot
<1>2. \A i \in 0 .. window_count - 1 : Alike(e.w[i], windows[i])
  BY <1>0, Zenon
<1>3. /\ GrabHeld(windows, window_count, dragging_index, resizing_index, grabbed)
          => GrabHeld(e.w, window_count, dragging_index, resizing_index, grabbed)
      /\ Owned(windows, window_count, allocated) => Owned(e.w, window_count, allocated)
  BY <1>0, <1>2, AlikeKeeps, Zenon
<1>4. GrabHeld(e.w, e.n, e.drag, e.resize, grabbed') /\ Owned(e.w, e.n, allocated')
  BY <1>3, Zenon DEF DeskPart
<1>5. allocated' \subseteq Buffer /\ opened' \in Nat
  BY Zenon DEF DeskPart
<1> QED BY <1>4, <1>5, DeskBecomes, Zenon

LEMMA AltTabStep ==
  ASSUME DeskPart, KeyAltTab
  PROVE  DeskPart'
<1>1. UNCHANGED <<allocated, opened, grabbed>>
  BY Zenon DEF KeyAltTab
<1>2. /\ Desk \in Desks /\ Desk.n = window_count /\ Desk.drag = dragging_index /\ Desk.resize = resizing_index
      /\ Desk.w = windows /\ ActiveHeld(Desk.w, Desk.n, Desk.active)
  BY DeskIs, Zenon DEF Is, DeskPart
<1>3. CASE Become(Desk)
  <2>1. \A i \in Slot : Alike(Desk.w[i], windows[i])
    BY <1>2, Zenon DEF Alike
  <2> QED BY <1>1, <1>2, <1>3, <2>1, AlikeDesk, Zenon
<1>4. ASSUME NEW dir, Become(desktop_focus_next(Desk, dir))  PROVE DeskPart'
  <2> DEFINE e == desktop_focus_next(Desk, dir)
  <2>1. /\ e \in Desks /\ e.n = Desk.n /\ e.drag = Desk.drag /\ e.resize = Desk.resize
        /\ \A i \in Slot : Alike(e.w[i], Desk.w[i])
        /\ ActiveHeld(e.w, e.n, e.active)
    BY <1>2, FocusNextKeeps, Zenon
  <2>2. Become(e)
    BY <1>4, Zenon
  <2> HIDE DEF e
  <2> QED BY <1>1, <1>2, <2>1, <2>2, AlikeDesk, Zenon
<1> QED BY <1>3, <1>4, Zenon DEF KeyAltTab

\* A window is snapped, resized, or minimized by its key.
LEMMA ResizeStep ==
  ASSUME DeskPart, NEW i \in Open,
         \/ \E z \in Sizes : windows' = [windows EXCEPT ![i].size = z]
         \/ windows' = [windows EXCEPT ![i].minimized = TRUE],
         UNCHANGED <<window_count, active_index, allocated, opened>>,
         dragging_index' \in Int, resizing_index' \in Int,
         grabbed' = NULL \/ UNCHANGED <<dragging_index, resizing_index, grabbed>>
  PROVE  DeskPart'
<1>0. windows \in [Slot -> Window] /\ i \in Slot /\ windows[i] \in Window /\ 0 .. window_count - 1 \subseteq Slot
  BY DesktopAssumption, SMTT(30) DEF DeskPart, Open, Slot
<1>1. \E u \in Window : windows' = [windows EXCEPT ![i] = u] /\ Alike(u, windows[i]) /\ u.active = windows[i].active
  <2>1. ASSUME NEW z \in Sizes, windows' = [windows EXCEPT ![i].size = z]
        PROVE  \E u \in Window : windows' = [windows EXCEPT ![i] = u] /\ Alike(u, windows[i]) /\ u.active = windows[i].active
    <3>1. windows' = [windows EXCEPT ![i] = [windows[i] EXCEPT !.size = z]]
      BY <2>1, <1>0, SetField, Zenon
    <3>2. /\ [windows[i] EXCEPT !.size = z] \in Window /\ Alike([windows[i] EXCEPT !.size = z], windows[i])
          /\ [windows[i] EXCEPT !.size = z].active = windows[i].active
      BY <1>0, SetSize, Zenon
    <3> QED BY <3>1, <3>2, Zenon
  <2>2. ASSUME windows' = [windows EXCEPT ![i].minimized = TRUE]
        PROVE  \E u \in Window : windows' = [windows EXCEPT ![i] = u] /\ Alike(u, windows[i]) /\ u.active = windows[i].active
    <3>1. windows' = [windows EXCEPT ![i] = [windows[i] EXCEPT !.minimized = TRUE]]
      BY <2>2, <1>0, SetField, Zenon
    <3>2. /\ [windows[i] EXCEPT !.minimized = TRUE] \in Window /\ Alike([windows[i] EXCEPT !.minimized = TRUE], windows[i])
          /\ [windows[i] EXCEPT !.minimized = TRUE].active = windows[i].active
      BY <1>0, SetMinimized, Zenon
    <3> QED BY <3>1, <3>2, Zenon
  <2> QED BY <2>1, <2>2, Zenon
<1>2. PICK u \in Window : windows' = [windows EXCEPT ![i] = u] /\ Alike(u, windows[i]) /\ u.active = windows[i].active
  BY <1>1, Zenon
<1>3. /\ windows' \in [Slot -> Window]
      /\ \A j \in 0 .. window_count - 1 : Alike(windows'[j], windows[j]) /\ windows'[j].active = windows[j].active
  BY <1>0, <1>2, OneAlike, Zenon
<1> QED BY <1>3, AlikeStep, Zenon

\* A task button.
LEMMA TaskStep ==
  ASSUME DeskPart, NEW i \in Open, PressTask(i)
  PROVE  DeskPart'
<1>0. windows \in [Slot -> Window] /\ i \in Slot /\ windows[i] \in Window /\ 0 .. window_count - 1 \subseteq Slot
      /\ ActiveHeld(windows, window_count, active_index)
  BY DesktopAssumption DEF DeskPart, Open, Slot
<1>1. UNCHANGED <<allocated, opened, grabbed>>
  BY Zenon DEF PressTask, Calm
<1>2. /\ Desk \in Desks /\ Desk.n = window_count /\ Desk.drag = dragging_index /\ Desk.resize = resizing_index
      /\ Desk.w = windows /\ Desk.active = active_index /\ i \in 0 .. Desk.n - 1
  BY DeskIs, Zenon DEF Is, Open
<1>3. CASE windows[i].minimized
  <2> DEFINE u == [windows[i] EXCEPT !.minimized = FALSE]
             d == [Desk EXCEPT !.w[i].minimized = FALSE]
             w == [windows EXCEPT ![i] = u]
  <2>1. u \in Window /\ Alike(u, windows[i])
    BY <1>0, SetMinimized, Zenon
  <2>2. d = [Desk EXCEPT !.w = w]
    BY <1>2, Zenon
  <2> HIDE DEF u, d
  <2>3. w \in [Slot -> Window] /\ \A j \in Slot : Alike(w[j], windows[j])
    BY <1>0, <2>1, OneAlike, Zenon
  <2> HIDE DEF w
  <2>4. Is(d, w, Desk.n, Desk.active, Desk.drag, Desk.resize)
    BY <1>2, <2>2, <2>3, Zenon DEF Is, Desks
  <2>5. /\ d \in Desks /\ d.n = window_count /\ d.drag = dragging_index /\ d.resize = resizing_index
        /\ \A j \in 0 .. window_count - 1 : Alike(d.w[j], windows[j])
        /\ i \in 0 .. d.n - 1
    BY <1>0, <1>2, <2>3, <2>4, Zenon DEF Is
  <2>6. Become(desktop_focus_window(d, i))
    BY <1>3, Zenon DEF PressTask, d
  <2> QED BY <1>1, <2>5, <2>6, FocusStep, Zenon
<1>4. CASE ~windows[i].minimized /\ active_index = i
  <2> DEFINE u == [windows[i] EXCEPT !.minimized = TRUE]
             v == [u EXCEPT !.active = FALSE]
             e == [Desk EXCEPT !.w[i].minimized = TRUE, !.w[i].active = FALSE, !.active = None]
             w == [windows EXCEPT ![i] = v]
  <2>1. u \in Window /\ Alike(u, windows[i])
    BY <1>0, SetMinimized, Zenon
  <2>2. e = [Desk EXCEPT !.w = w, !.active = None]
    BY <1>0, <1>2, Zenon
  <2> HIDE DEF u
  <2>3. v \in Window /\ Alike(v, windows[i]) /\ v.active = FALSE
    <3>1. v \in Window /\ Alike(v, u) /\ v.active = FALSE
      BY <2>1, SetActive, Zenon
    <3> QED BY <2>1, <3>1, Zenon DEF Alike
  <2> HIDE DEF v, e
  <2>4. /\ w \in [Slot -> Window] /\ w[i] = v
        /\ \A j \in Slot : Alike(w[j], windows[j]) /\ (j # i => w[j] = windows[j])
    BY <1>0, <2>3, OneAlike
  <2> HIDE DEF w
  <2>5. Is(e, w, Desk.n, None, Desk.drag, Desk.resize)
    <3>1. None \in Int
      BY DEF None
    <3>2. Is([Desk EXCEPT !.w = w, !.active = None], w, Desk.n, None, Desk.drag, Desk.resize)
      BY <1>2, <2>4, <3>1, SetArray, Zenon
    <3> QED BY <2>2, <3>2, Zenon
  <2>6. ActiveHeld(w, window_count, None)
    <3>1. \A j \in 0 .. window_count - 1 : j # None /\ j \in Slot
      BY <1>0 DEF None
    <3>2. \A j \in 0 .. window_count - 1 : j # i => w[j] = windows[j] /\ (windows[j].active <=> FALSE)
      BY <1>0, <1>4, <2>4, <3>1, Zenon DEF ActiveHeld
    <3> QED BY <2>3, <2>4, <3>1, <3>2, Zenon DEF ActiveHeld
  <2>7. Become(e)
    BY <1>4, Zenon DEF PressTask, e
  <2>8. /\ e \in Desks /\ e.n = window_count /\ e.drag = dragging_index /\ e.resize = resizing_index
        /\ \A j \in Slot : Alike(e.w[j], windows[j])
        /\ ActiveHeld(e.w, e.n, e.active)
    BY <1>2, <2>4, <2>5, <2>6, Zenon DEF Is
  <2> QED BY <1>1, <2>7, <2>8, AlikeDesk, Zenon
<1>5. CASE ~windows[i].minimized /\ active_index # i
  <2>1. Become(desktop_focus_window(Desk, i))
    BY <1>5, Zenon DEF PressTask
  <2>2. \A j \in 0 .. window_count - 1 : Alike(Desk.w[j], windows[j])
    BY <1>2, Zenon DEF Alike
  <2> QED BY <1>1, <1>2, <2>1, <2>2, FocusStep, Zenon
<1> QED BY <1>3, <1>4, <1>5, Zenon

\* A press on a window: it comes to the front, and what is pressed there follows.
LEMMA WindowStep ==
  ASSUME DeskPart, NEW i \in Open, PressWindow(i)
  PROVE  DeskPart'
<1> DEFINE top == window_count - 1
           r == desktop_raise_window(Desk, i)
           d == desktop_focus_window(r, top)
<1>0. window_count \in Nat /\ top \in 0 .. window_count - 1 /\ top \in Slot /\ top \in Int /\ 0 .. window_count - 1 \subseteq Slot
      /\ opened \in Nat /\ allocated \subseteq Buffer
  BY DesktopAssumption DEF DeskPart, Open, Slot
<1>1. /\ Desk \in Desks /\ Desk.n = window_count /\ Desk.drag = dragging_index /\ Desk.resize = resizing_index
      /\ Desk.w = windows /\ i \in 0 .. Desk.n - 1
  BY DeskIs, Zenon DEF Is, Open
<1>2. /\ r \in Desks /\ r.n = Desk.n /\ r.w[Desk.n - 1] = Desk.w[i]
      /\ \A g : GrabHeld(Desk.w, Desk.n, Desk.drag, Desk.resize, g) => GrabHeld(r.w, r.n, r.drag, r.resize, g)
      /\ \A given : Owned(Desk.w, Desk.n, given) => Owned(r.w, r.n, given)
  BY <1>1, RaiseKeeps, Zenon
<1> HIDE DEF r
<1>3. r \in Desks /\ top \in 0 .. r.n - 1
  BY <1>0, <1>1, <1>2, Zenon
<1>4. /\ d \in Desks /\ d.n = r.n /\ d.drag = r.drag /\ d.resize = r.resize
      /\ \A j \in Slot : Alike(d.w[j], r.w[j])
      /\ ActiveHeld(d.w, d.n, d.active)
  BY <1>3, FocusKeeps, Zenon
<1>5. UNCHANGED <<allocated, opened>>
  BY Zenon DEF PressWindow, Calm
<1>6. \/ Become(desktop_close_window(d, top)) /\ grabbed' = NULL
      \/ (\E z \in Size : Become([d EXCEPT !.resize = top, !.w[top].size = z])) /\ grabbed' = windows[i].id
      \/ Become([d EXCEPT !.drag = top]) /\ grabbed' = windows[i].id
      \/ Become(d) /\ UNCHANGED grabbed
  BY Zenon DEF PressWindow, r
<1> HIDE DEF d
<1>7. /\ d.n = window_count /\ d.w \in [Slot -> Window] /\ d.w[top].id = windows[i].id
      /\ GrabHeld(d.w, d.n, d.drag, d.resize, grabbed) /\ Owned(d.w, d.n, allocated)
  <2>1. \A j \in 0 .. window_count - 1 : Alike(d.w[j], r.w[j])
    BY <1>0, <1>4, Zenon
  <2>2. /\ GrabHeld(r.w, window_count, r.drag, r.resize, grabbed) => GrabHeld(d.w, window_count, r.drag, r.resize, grabbed)
        /\ Owned(r.w, window_count, allocated) => Owned(d.w, window_count, allocated)
    BY <1>0, <2>1, AlikeKeeps, Zenon
  <2>3. GrabHeld(r.w, window_count, r.drag, r.resize, grabbed) /\ Owned(r.w, window_count, allocated)
    BY <1>1, <1>2, Zenon DEF DeskPart
  <2>4. d.w[top].id = windows[i].id
    BY <1>0, <1>1, <1>2, <2>1, Zenon DEF Alike
  <2>5. d.w \in [Slot -> Window]
    BY <1>4, Zenon DEF Desks
  <2> QED BY <1>1, <1>2, <1>4, <2>2, <2>3, <2>4, <2>5, Zenon
<1>8. CASE Become(desktop_close_window(d, top)) /\ grabbed' = NULL
  <2> DEFINE e == desktop_close_window(d, top)
  <2>0. top \in 0 .. d.n - 1
    BY <1>0, <1>7, Zenon
  <2>1. /\ e \in Desks /\ ActiveHeld(e.w, e.n, e.active)
        /\ \A given : Owned(d.w, d.n, given) => Owned(e.w, e.n, given)
    BY <1>4, <2>0, CloseKeeps, Zenon
  <2>2. Become(e)
    BY <1>8, Zenon
  <2> HIDE DEF e
  <2>3. GrabHeld(e.w, e.n, e.drag, e.resize, grabbed') /\ Owned(e.w, e.n, allocated')
    BY <1>5, <1>7, <1>8, <2>1, Zenon DEF GrabHeld
  <2> QED BY <1>0, <1>5, <2>1, <2>2, <2>3, DeskBecomes, Zenon
<1>9. ASSUME NEW z \in Size, Become([d EXCEPT !.resize = top, !.w[top].size = z]), grabbed' = windows[i].id
      PROVE  DeskPart'
  <2> DEFINE u == [d.w[top] EXCEPT !.size = z]
             w == [d.w EXCEPT ![top] = u]
             e == [d EXCEPT !.resize = top, !.w[top].size = z]
  <2>1. u \in Window /\ Alike(u, d.w[top]) /\ u.active = d.w[top].active
    <3>1. d.w[top] \in Window /\ z \in Sizes
      BY <1>0, <1>7, Zenon DEF Sizes
    <3> QED BY <3>1, SetSize, Zenon
  <2>2. e = [d EXCEPT !.resize = top, !.w = w]
    BY <1>0, <1>4, <1>7, Zenon
  <2> HIDE DEF u, e
  <2>3. /\ w \in [Slot -> Window] /\ w[top] = u
        /\ \A j \in Slot : Alike(w[j], d.w[j]) /\ (j # top => w[j] = d.w[j])
    BY <1>0, <1>7, <2>1, OneAlike
  <2> HIDE DEF w
  <2>4. Is(e, w, d.n, d.active, d.drag, top)
    BY <1>0, <1>4, <2>2, <2>3, Zenon DEF Is, Desks
  <2>5. ActiveHeld(w, d.n, d.active)
    <3>1. \A j \in 0 .. window_count - 1 : w[j].active = d.w[j].active
      BY <1>0, <2>1, <2>3, Zenon
    <3> QED BY <1>4, <1>7, <3>1, Zenon DEF ActiveHeld
  <2>6. Owned(w, d.n, allocated)
    <3>1. \A j \in 0 .. window_count - 1 : Alike(w[j], d.w[j])
      BY <1>0, <2>3, Zenon
    <3>2. Owned(d.w, window_count, allocated) => Owned(w, window_count, allocated)
      BY <1>0, <3>1, AlikeKeeps, Zenon
    <3> QED BY <1>7, <3>2, Zenon
  <2>7. GrabHeld(e.w, e.n, e.drag, e.resize, grabbed')
    <3>1. w[top].id = windows[i].id
      BY <1>7, <2>1, <2>3, Zenon DEF Alike
    <3> QED BY <3>1, <1>0, <1>7, <1>9, <2>4, Zenon DEF Is, GrabHeld
  <2>8. e \in Desks /\ ActiveHeld(e.w, e.n, e.active) /\ Owned(e.w, e.n, allocated')
    BY <1>5, <2>4, <2>5, <2>6, Zenon DEF Is
  <2>9. Become(e)
    BY <1>9, Zenon DEF e
  <2> QED BY <1>0, <1>5, <2>7, <2>8, <2>9, DeskBecomes, Zenon
<1>10. CASE Become([d EXCEPT !.drag = top]) /\ grabbed' = windows[i].id
  <2> DEFINE e == [d EXCEPT !.drag = top]
  <2>1. Is(e, d.w, d.n, d.active, top, d.resize)
    BY <1>0, <1>4, Zenon DEF Is, Desks
  <2>2. Become(e)
    BY <1>10, Zenon
  <2> HIDE DEF e
  <2>3. GrabHeld(e.w, e.n, e.drag, e.resize, grabbed')
    BY <1>0, <1>7, <1>10, <2>1, Zenon DEF Is, GrabHeld
  <2>4. e \in Desks /\ ActiveHeld(e.w, e.n, e.active) /\ Owned(e.w, e.n, allocated')
    BY <1>4, <1>5, <1>7, <2>1, Zenon DEF Is
  <2> QED BY <1>0, <1>5, <2>2, <2>3, <2>4, DeskBecomes, Zenon
<1>11. CASE Become(d) /\ UNCHANGED grabbed
  BY <1>0, <1>4, <1>5, <1>7, <1>11, DeskBecomes, Zenon
<1> QED BY <1>6, <1>8, <1>9, <1>10, <1>11, Zenon

-----------------------------------------------------------------------------
(* The marks. *)

LEMMA MarksFull ==
  ASSUME NEW p, NEW k, Marks(TRUE, p, k)
  PROVE  dirty' = Whole
BY Zenon DEF Marks

\* Once everything is marked, there is nothing to keep.
LEMMA FullStep ==
  ASSUME MarkPart, dirty' = Whole, NEW S, Notice(S), strayed' \in BOOLEAN
  PROVE  MarkPart'
<1>1. dirty' \in [full : BOOLEAN, panel : BOOLEAN, window : Int] /\ dirty'.full = TRUE
  BY DEF Whole, None
<1>2. unseen' = Nothing
  BY <1>1, Zenon DEF Notice
<1>3. unseen' \in [layout : BOOLEAN, launcher : BOOLEAN, inside : SUBSET Int]
  BY <1>2, Zenon DEF Nothing
<1> QED BY <1>1, <1>3, Zenon DEF MarkPart

\* A step that leaves the windows alone: what it changes it marks, and it takes no mark away.
LEMMA PartStep ==
  ASSUME MarkPart, UNCHANGED <<windows, window_count, active_index>>, NEW S \in SUBSET Int, Notice(S),
         dirty' \in [full : BOOLEAN, panel : BOOLEAN, window : Int],
         strayed' \in BOOLEAN, strayed => strayed',
         ~dirty'.full => ~dirty.full /\ (dirty.panel => dirty'.panel)
                         /\ (launcher' # launcher => dirty'.panel /\ launcher'.open)
                         /\ \A k \in unseen.inside : k = dirty.window /\ k = active_index => k = dirty'.window,
         ~strayed' => \A k \in S : k = dirty'.window /\ k = active_index /\ k \in Open
  PROVE  MarkPart'
<1>0. Open' = Open /\ Layout' = Layout
  BY Zenon DEF Open, Layout
<1>1. CASE dirty'.full
  <2>1. unseen' = Nothing
    BY <1>1, Zenon DEF Notice
  <2>2. unseen' \in [layout : BOOLEAN, launcher : BOOLEAN, inside : SUBSET Int]
    BY <2>1, Zenon DEF Nothing
  <2> QED BY <1>1, <2>2, Zenon DEF MarkPart
<1>2. CASE ~dirty'.full
  <2> DEFINE lay == unseen.layout \/ Layout' # Layout
             lau == unseen.launcher \/ (launcher' # launcher /\ (launcher.open \/ launcher'.open))
             ins == unseen.inside \cup {i \in S : ~windows[i].minimized}
  <2>1. unseen' = [layout |-> lay, launcher |-> lau, inside |-> ins]
    BY <1>2, Zenon DEF Notice
  <2>2. lay \in BOOLEAN /\ lau \in BOOLEAN /\ ins \in SUBSET Int /\ (lay <=> unseen.layout)
    BY <1>0, Zenon DEF MarkPart
  <2>3. lau => unseen.launcher \/ launcher' # launcher
    BY Zenon
  <2>4. \A k \in ins : k \in unseen.inside \/ (k \in S /\ ~windows[k].minimized)
    BY Zenon
  <2> HIDE DEF lay, lau, ins
  <2>5. /\ unseen' \in [layout : BOOLEAN, launcher : BOOLEAN, inside : SUBSET Int]
        /\ unseen'.layout = lay /\ unseen'.launcher = lau /\ unseen'.inside = ins
    BY <2>1, <2>2, Zenon
  <2>6. ASSUME ~strayed'
        PROVE  /\ ~lay
               /\ lau => dirty'.panel /\ launcher'.open
               /\ \A k \in ins : k = dirty'.window /\ k = active_index /\ k \in Open /\ ~windows[k].minimized
    <3>1. /\ ~unseen.layout
          /\ unseen.launcher => dirty.panel /\ launcher.open
          /\ \A k \in unseen.inside : k = dirty.window /\ k = active_index /\ k \in Open /\ ~windows[k].minimized
      BY <1>2, <2>6, Zenon DEF MarkPart
    <3>2. ~lay
      BY <2>2, <3>1, Zenon
    <3>3. lau => dirty'.panel /\ launcher'.open
      BY <1>2, <2>3, <3>1, Zenon
    <3>4. \A k \in ins : k = dirty'.window /\ k = active_index /\ k \in Open /\ ~windows[k].minimized
      BY <1>2, <2>4, <2>6, <3>1, Zenon
    <3> QED BY <3>2, <3>3, <3>4, Zenon
  <2> QED BY <1>0, <2>5, <2>6, Zenon DEF MarkPart
<1> QED BY <1>1, <1>2, Zenon

LEMMA MarksType ==
  ASSUME MarkPart, NEW p \in BOOLEAN, NEW k \in Int, Marks(FALSE, p, k)
  PROVE  /\ dirty' \in [full : BOOLEAN, panel : BOOLEAN, window : Int]
         /\ ~dirty'.full => /\ ~dirty.full /\ (dirty.panel \/ p => dirty'.panel)
                            /\ dirty'.window = IF k = None THEN dirty.window ELSE k
<1>0. dirty \in [full : BOOLEAN, panel : BOOLEAN, window : Int]
  BY Zenon DEF MarkPart
<1>1. CASE dirty.full
  <2>1. dirty' = Whole
    BY <1>1, Zenon DEF Marks
  <2> QED BY <2>1 DEF Whole, None
<1>2. CASE ~dirty.full
  <2> DEFINE q == dirty.panel \/ p
             x == IF k = None THEN dirty.window ELSE k
  <2>1. dirty' = [full |-> FALSE, panel |-> q, window |-> x]
    BY <1>2, Zenon DEF Marks
  <2>2. q \in BOOLEAN /\ x \in Int
    BY <1>0, Zenon
  <2> HIDE DEF q, x
  <2>3. dirty' \in [full : BOOLEAN, panel : BOOLEAN, window : Int] /\ dirty'.panel = q /\ dirty'.window = x
    BY <2>1, <2>2, Zenon
  <2> QED BY <1>2, <2>3, Zenon DEF q, x
<1> QED BY <1>1, <1>2, Zenon

\* A key for the active window: of its own terminal only itself shows the cells.
LEMMA KeyInsideStep ==
  ASSUME IInv, KeyInside
  PROVE  IInv'
<1>0. /\ UNCHANGED <<windows, window_count, active_index, dragging_index, resizing_index, launcher, allocated, opened, grabbed>>
      /\ Marks(FALSE, FALSE, active_index) /\ active_index >= 0
  BY Zenon DEF KeyInside, KeyShell, KeyOther, KeyMarks
<1>1. DeskPart'
  BY <1>0, DeskStays, Zenon DEF IInv
<1>2. LauncherPart'
  BY <1>0, Zenon DEF IInv, LauncherPart
<1>3. active_index \in Open /\ active_index \in Int /\ active_index # None /\ Open \subseteq Int
  BY <1>0 DEF IInv, DeskPart, ActiveHeld, Open, None
<1>4. /\ dirty' \in [full : BOOLEAN, panel : BOOLEAN, window : Int]
      /\ ~dirty'.full => ~dirty.full /\ (dirty.panel => dirty'.panel) /\ dirty'.window = active_index
  BY <1>0, <1>3, MarksType, Zenon DEF IInv
<1>5. CASE KeyOther /\ Notice({active_index})
  <2>1. strayed' = strayed /\ strayed \in BOOLEAN /\ {active_index} \in SUBSET Int
    BY <1>3, <1>5, Zenon DEF KeyOther, IInv, MarkPart
  <2>2. CASE dirty'.full
    <3>1. dirty' = Whole
      BY <1>0, <2>2, Zenon DEF Marks
    <3> QED BY <1>1, <1>2, <1>5, <2>1, <3>1, FullStep, Zenon DEF IInv
  <2>3. CASE ~dirty'.full
    <3>1. MarkPart'
      BY <1>0, <1>3, <1>4, <1>5, <2>1, <2>3, PartStep, Zenon DEF IInv
    <3> QED BY <1>1, <1>2, <3>1, Zenon DEF IInv
  <2> QED BY <2>2, <2>3, Zenon
<1>6. CASE KeyShell /\ Notice(Shows(Target))
  <2>1. strayed' = (strayed \/ windows[active_index].shell # active_index)
    BY <1>6, Zenon DEF KeyShell
  <2>2. strayed' \in BOOLEAN /\ (strayed => strayed') /\ Shows(Target) \in SUBSET Int
    BY <1>3, <2>1, Zenon DEF IInv, MarkPart, Shows
  <2>3. ~strayed' => \A k \in Shows(Target) : k = active_index /\ k \in Open
    <3> SUFFICES ASSUME ~strayed', NEW k \in Shows(Target) PROVE k = active_index /\ k \in Open
      BY Zenon
    <3>1. Target = windows[active_index].term.cells
      BY <2>1, Zenon DEF Target
    <3>2. k \in Open /\ windows[k].type = "Terminal" /\ windows[k].term.cells = windows[active_index].term.cells
          /\ windows[k].term.cells # NULL /\ windows[active_index].type = "Terminal"
      BY <1>6, <3>1, Zenon DEF Shows, KeyShell
    <3> QED BY <1>3, <3>2, Zenon DEF IInv, DeskPart, Owned, Open
  <2>4. CASE dirty'.full
    <3>1. dirty' = Whole
      BY <1>0, <2>4 DEF Marks
    <3> QED BY <1>1, <1>2, <1>6, <2>2, <3>1, FullStep, Zenon DEF IInv
  <2>5. CASE ~dirty'.full
    <3>1. MarkPart'
      BY <1>0, <1>4, <1>6, <2>2, <2>3, <2>5, PartStep, Zenon DEF IInv
    <3> QED BY <1>1, <1>2, <3>1 DEF IInv
  <2> QED BY <2>4, <2>5
<1> QED BY <1>5, <1>6, Zenon DEF KeyInside

\* The launcher: opened or closed, its selection moved.
LEMMA LauncherClosed == LauncherReset \in [open : BOOLEAN, selection : Nat, matches : Nat] /\ LauncherReset.selection = 0
BY DesktopAssumption, Zenon DEF LauncherReset

LEMMA Toggled ==
  ASSUME LauncherPart, ToggleLauncher \/ launcher' = LauncherReset \/ UNCHANGED launcher
  PROVE  LauncherPart'
<1>1. CASE ToggleLauncher
  <2> DEFINE o == ~launcher.open
  <2>1. launcher' = [LauncherReset EXCEPT !.open = o] /\ o \in BOOLEAN
    BY <1>1, Zenon DEF ToggleLauncher
  <2> HIDE DEF o
  <2>2. launcher' \in [open : BOOLEAN, selection : Nat, matches : Nat] /\ launcher'.selection = 0
    BY <2>1, LauncherClosed, Zenon
  <2> QED BY <2>2, Zenon DEF LauncherPart
<1>2. CASE launcher' = LauncherReset
  BY <1>2, LauncherClosed, Zenon DEF LauncherPart
<1>3. CASE UNCHANGED launcher
  BY <1>3, Zenon DEF LauncherPart
<1> QED BY <1>1, <1>2, <1>3, Zenon

LEMMA KeyLauncherStep ==
  ASSUME IInv, KeyLauncher, Notice({})
  PROVE  IInv'
<1>0. /\ UNCHANGED <<windows, window_count, active_index, dragging_index, resizing_index, allocated, opened, grabbed, strayed>>
      /\ launcher.open /\ strayed \in BOOLEAN /\ MarkPart
  BY Zenon DEF KeyLauncher, IInv, MarkPart
<1>1. DeskPart'
  BY <1>0, DeskStays, Zenon DEF IInv
<1>2. CASE launcher' = LauncherReset /\ Marks(TRUE, FALSE, None)
  BY <1>0, <1>1, <1>2, Toggled, MarksFull, FullStep, Zenon DEF IInv
<1>3. ASSUME Marks(FALSE, TRUE, None), launcher' \in [open : BOOLEAN, selection : Nat, matches : Nat], launcher'.open,
             launcher'.selection < launcher'.matches \/ launcher'.selection = 0
      PROVE  IInv'
  <2>1. LauncherPart'
    BY <1>3, Zenon DEF LauncherPart
  <2>2. /\ dirty' \in [full : BOOLEAN, panel : BOOLEAN, window : Int]
        /\ ~dirty'.full => ~dirty.full /\ dirty'.panel /\ dirty'.window = dirty.window
    <3>1. None \in Int
      BY DEF None
    <3> QED BY <1>0, <1>3, <3>1, MarksType, Zenon
  <2>3. MarkPart'
    <3>1. {} \in SUBSET Int
      BY Zenon
    <3> QED BY <1>0, <1>3, <2>2, <3>1, PartStep, Zenon
  <2> QED BY <1>1, <2>1, <2>3, Zenon DEF IInv
<1>4. launcher \in [open : BOOLEAN, selection : Nat, matches : Nat]
  BY Zenon DEF IInv, LauncherPart
<1>5. ASSUME NEW m \in MatchCounts, launcher' = [launcher EXCEPT !.matches = m, !.selection = 0], Marks(FALSE, TRUE, None)
      PROVE  IInv'
  <2>1. m \in Nat
    BY DesktopAssumption DEF MatchCounts
  <2>2. launcher' \in [open : BOOLEAN, selection : Nat, matches : Nat] /\ launcher'.open = launcher.open /\ launcher'.selection = 0
    BY <1>4, <1>5, <2>1, Zenon
  <2> QED BY <1>0, <1>3, <1>5, <2>2, Zenon
<1>6. ASSUME NEW k \in 0 .. launcher.matches - 1, launcher' = [launcher EXCEPT !.selection = k], Marks(FALSE, TRUE, None)
      PROVE  IInv'
  <2>1. k \in Nat /\ k < launcher.matches
    BY <1>4
  <2>2. /\ launcher' \in [open : BOOLEAN, selection : Nat, matches : Nat] /\ launcher'.open = launcher.open
        /\ launcher'.selection = k /\ launcher'.matches = launcher.matches
    BY <1>4, <1>6, <2>1, Zenon
  <2> QED BY <1>0, <1>3, <1>6, <2>1, <2>2, Zenon
<1> QED BY <1>2, <1>5, <1>6, Zenon DEF KeyLauncher

\* Drawing takes the marks away, and what they were for.
LEMMA DrawMarks ==
  ASSUME MarkPart, Draw
  PROVE  MarkPart'
<1> DEFINE D == {i \in Open : (dirty.full \/ dirty.window = i) /\ ~windows[i].minimized}
           x == IF dirty.full \/ dirty.window \in Open THEN None ELSE dirty.window
<1>1. /\ dirty' = [full |-> FALSE, panel |-> FALSE, window |-> x]
      /\ unseen' = IF dirty.full THEN Nothing
                   ELSE [unseen EXCEPT !.launcher = @ /\ ~(dirty.panel /\ launcher.open), !.inside = @ \ D]
      /\ UNCHANGED <<launcher, strayed>>
  BY Zenon DEF Draw
<1>2. /\ dirty \in [full : BOOLEAN, panel : BOOLEAN, window : Int] /\ strayed \in BOOLEAN
      /\ unseen \in [layout : BOOLEAN, launcher : BOOLEAN, inside : SUBSET Int]
  BY Zenon DEF MarkPart
<1>3. x \in Int
  BY <1>2 DEF None
<1> HIDE DEF x
<1>4. dirty' \in [full : BOOLEAN, panel : BOOLEAN, window : Int]
  BY <1>1, <1>3, Zenon
<1>5. CASE dirty.full
  <2>1. /\ unseen' \in [layout : BOOLEAN, launcher : BOOLEAN, inside : SUBSET Int]
        /\ unseen'.layout = FALSE /\ unseen'.launcher = FALSE /\ unseen'.inside = {}
    BY <1>1, <1>5, Zenon DEF Nothing
  <2> QED BY <1>1, <1>2, <1>4, <2>1, Zenon DEF MarkPart
<1>6. CASE ~dirty.full
  <2> DEFINE lau == unseen.launcher /\ ~(dirty.panel /\ launcher.open)
             ins == unseen.inside \ D
  <2>1. unseen' = [unseen EXCEPT !.launcher = lau, !.inside = ins]
    BY <1>1, <1>6, Zenon
  <2>2. lau \in BOOLEAN /\ ins \in SUBSET Int
    BY <1>2, Zenon
  <2>3. ASSUME ~strayed PROVE ~lau /\ ins = {} /\ ~unseen.layout
    <3>1. /\ ~unseen.layout
          /\ unseen.launcher => dirty.panel /\ launcher.open
          /\ \A k \in unseen.inside : k = dirty.window /\ k \in Open /\ ~windows[k].minimized
      BY <1>6, <2>3, Zenon DEF MarkPart
    <3>2. \A k \in unseen.inside : k \in D
      BY <3>1, Zenon
    <3> QED BY <3>1, <3>2, Zenon
  <2> HIDE DEF lau, ins
  <2>4. /\ unseen' \in [layout : BOOLEAN, launcher : BOOLEAN, inside : SUBSET Int]
        /\ unseen'.layout = unseen.layout /\ unseen'.launcher = lau /\ unseen'.inside = ins
    BY <1>2, <2>1, <2>2, Zenon
  <2> QED BY <1>1, <1>2, <1>4, <2>3, <2>4, Zenon DEF MarkPart
<1> QED BY <1>5, <1>6, Zenon

\* The button stays down, or goes up.
LEMMA MoveStep ==
  ASSUME IInv, Move \/ Release, Notice({})
  PROVE  IInv'
<1>0. /\ UNCHANGED <<window_count, active_index, launcher, allocated, opened, strayed>>
      /\ strayed \in BOOLEAN /\ MarkPart /\ DeskPart
      /\ dragging_index \in Int /\ resizing_index \in Int
  BY Zenon DEF Move, Release, Calm, IInv, MarkPart, DeskPart
<1>1. /\ dragging_index' \in Int /\ resizing_index' \in Int
      /\ grabbed' = NULL \/ UNCHANGED <<dragging_index, resizing_index, grabbed>>
  <2>1. CASE Move
    <3>1. UNCHANGED <<dragging_index, resizing_index, grabbed>>
      BY <2>1, Zenon DEF Move
    <3> QED BY <1>0, <3>1, Zenon
  <2>2. CASE Release
    BY <2>2 DEF Release, None
  <2> QED BY <2>1, <2>2, Zenon
<1>2. \/ UNCHANGED windows /\ UNCHANGED dirty
      \/ UNCHANGED windows /\ dirty' = Whole
      \/ dirty' = Whole /\ \E k, z : z \in Size /\ windows' = Resized(k, z)
  <2>1. CASE Move
    BY <2>1, MarksFull, Zenon DEF Move
  <2>2. CASE Release
    BY <2>2, MarksFull, Zenon DEF Release, Redraw
  <2> QED BY <2>1, <2>2, Zenon
<1>3. DeskPart'
  <2>1. CASE UNCHANGED windows
    <3>1. /\ windows' \in [Slot -> Window]
          /\ \A i \in 0 .. window_count - 1 : Alike(windows'[i], windows[i]) /\ windows'[i].active = windows[i].active
      BY <1>0, <2>1, Zenon DEF DeskPart, Alike
    <3> QED BY <1>0, <1>1, <3>1, AlikeStep, Zenon
  <2>2. ASSUME NEW k, NEW z \in Size, windows' = Resized(k, z), ~UNCHANGED windows  PROVE DeskPart'
    <3>1. k \in Open /\ windows' = [windows EXCEPT ![k].size = z] /\ z \in Sizes
      BY <2>2, Zenon DEF Resized, Sizes
    <3> QED BY <1>0, <1>1, <3>1, ResizeStep, Zenon
  <2> QED BY <1>2, <2>1, <2>2, Zenon
<1>4. LauncherPart'
  BY <1>0, Zenon DEF IInv, LauncherPart
<1>5. MarkPart'
  <2>1. CASE dirty' = Whole
    BY <1>0, <2>1, FullStep, Zenon
  <2>2. CASE UNCHANGED windows /\ UNCHANGED dirty
    <3>1. {} \in SUBSET Int /\ dirty \in [full : BOOLEAN, panel : BOOLEAN, window : Int]
      BY <1>0, Zenon DEF MarkPart
    <3> QED BY <1>0, <2>2, <3>1, PartStep, Zenon
  <2> QED BY <1>2, <2>1, <2>2, Zenon
<1> QED BY <1>3, <1>4, <1>5, Zenon DEF IInv

\* The steps that mark everything.
LEMMA WholeStep ==
  ASSUME IInv, Notice({}),
         \/ KeyWin \/ KeyAltTab \/ KeyLaunch \/ KeyAlt \/ KeyExit \/ PressLauncher \/ PressEntry
         \/ \E i \in Open : PressTask(i) \/ PressWindow(i)
  PROVE  IInv'
<1>0. dirty' = Whole /\ UNCHANGED strayed /\ strayed \in BOOLEAN /\ MarkPart /\ DeskPart /\ LauncherPart
  BY MarksFull, Zenon DEF KeyWin, KeyAltTab, KeyLaunch, KeyAlt, KeyExit, PressLauncher, PressEntry, PressTask, PressWindow,
                   Calm, Redraw, IInv, MarkPart
<1>1. MarkPart'
  BY <1>0, FullStep, Zenon
<1>2. LauncherPart'
  <2>1. ToggleLauncher \/ launcher' = LauncherReset \/ UNCHANGED launcher
    BY Zenon DEF KeyWin, KeyAltTab, KeyLaunch, KeyAlt, KeyExit, PressLauncher, PressEntry, PressTask, PressWindow, Calm
  <2> QED BY <1>0, <2>1, Toggled, Zenon
<1>a. active_index >= 0 => active_index \in Open
  BY <1>0 DEF DeskPart, ActiveHeld, Open, None
<1>3. DeskPart'
  <2>1. CASE KeyWin \/ PressLauncher
    BY <1>0, <2>1, DeskStays, Zenon DEF KeyWin, PressLauncher
  <2>2. CASE KeyAltTab
    BY <1>0, <2>2, AltTabStep, Zenon
  <2>3. CASE KeyLaunch \/ PressEntry
    <3>1. CASE \E type \in Types : desktop_create_window(type) /\ UNCHANGED grabbed
      BY <1>0, <3>1, CreateStep, Zenon
    <3>2. CASE UNCHANGED <<windows, window_count, active_index, dragging_index, resizing_index, allocated, opened, grabbed>>
      BY <1>0, <3>2, DeskStays, Zenon
    <3> QED BY <2>3, <3>1, <3>2, Zenon DEF KeyLaunch, PressEntry
  <2>4. CASE KeyExit
    <3>1. active_index \in Open /\ Close(active_index)
      BY <1>a, <2>4, Zenon DEF KeyExit
    <3> QED BY <1>0, <3>1, CloseStep, Zenon
  <2>5. CASE KeyAlt
    <3>1. CASE \E type \in Types : desktop_create_window(type) /\ UNCHANGED grabbed
      BY <1>0, <3>1, CreateStep
    <3>2. CASE UNCHANGED <<windows, window_count, active_index, dragging_index, resizing_index, allocated, opened, grabbed>>
      BY <1>0, <3>2, DeskStays
    <3>3. CASE active_index >= 0 /\ Close(active_index)
      BY <1>0, <1>a, <3>3, CloseStep, Zenon
    <3>4. CASE /\ active_index >= 0
               /\ desktop_snap_window(active_index) \/ windows' = [windows EXCEPT ![active_index].minimized = TRUE]
               /\ UNCHANGED <<window_count, active_index, dragging_index, resizing_index, allocated, opened, grabbed>>
      <4>1. \/ \E z \in Sizes : windows' = [windows EXCEPT ![active_index].size = z]
            \/ windows' = [windows EXCEPT ![active_index].minimized = TRUE]
        BY <3>4, Zenon DEF desktop_snap_window, Sizes
      <4>2. active_index \in Open /\ dragging_index' \in Int /\ resizing_index' \in Int
        BY <1>0, <1>a, <3>4, Zenon DEF DeskPart
      <4> QED BY <1>0, <3>4, <4>1, <4>2, ResizeStep, Zenon
    <3> QED BY <2>5, <3>1, <3>2, <3>3, <3>4, SMTT(30) DEF KeyAlt
  <2>6. ASSUME NEW i \in Open, PressTask(i) \/ PressWindow(i)  PROVE DeskPart'
    BY <1>0, <2>6, TaskStep, WindowStep, Zenon
  <2> QED BY <2>1, <2>2, <2>3, <2>4, <2>5, <2>6, Zenon
<1> QED BY <1>1, <1>2, <1>3, Zenon DEF IInv

-----------------------------------------------------------------------------
LEMMA InitIInv == Init => IInv
<1> SUFFICES ASSUME Init PROVE IInv
  BY Zenon
<1> USE DesktopAssumption
<1> DEFINE b == Malloc(Buffer, 1)
           t == [cells |-> b, size |-> "normal"]
           z == [cells |-> NULL, size |-> "normal"]
<1>1. b \in Buffer \cup {NULL}
  <2>1. Buffer \in SUBSET Buffer /\ 1 \in Int
    OBVIOUS
  <2> QED BY <2>1, MallocGives, Zenon
<1>2. t \in [cells : Buffer \cup {NULL}, size : Sizes] /\ z \in [cells : Buffer \cup {NULL}, size : Sizes] /\ t.cells = b
  BY <1>1, Zenon DEF Sizes
<1>3. 0 \in Slot /\ 0 \in 0 .. 0
  BY DEF Slot
<1>4. windows = [i \in Slot |-> IF i = 0 THEN [Left(t, 0) EXCEPT !.id = 1, !.type = "Terminal", !.active = TRUE] ELSE Left(z, 0)]
      /\ window_count = 1 /\ active_index = 0 /\ dragging_index = None /\ resizing_index = None
      /\ launcher = LauncherReset /\ allocated = {b} \ {NULL} /\ dirty = Whole /\ opened = 1 /\ grabbed = NULL
      /\ unseen = Nothing /\ strayed = FALSE
  BY Zenon DEF Init
<1> HIDE DEF b, t, z
<1> DEFINE first == [Left(t, 0) EXCEPT !.id = 1, !.type = "Terminal", !.active = TRUE]
<1>5. first \in Window /\ first.active = TRUE /\ first.term = t
  BY <1>2, <1>3, Zenon DEF Left, Window, Sizes
<1>6. Left(z, 0) \in Window
  BY <1>2, <1>3, Zenon DEF Left, Window, Sizes
<1>7. windows \in [Slot -> Window] /\ windows[0] = first
  <2> HIDE DEF first
  <2> QED BY <1>3, <1>4, <1>5, <1>6, Zenon DEF first
<1> HIDE DEF first
<1>8. window_count - 1 = 0 /\ \A i \in 0 .. 0 : i = 0
  BY <1>4
<1>9. DeskPart
  <2>1. ActiveHeld(windows, window_count, active_index)
    BY <1>4, <1>5, <1>7, <1>8 DEF ActiveHeld
  <2>2. GrabHeld(windows, window_count, dragging_index, resizing_index, grabbed)
    BY <1>4, Zenon DEF GrabHeld
  <2>3. Owned(windows, window_count, allocated)
    <3>1. windows[0].term.cells = b
      BY <1>2, <1>5, <1>7, Zenon
    <3>2. windows[0].term.cells # NULL => windows[0].term.cells \in allocated
      BY <1>4, <3>1
    <3>3. \A i \in 0 .. window_count - 1 : i = 0
      BY <1>8, Zenon
    <3> QED BY <3>2, <3>3, Zenon DEF Owned
  <2>4. allocated \subseteq Buffer /\ window_count \in 0 .. MAX_WINDOWS /\ active_index \in Int
        /\ dragging_index \in Int /\ resizing_index \in Int /\ opened \in Nat
    BY <1>1, <1>4 DEF None
  <2> QED BY <1>7, <2>1, <2>2, <2>3, <2>4, Zenon DEF DeskPart
<1>10. LauncherPart
  BY <1>4, LauncherClosed, Zenon DEF LauncherPart
<1>11. MarkPart
  <2>1. dirty \in [full : BOOLEAN, panel : BOOLEAN, window : Int] /\ dirty.full = TRUE
    BY <1>4 DEF Whole, None
  <2>2. unseen \in [layout : BOOLEAN, launcher : BOOLEAN, inside : SUBSET Int]
    BY <1>4, Zenon DEF Nothing
  <2> QED BY <1>4, <2>1, <2>2, Zenon DEF MarkPart
<1> QED BY <1>9, <1>10, <1>11, Zenon DEF IInv

LEMMA StepIInv == IInv /\ [Next]_vars => IInv'
<1> SUFFICES ASSUME IInv, [Next]_vars PROVE IInv'
  BY Zenon
<1>1. CASE KeyInside
  BY <1>1, KeyInsideStep, Zenon
<1>2. CASE Draw
  <2>1. DeskPart' /\ MarkPart'
    BY <1>2, DrawStep, DrawMarks, Zenon DEF IInv
  <2>2. LauncherPart'
    BY <1>2, Zenon DEF Draw, IInv, LauncherPart
  <2> QED BY <2>1, <2>2, Zenon DEF IInv
<1>3. CASE (KeyDesktop \/ handle_mouse_click) /\ Notice({})
  <2>1. CASE KeyLauncher
    BY <1>3, <2>1, KeyLauncherStep, Zenon
  <2>2. CASE Move \/ Release
    BY <1>3, <2>2, MoveStep, Zenon
  <2>3. CASE \/ KeyWin \/ KeyAltTab \/ KeyLaunch \/ KeyAlt \/ KeyExit \/ PressLauncher \/ PressEntry
             \/ \E i \in Open : PressTask(i) \/ PressWindow(i)
    BY <1>3, <2>3, WholeStep, Zenon
  <2> QED BY <1>3, <2>1, <2>2, <2>3, Zenon DEF KeyDesktop, handle_mouse_click
<1>4. CASE UNCHANGED vars
  <2>1. DeskPart'
    BY <1>4, DeskStays, Zenon DEF vars, IInv
  <2>2. LauncherPart'
    BY <1>4, Zenon DEF vars, IInv, LauncherPart
  <2>3. MarkPart'
    BY <1>4, Zenon DEF vars, IInv, MarkPart, Open
  <2> QED BY <2>1, <2>2, <2>3, Zenon DEF IInv
<1> QED BY <1>1, <1>2, <1>3, <1>4, Zenon DEF Next

LEMMA IInvHolds == Spec => []IInv
BY InitIInv, StepIInv, PTL DEF Spec

\* For any number of windows, buffers and sizes: the indices of desktop.c name the windows
\* they mean, though windows are copied within the array and closed, and no terminal has
\* another's cells or freed ones (desktop_raise_window, desktop_close_window, draw_window).
THEOREM WindowsHeldHolds == Spec => []WindowsHeld
<1>1. IInv => WindowsHeld
  <2> SUFFICES ASSUME IInv PROVE IndicesHeld /\ CellsOwned
    BY Zenon DEF WindowsHeld
  <2>1. IndicesHeld
    BY Zenon DEF IInv, DeskPart, LauncherPart, ActiveHeld, GrabHeld, IndicesHeld, Open
  <2>2. CellsOwned
    BY Zenon DEF IInv, DeskPart, Owned, CellsOwned, Open
  <2> QED BY <2>1, <2>2, Zenon
<1> QED BY <1>1, IInvHolds, PTL

\* Until a shell writes to another window's terminal, whatever is not on the screen as it
\* is, is marked to be drawn again (dirty_full, dirty_panel, dirty_window of desktop_loop).
THEOREM ScreenMarkedHolds == Spec => []ScreenMarked
<1>1. IInv => ScreenMarked
  BY Zenon DEF IInv, MarkPart, ScreenMarked
<1> QED BY <1>1, IInvHolds, PTL
=============================================================================
