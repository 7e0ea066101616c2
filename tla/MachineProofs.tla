--------------------------- MODULE MachineProofs ---------------------------
(***************************************************************************)
(* What parts of the machine promise, for all sizes: processors start in   *)
(* places of their own (Boot), the buffers hold the picture that was drawn *)
(* (Gfx), and the address and the names the network services use are those *)
(* they were given (NetServices).                                          *)
(***************************************************************************)
EXTENDS Boot, Gfx, NetServices, TLAPS

(* Boot. *)

BootPlaces ==
  {"start", "parked", "gates0", "gates1", "gates2", "sti", "calibrate", "release", "argument", "enter", "tasks"}
BootTypes ==
  /\ bsp \in Cpus /\ pc \in [Cpus -> BootPlaces]
  /\ stack = [c \in Cpus |-> stack[c]] /\ slot = [c \in Cpus |-> slot[c]] /\ lapic_map = [c \in Cpus |-> lapic_map[c]]

\* A processor that is where _start assumes it is has its own place once it has one:
\* what it read as its index stays its index.
Placed ==
  /\ \A c \in Cpus : \/ c \in Misplaced
                     \/ stack[c] \in {-1, c} /\ slot[c] \in {-1, c}
  /\ \A c \in Cpus : c # bsp /\ pc[c] # "parked" => c \in early \/ lapic_map[c] = c

LEMMA BootInitPlaced == BootInit => BootTypes /\ Placed
<1> SUFFICES ASSUME BootInit PROVE BootTypes /\ Placed
  BY Zenon
<1>1. bsp \in Cpus /\ pc \in [Cpus -> BootPlaces]
  BY BootAssumption, Zenon DEF BootInit, BootPlaces
<1>2. stack = [c \in Cpus |-> stack[c]] /\ slot = [c \in Cpus |-> slot[c]] /\ lapic_map = [c \in Cpus |-> lapic_map[c]]
  BY Zenon DEF BootInit
<1>3. \A c \in Cpus : stack[c] = -1 /\ slot[c] = -1 /\ (c # bsp => pc[c] = "parked")
  BY Zenon DEF BootInit
<1> QED BY <1>1, <1>2, <1>3, Zenon DEF Placed, BootTypes

LEMMA BootStepPlaced == BootTypes /\ Placed /\ [BootNext]_bootVars => BootTypes' /\ Placed'
<1> SUFFICES ASSUME BootTypes, Placed, [BootNext]_bootVars PROVE BootTypes' /\ Placed'
  BY Zenon
<1> USE BootAssumption DEF BootTypes, BootPlaces, Placed, Misplaced, At
<1>1. CASE Start
  BY <1>1, Zenon DEF Start, BootStack
<1>2. ASSUME NEW c \in Cpus, Setup(c) PROVE BootTypes' /\ Placed'
  <2>1. CASE ClearGates(c) \/ DefaultGates(c) \/ OwnGates(c)
    BY <2>1, Zenon DEF SetGate, ClearGates, DefaultGates, OwnGates
  <2>2. CASE Sti(c)
    BY <2>2, Zenon DEF Sti
  <2> QED BY <1>2, <2>1, <2>2, Zenon DEF Setup
<1>3. CASE Calibrated \/ PassOver \/ SetGoto \/ EnterBsp
  BY <1>3 DEF Calibrated, PassOver, SetGoto, EnterBsp
<1>4. CASE SetExtra
  BY <1>4, Zenon DEF SetExtra
<1>5. ASSUME NEW c \in Cpus, c # bsp, ReadIndex(c) PROVE BootTypes' /\ Placed'
  BY <1>5 DEF ReadIndex, BootStack
<1>6. ASSUME NEW c \in Cpus, c # bsp, EnterAp(c) PROVE BootTypes' /\ Placed'
  BY <1>6, Zenon DEF EnterAp
<1>7. ASSUME NEW c \in Cpus, Interrupt(c) PROVE BootTypes' /\ Placed'
  BY <1>7, Zenon DEF Interrupt
<1>8. CASE UNCHANGED bootVars
  BY <1>8, Zenon DEF bootVars
<1> QED BY <1>1, <1>2, <1>3, <1>4, <1>5, <1>6, <1>7, <1>8, Zenon DEF BootNext, BspStep, ApStep

\* For any number of processors and of boot stacks, wherever the first one is in the list:
\* two processors have different boot stacks and different scheduler slots, unless _start
\* has misplaced one of them.
THEOREM OwnPlaceHolds == BootSpec => []OwnPlace
<1>1. BootTypes /\ Placed => OwnPlace
  BY BootAssumption, Zenon DEF Placed, OwnPlace, Misplaced
<1> QED BY <1>1, BootInitPlaced, BootStepPlaced, PTL DEF BootSpec

-----------------------------------------------------------------------------
(* Gfx. *)

\* The pairs of a row and its odd last cell are the row, each cell of it.
LEMMA RowIsRange == ASSUME NEW lo \in Int, NEW n \in Nat PROVE RowCells(lo, n) = lo .. lo + n - 1
<1>1. RowCells(lo, n) \subseteq lo .. lo + n - 1
  BY DEF RowCells
<1>2. ASSUME NEW c \in lo .. lo + n - 1 PROVE c \in RowCells(lo, n)
  <2> DEFINE k == c - lo
  <2>1. k \in 0 .. n - 1 /\ c = lo + k /\ k \in Nat
    OBVIOUS
  <2>2. CASE k = n - 1 /\ n % 2 = 1
    BY <2>1, <2>2, Zenon DEF RowCells
  <2>3. CASE ~(k = n - 1 /\ n % 2 = 1)
    <3>1. k \div 2 \in 0 .. (n \div 2) - 1 /\ (k = 2 * (k \div 2) \/ k = 2 * (k \div 2) + 1)
      BY <2>1, <2>3
    <3>2. c = lo + 2 * (k \div 2) \/ c = lo + 2 * (k \div 2) + 1
      BY <2>1, <3>1
    <3> QED BY <3>1, <3>2, Zenon DEF RowCells
  <2> QED BY <2>2, <2>3, Zenon
<1> QED BY <1>1, <1>2, Zenon

LEMMA RowsApart == ASSUME NEW a \in Int, NEW b \in Int, a < b, NEW s \in Nat PROVE a * s + s <= b * s
<1>1. (b - a - 1) \in Nat
  OBVIOUS
<1>2. (b - a - 1) * s >= 0
  BY <1>1
<1>3. (b - a - 1) * s = b * s - a * s - s
  OBVIOUS
<1>4. a * s \in Int /\ b * s \in Int
  OBVIOUS
<1> QED BY <1>2, <1>3, <1>4

\* A pixel's cell is in a stretch of row r if the pixel is in that row and there.
LEMMA CellInRow ==
  ASSUME NEW p \in Int \X Int, p[1] \in 0 .. Width - 1, NEW r \in Int, NEW x \in Int, NEW n \in Int, x >= 0, x + n <= Stride
  PROVE  Cell(p) \in r * Stride + x .. r * Stride + x + n - 1 <=> p[2] = r /\ x <= p[1] /\ p[1] < x + n
<1> USE GfxAssumption
<1>1. p[1] \in Int /\ p[2] \in Int /\ p[2] * Stride \in Int /\ r * Stride \in Int
  OBVIOUS
<1>2. CASE p[2] = r
  BY <1>1, <1>2 DEF Cell
<1>3. CASE p[2] < r
  <2>1. p[2] * Stride + Stride <= r * Stride
    BY <1>1, <1>3, RowsApart, Zenon
  <2> QED BY <1>1, <1>3, <2>1 DEF Cell
<1>4. CASE r < p[2]
  <2>1. r * Stride + Stride <= p[2] * Stride
    BY <1>1, <1>4, RowsApart, Zenon
  <2> QED BY <1>1, <1>4, <2>1 DEF Cell
<1> QED BY <1>1, <1>2, <1>3, <1>4

LEMMA PixelCell == ASSUME NEW p \in Pixels PROVE Cell(p) \in Cells
<1> USE GfxAssumption
<1>1. p[1] \in 0 .. Width - 1 /\ p[2] \in 0 .. Height - 1
  BY Zenon DEF Pixels
<1>2. p[2] * Stride + Stride <= Height * Stride /\ p[2] * Stride >= 0
  BY <1>1, RowsApart
<1>3. Height * Stride = Stride * Height /\ Height * Stride \in Int /\ p[2] * Stride \in Int
  BY <1>1
<1> QED BY <1>1, <1>2, <1>3 DEF Cell, Cells

\* The rows of a clipped rectangle.
LEMMA RowsOf ==
  ASSUME NEW x \in Int, NEW y \in Int, NEW w \in Int, NEW h \in Int
  PROVE  \E x0, x1, y0, y1 \in Int :
           /\ 0 <= x0 /\ x1 <= Width
           /\ RectRows(x, y, w, h) = {<<r * Stride + x0, x1 - x0>> : r \in y0 .. y1 - 1}
           /\ y0 < y1 => x0 < x1
           /\ \A p \in Pixels : InRect(p, x, y, w, h) <=> p[2] \in y0 .. y1 - 1 /\ x0 <= p[1] /\ p[1] < x1
<1> USE GfxAssumption
<1> DEFINE x0 == IF x < 0 THEN 0 ELSE x
           y0 == IF y < 0 THEN 0 ELSE y
           x1 == IF x + w > Width THEN Width ELSE x + w
           y1 == IF y + h > Height THEN Height ELSE y + h
           none == w <= 0 \/ h <= 0 \/ x1 <= x0 \/ y1 <= y0
<1>1. /\ x0 = IF x >= 0 THEN x ELSE 0
      /\ x1 = IF x + w <= Width THEN x + w ELSE Width
      /\ y0 = IF y >= 0 THEN y ELSE 0
      /\ y1 = IF y + h <= Height THEN y + h ELSE Height
  OBVIOUS
<1>2. RectRows(x, y, w, h) = IF none THEN {} ELSE {<<r * Stride + x0, x1 - x0>> : r \in y0 .. y1 - 1}
  BY Zenon DEF RectRows
<1> HIDE DEF x0, x1, y0, y1
<1>3. \A p \in Pixels : InRect(p, x, y, w, h) <=> ~none /\ p[2] \in y0 .. y1 - 1 /\ x0 <= p[1] /\ p[1] < x1
  BY <1>1 DEF InRect, Pixels
<1>4. x0 \in Int /\ x1 \in Int /\ y0 \in Int /\ y1 \in Int /\ 0 <= x0 /\ x1 <= Width
  BY <1>1
<1>5. CASE none
  <2>1. RectRows(x, y, w, h) = {<<r * Stride + 0, 0 - 0>> : r \in 0 .. 0 - 1}
    BY <1>2, <1>5
  <2>2. \A p \in Pixels : ~(p[2] \in 0 .. 0 - 1)
    OBVIOUS
  <2>3. 0 <= Width
    OBVIOUS
  <2> WITNESS 0 \in Int, 0 \in Int, 0 \in Int, 0 \in Int
  <2> QED BY <1>3, <1>5, <2>1, <2>2, <2>3
<1>6. CASE ~none
  <2> USE <1>4
  <2> WITNESS x0 \in Int, x1 \in Int, y0 \in Int, y1 \in Int
  <2> QED BY <1>2, <1>3, <1>4, <1>6
<1> QED BY <1>5, <1>6, Zenon

\* The cells draw_rect_to writes are those of the rectangle's pixels, and no other pixel's.
LEMMA RectExact ==
  ASSUME NEW p \in Pixels, NEW x \in Int, NEW y \in Int, NEW w \in Int, NEW h \in Int
  PROVE  /\ Cell(p) \in RectCells(x, y, w, h) <=> InRect(p, x, y, w, h)
         /\ Cell(p) \in PresentCells(x, y, w, h) <=> InRect(p, x, y, w, h)
<1> USE GfxAssumption
<1>1. PICK x0, x1, y0, y1 \in Int :
           /\ 0 <= x0 /\ x1 <= Width
           /\ RectRows(x, y, w, h) = {<<r * Stride + x0, x1 - x0>> : r \in y0 .. y1 - 1}
           /\ y0 < y1 => x0 < x1
           /\ InRect(p, x, y, w, h) <=> p[2] \in y0 .. y1 - 1 /\ x0 <= p[1] /\ p[1] < x1
  BY RowsOf, Zenon
<1>2. p \in Int \X Int /\ p[1] \in 0 .. Width - 1
  BY DEF Pixels
<1> DEFINE row(r) == <<r * Stride + x0, x1 - x0>>
           seg(q) == IF q[2] = Width THEN q[1] .. q[1] + Stride - 1 ELSE q[1] .. q[1] + q[2] - 1
<1>a. \A r \in y0 .. y1 - 1 : row(r)[1] = r * Stride + x0 /\ row(r)[2] = x1 - x0
  BY Zenon
<1>b. RectRows(x, y, w, h) = {row(r) : r \in y0 .. y1 - 1}
  BY <1>1, Zenon
<1>c. RectCells(x, y, w, h) = UNION {RowCells(q[1], q[2]) : q \in RectRows(x, y, w, h)}
  BY Zenon DEF RectCells
<1>d. PresentCells(x, y, w, h) = UNION {seg(q) : q \in RectRows(x, y, w, h)}
  BY Zenon DEF PresentCells
<1> HIDE DEF row, seg
<1>3. Cell(p) \in RectCells(x, y, w, h) <=> \E r \in y0 .. y1 - 1 : Cell(p) \in RowCells(row(r)[1], row(r)[2])
  BY <1>b, <1>c, Zenon
<1>4. Cell(p) \in PresentCells(x, y, w, h) <=> \E r \in y0 .. y1 - 1 : Cell(p) \in seg(row(r))
  BY <1>b, <1>d, Zenon
<1>5. ASSUME NEW r \in y0 .. y1 - 1
      PROVE  /\ Cell(p) \in RowCells(r * Stride + x0, x1 - x0) <=> p[2] = r /\ x0 <= p[1] /\ p[1] < x1
             /\ Cell(p) \in (IF x1 - x0 = Width THEN r * Stride + x0 .. r * Stride + x0 + Stride - 1
                                          ELSE r * Stride + x0 .. r * Stride + x0 + (x1 - x0) - 1)
                <=> p[2] = r /\ x0 <= p[1] /\ p[1] < x1
  <2>1. r \in Int /\ r * Stride \in Int /\ r * Stride + x0 \in Int /\ x1 - x0 \in Nat /\ x0 + (x1 - x0) = x1 /\ x0 + (x1 - x0) <= Stride
    BY <1>1
  <2>2. RowCells(r * Stride + x0, x1 - x0) = r * Stride + x0 .. r * Stride + x0 + (x1 - x0) - 1
    BY <2>1, RowIsRange, Zenon
  <2>3. Cell(p) \in r * Stride + x0 .. r * Stride + x0 + (x1 - x0) - 1 <=> p[2] = r /\ x0 <= p[1] /\ p[1] < x0 + (x1 - x0)
    <3>1. x0 \in Int /\ x1 - x0 \in Int /\ x0 >= 0
      BY <1>1
    <3>2. ASSUME NEW n \in Int, x0 + n <= Stride
          PROVE  Cell(p) \in r * Stride + x0 .. r * Stride + x0 + n - 1 <=> p[2] = r /\ x0 <= p[1] /\ p[1] < x0 + n
      BY <1>2, <2>1, <3>1, <3>2, CellInRow, Zenon
    <3> QED BY <2>1, <3>1, <3>2, Zenon
  <2>4. CASE x1 - x0 = Width
    <3>1. x0 = 0 /\ x1 = Width
      BY <1>1, <2>4
    <3>2. Cell(p) \in r * Stride + x0 .. r * Stride + x0 + Stride - 1 <=> p[2] = r /\ x0 <= p[1] /\ p[1] < x0 + Stride
      <4>1. x0 \in Int /\ Stride \in Int /\ x0 >= 0 /\ x0 + Stride <= Stride
        BY <3>1
      <4> QED BY <1>2, <2>1, <4>1, CellInRow, Zenon
    <3>3. p[1] < x0 + Stride /\ p[1] < x1
      BY <1>2, <3>1
    <3> QED BY <2>1, <2>2, <2>3, <2>4, <3>2, <3>3, Zenon
  <2> QED BY <2>1, <2>2, <2>3, <2>4, Zenon
<1> DEFINE drawn(r) == Cell(p) \in RowCells(row(r)[1], row(r)[2])  shownby(r) == Cell(p) \in seg(row(r))
           here(r) == p[2] = r /\ x0 <= p[1] /\ p[1] < x1
<1>6a. \A r \in y0 .. y1 - 1 : (drawn(r) <=> here(r)) /\ (shownby(r) <=> here(r))
  BY <1>5, <1>a, Zenon DEF seg
<1>3a. Cell(p) \in RectCells(x, y, w, h) <=> \E r \in y0 .. y1 - 1 : drawn(r)
  BY <1>3, Zenon
<1>4a. Cell(p) \in PresentCells(x, y, w, h) <=> \E r \in y0 .. y1 - 1 : shownby(r)
  BY <1>4, Zenon
<1>7. p[2] \in y0 .. y1 - 1 /\ x0 <= p[1] /\ p[1] < x1 <=> \E r \in y0 .. y1 - 1 : here(r)
  BY Zenon
<1> HIDE DEF drawn, shownby, here
<1>8. Cell(p) \in RectCells(x, y, w, h) <=> \E r \in y0 .. y1 - 1 : here(r)
  BY <1>3a, <1>6a, Zenon
<1>9. Cell(p) \in PresentCells(x, y, w, h) <=> \E r \in y0 .. y1 - 1 : here(r)
  BY <1>4a, <1>6a, Zenon
<1> QED BY <1>1, <1>7, <1>8, <1>9, Zenon

LEMMA ClearExact == ASSUME NEW p \in Pixels PROVE Cell(p) \in UNION {RowCells(r * Stride, Width) : r \in 0 .. Height - 1}
<1> USE GfxAssumption
<1>1. p \in Int \X Int /\ p[1] \in 0 .. Width - 1 /\ p[2] \in 0 .. Height - 1 /\ p[2] * Stride \in Int
  BY DEF Pixels
<1>2. RowCells(p[2] * Stride, Width) = p[2] * Stride .. p[2] * Stride + Width - 1
  BY <1>1, RowIsRange, Zenon
<1>3. Cell(p) \in RowCells(p[2] * Stride, Width)
  BY <1>1, <1>2 DEF Cell
<1> QED BY <1>1, <1>3, Zenon

LEMMA CellOfOne ==
  ASSUME NEW p \in Pixels, NEW q \in Pixels, Cell(p) = Cell(q)
  PROVE  p = q
<1> USE GfxAssumption
<1>1. p \in Int \X Int /\ p[1] \in 0 .. Width - 1 /\ q \in Int \X Int /\ q[1] \in 0 .. Width - 1 /\ q[2] \in Int
      /\ q[1] \in Int /\ q[1] >= 0 /\ q[1] + 1 <= Stride
  BY DEF Pixels
<1>2. p[2] * Stride \in Int /\ q[2] * Stride \in Int /\ p[2] * Stride + p[1] = q[2] * Stride + q[1]
  BY <1>1 DEF Cell
<1>3. ~(p[2] < q[2]) /\ ~(q[2] < p[2])
  <2>1. p[2] < q[2] => p[2] * Stride + Stride <= q[2] * Stride
    BY <1>1, RowsApart, Zenon
  <2>2. q[2] < p[2] => q[2] * Stride + Stride <= p[2] * Stride
    BY <1>1, RowsApart, Zenon
  <2> QED BY <1>1, <1>2, <2>1, <2>2
<1>4. p[1] = q[1] /\ p[2] = q[2]
  BY <1>1, <1>2, <1>3
<1> QED BY <1>1, <1>4

\* A step that draws keeps the picture if its cells and its pixels are the same.
LEMMA PaintExact ==
  ASSUME PictureExact, NEW cells, NEW pixels, NEW color, Paint(cells, pixels, color),
         \A p \in Pixels : Cell(p) \in cells <=> p \in pixels
  PROVE  PictureExact'
<1> SUFFICES ASSUME NEW p \in Pixels
             PROVE  /\ front'[Cell(p)] = shown'[p]
                    /\ IF direct' THEN front'[Cell(p)] = want'[p] ELSE back'[Cell(p)] = want'[p]
  BY Zenon DEF PictureExact, Pixels, Cell
<1>1. Cell(p) \in Cells
  BY PixelCell, Zenon
<1> QED BY <1>1, Zenon DEF PictureExact, Paint, Painted, Pictured

LEMMA CharExact ==
  ASSUME PictureExact, NEW g \in Glyphs, NEW x \in Int, NEW y \in Int, NEW color, NEW clip, gfx_draw_char(g, x, y, color, clip)
  PROVE  PictureExact'
<1> USE GfxAssumption
<1> DEFINE points == {<<x + d[1], y + d[2]>> : d \in g}
           clipped(p) == InRect(p, clip[1], clip[2], clip[3], clip[4])
           inside == {p \in points : clipped(p) /\ OnScreen(p[1], p[2])}
<1>1. ASSUME NEW p \in points PROVE OnScreen(p[1], p[2]) <=> p \in Pixels
  <2>1. PICK d \in g : p = <<x + d[1], y + d[2]>>
    BY Zenon
  <2>2. d \in Int \X Int
    BY Zenon
  <2>3. p[1] \in Int /\ p[2] \in Int /\ p = <<p[1], p[2]>>
    BY <2>1, <2>2
  <2> QED BY <2>3 DEF OnScreen, Pixels
<1>2. inside = {p \in points \cap Pixels : clipped(p)}
  BY <1>1, Zenon
<1>3. \A p \in Pixels : Cell(p) \in {Cell(q) : q \in inside} <=> p \in inside
  <2> HIDE DEF points, clipped
  <2> QED BY <1>2, CellOfOne, Zenon
<1>4. Paint({Cell(p) : p \in inside}, {p \in points \cap Pixels : clipped(p)}, color)
  BY Zenon DEF gfx_draw_char
<1> HIDE DEF inside, points, clipped
<1> QED BY <1>2, <1>3, <1>4, PaintExact, Zenon

\* For every screen, row length, glyph, position and size: the screen shows what was asked.
THEOREM PictureExactHolds == GfxSpec => []PictureExact
<1> USE GfxAssumption
<1>1. GfxInit => PictureExact
  BY PixelCell, Zenon DEF GfxInit, PictureExact
<1>2. PictureExact /\ [GfxNext]_gfxVars => PictureExact'
  <2> SUFFICES ASSUME PictureExact, [GfxNext]_gfxVars PROVE PictureExact'
    BY Zenon
  <2>1. ASSUME NEW x \in Coords, NEW y \in Coords, NEW w \in Spans, NEW h \in Spans, NEW k \in Colors, gfx_draw_rect(x, y, w, h, k)
        PROVE  PictureExact'
    <3>1. \A p \in Pixels : Cell(p) \in RectCells(x, y, w, h) <=> p \in {q \in Pixels : InRect(q, x, y, w, h)}
      BY RectExact, Zenon
    <3> QED BY <2>1, <3>1, PaintExact, Zenon DEF gfx_draw_rect
  <2>2. ASSUME NEW x \in Coords, NEW y \in Coords, NEW w \in Spans, NEW h \in Spans, NEW k \in Colors, gfx_draw_rect_front(x, y, w, h, k)
        PROVE  PictureExact'
    <3>1. \A p \in Pixels : Cell(p) \in Cells /\ (Cell(p) \in RectCells(x, y, w, h) <=> InRect(p, x, y, w, h))
      BY RectExact, PixelCell, Zenon
    <3> QED BY <2>2, <3>1, Zenon DEF gfx_draw_rect_front, PictureExact, Painted, Pictured
  <2>3. ASSUME NEW x \in Coords, NEW y \in Coords, NEW w \in Spans, NEW h \in Spans, gfx_present_rect(x, y, w, h)
        PROVE  PictureExact'
    <3>1. \A p \in Pixels : Cell(p) \in Cells /\ (Cell(p) \in PresentCells(x, y, w, h) <=> InRect(p, x, y, w, h))
      BY RectExact, PixelCell, Zenon
    <3> QED BY <2>3, <3>1, Zenon DEF gfx_present_rect, PictureExact
  <2>4. ASSUME NEW x \in Coords, NEW y \in Coords, NEW g \in Glyphs, NEW k \in Colors, NEW clip, gfx_draw_char(g, x, y, k, clip)
        PROVE  PictureExact'
    BY <2>4, CharExact, Zenon
  <2>5. ASSUME NEW k \in Colors, gfx_clear(k) PROVE PictureExact'
    <3>1. \A p \in Pixels : Cell(p) \in UNION {RowCells(r * Stride, Width) : r \in 0 .. Height - 1} <=> p \in Pixels
      BY ClearExact, Zenon
    <3> QED BY <2>5, <3>1, PaintExact, Zenon DEF gfx_clear
  <2>6. CASE Enable
    BY <2>6, PixelCell, Zenon DEF Enable, PictureExact
  <2>7. CASE Disable \/ gfx_present \/ UNCHANGED gfxVars
    BY <2>7 DEF Disable, gfx_present, gfxVars, PictureExact
  <2> QED BY <2>1, <2>2, <2>3, <2>4, <2>5, <2>6, <2>7 DEF GfxNext
<1> QED BY <1>1, <1>2, PTL DEF GfxSpec

-----------------------------------------------------------------------------
(* NetServices: what is on the wire says only what its sender knows, an address once
   bound stays, and the result of a lookup is that of the last name asked for. *)

\* What a frame for this machine can be: an offer or an acknowledgement with the server's
\* lease, or an answer to a question that was asked.
Frame(m, asked) ==
  \/ \E s \in Servers : m = Msg("offer", s, Lease[s]) \/ m = Msg("ack", s, Lease[s])
  \/ \E t \in 1 .. Len(asked) : \E ip \in {Zone[asked[t]], -1} : m = Msg("answer", t, ip)
\* What this machine has sent: a question that was asked, or a claim of the address in use.
Sent(m, asked, own) ==
  /\ m.kind = "query" => m.body \in 1 .. Len(asked) /\ m.who = asked[m.body]
  /\ m.kind = "claim" => own # 0 /\ m.body = own

Local == [ip : Nat, gateway : Nat, dns : Nat]
TypeOK ==
  /\ queries \in Seq(Hosts) /\ local \in Local
  /\ dhcp_state \in {"INIT", "DISCOVER_SENT", "REQUEST_SENT", "BOUND"}
  /\ dns \in [pending : BOOLEAN, txid : Nat, result : Int, caller : {"idle", "waiting"}]
  /\ arp_cache \in Seq([ip : OnLink, mac : UNION {Mac[a] : a \in OnLink}])
  /\ lastReply \in [OnLink -> {"none"} \cup UNION {Mac[a] : a \in OnLink}]

FramesTrue == \A m \in toUs : Frame(m, queries)
SentTrue == \A m \in toNet : Sent(m, queries, local.ip)
\* An address is in use only in the last state of the client, which it never leaves.
AddressKept == local.ip # 0 => dhcp_state = "BOUND"
Granted ==
  local.ip # 0 =>
    \E s \in Servers : /\ Msg("ack", s, Lease[s]) \in toUs
                       /\ local.ip = Lease[s].ip /\ local.gateway = Lease[s].gateway
                       /\ local.dns \in {Lease[s].dns, PublicDns}
\* A lookup waits for the last name asked for, and has its address or none.
LookupTrue ==
  /\ dns.txid = Len(queries)
  /\ dns.caller = "waiting" \/ dns.pending \/ dns.result # 0 => Len(queries) > 0
  /\ dns.result # 0 => dns.result = Zone[queries[Len(queries)]]
AnswerTrue == answer.ip # 0 => answer.ip = Zone[answer.host]
CacheTrue ==
  /\ \A i, j \in DOMAIN arp_cache : arp_cache[i].ip = arp_cache[j].ip => i = j
  /\ \A i \in DOMAIN arp_cache : arp_cache[i].mac = lastReply[arp_cache[i].ip]

IInv == TypeOK /\ FramesTrue /\ SentTrue /\ AddressKept /\ Granted /\ LookupTrue /\ AnswerTrue /\ CacheTrue

-----------------------------------------------------------------------------
\* What was true of the wire stays true when another name is asked for.
LEMMA AskedMore ==
  ASSUME NEW q \in Seq(Hosts), NEW h \in Hosts, NEW m, NEW own
  PROVE  /\ Frame(m, q) => Frame(m, Append(q, h))
         /\ Sent(m, q, own) => Sent(m, Append(q, h), own)
<1> DEFINE r == Append(q, h)
<1>1. Len(r) = Len(q) + 1 /\ Len(q) \in Nat /\ \A t \in 1 .. Len(q) : t \in 1 .. Len(r) /\ r[t] = q[t]
  OBVIOUS
<1> HIDE DEF r
<1>2. Frame(m, q) => Frame(m, r)
  <2>1. CASE \E s \in Servers : m = Msg("offer", s, Lease[s]) \/ m = Msg("ack", s, Lease[s])
    BY <2>1, Zenon DEF Frame
  <2>2. ASSUME NEW t \in 1 .. Len(q), NEW ip \in {Zone[q[t]], -1}, m = Msg("answer", t, ip)  PROVE Frame(m, r)
    BY <1>1, <2>2, Zenon DEF Frame
  <2> QED BY <2>1, <2>2, Zenon DEF Frame
<1>3. Sent(m, q, own) => Sent(m, r, own)
  BY <1>1, Zenon DEF Sent
<1> QED BY <1>2, <1>3, Zenon DEF r

\* What dhcp and arp leave alone.
Lookups == <<dns, answer, queries>>
Cache == <<arp_cache, lastReply>>

\* A step that only adds to what is sent.
LEMMA TransmitAdds ==
  ASSUME NEW M, Transmit(M)
  PROVE  toNet' \subseteq toNet \cup M
BY Zenon DEF Transmit

LEMMA OverheardIs == Overheard.kind = "other ack"
BY Zenon DEF Overheard, Msg

LEMMA InitIInv == Init => IInv
<1> SUFFICES ASSUME Init PROVE IInv
  OBVIOUS
<1> USE DEF Init
<1>1. TypeOK
  BY DEF TypeOK, Local, None
<1>2. FramesTrue /\ AddressKept /\ Granted
  BY Zenon DEF FramesTrue, AddressKept, Granted, None
<1>3. SentTrue
  BY DEF SentTrue, Sent, Discover, Msg
<1>4. LookupTrue /\ AnswerTrue /\ CacheTrue
  BY DEF LookupTrue, AnswerTrue, CacheTrue
<1> QED BY <1>1, <1>2, <1>3, <1>4, Zenon DEF IInv

\* The steps of the DHCP client.
LEMMA DhcpKeeps ==
  ASSUME IInv, NEW m \in toUs \cup {Overheard}, HandleOffer(m) \/ HandleAck(m) \/ net_poll_dhcp
  PROVE  IInv'
<1> USE NetAssumption DEF IInv
<1>0. UNCHANGED <<arp_cache, dns, answer, queries, toUs, lastReply>>
  BY Zenon DEF HandleOffer, HandleAck, net_poll_dhcp
<1>1. CASE HandleAck(m)
  <2> USE <1>1 DEF HandleAck
  <2>1. PICK s \in Servers : m = Msg("ack", s, Lease[s]) /\ m \in toUs
    <3>0. m.kind = "ack"
      BY Zenon DEF OurXid
    <3>1. m.kind = "ack" /\ m # Overheard
      BY <3>0, OverheardIs, Zenon
    <3>2. Frame(m, queries)
      BY <3>1, Zenon DEF FramesTrue
    <3> QED BY <3>1, <3>2 DEF Frame, Msg
  <2>2. local' = Lease[s] /\ dhcp_state' = "BOUND" /\ toNet' = toNet /\ local.ip = 0
    BY <2>1, Zenon DEF Msg, AddressKept
  <2>3. TypeOK'
    <3>1. local' \in Local
      BY <2>2, Zenon DEF Local
    <3> HIDE DEF HandleAck
    <3> QED BY <3>1, <2>2, <1>0, Zenon DEF TypeOK
  <2>4. SentTrue'
    BY <2>2, <1>0, Zenon DEF SentTrue, Sent
  <2>5. Granted'
    BY <2>1, <2>2, <1>0, Zenon DEF Granted
  <2>6. FramesTrue' /\ AddressKept'
    BY <2>2, <1>0, Zenon DEF FramesTrue, AddressKept
  <2>7. LookupTrue' /\ AnswerTrue' /\ CacheTrue'
    BY <1>0, Zenon DEF LookupTrue, AnswerTrue, CacheTrue
  <2> QED BY <2>3, <2>4, <2>5, <2>6, <2>7, Zenon
<1>2. CASE HandleOffer(m) \/ net_poll_dhcp
  <2>1. local' = local /\ dhcp_state # "BOUND" /\ dhcp_state' \in {"DISCOVER_SENT", "REQUEST_SENT"}
    BY <1>2, Zenon DEF HandleOffer, net_poll_dhcp, Unanswered, dhcp_send_request, dhcp_send_discover
  <2>2. \A n \in toNet' : n \in toNet \/ n.kind \in {"request", "discover"}
    <3>1. CASE HandleOffer(m)
      <4>1. Transmit({Msg("request", m.who, m.body.ip)})
        BY <3>1, Zenon DEF HandleOffer, dhcp_send_request
      <4> QED BY <4>1, TransmitAdds DEF Msg
    <3>2. CASE net_poll_dhcp
      <4>1. Transmit({Discover})
        BY <3>2, Zenon DEF net_poll_dhcp, dhcp_send_discover
      <4> QED BY <4>1, TransmitAdds DEF Msg, Discover
    <3> QED BY <1>2, <3>1, <3>2, Zenon
  <2>3. TypeOK'
    BY <2>1, <1>0, Zenon DEF TypeOK
  <2>4. SentTrue'
    BY <2>1, <2>2, <1>0, Zenon DEF SentTrue, Sent
  <2>5. Granted' /\ AddressKept' /\ FramesTrue'
    BY <2>1, <1>0, Zenon DEF Granted, AddressKept, FramesTrue
  <2>7. LookupTrue' /\ AnswerTrue' /\ CacheTrue'
    BY <1>0, Zenon DEF LookupTrue, AnswerTrue, CacheTrue
  <2> QED BY <2>3, <2>4, <2>5, <2>7, Zenon
<1> QED BY <1>1, <1>2, Zenon

\* What others send.
LEMMA EnvironmentKeeps == IInv /\ Environment => IInv'
<1> SUFFICES ASSUME IInv, Environment PROVE IInv'
  BY Zenon
<1> USE NetAssumption DEF IInv
<1>0. UNCHANGED <<card, dhcp_state, offer, local, arp_cache, dns, answer, queries, toNet, lastReply>>
  BY Zenon DEF Environment, ServerOffers, ServerAcks, NameServerAnswers
<1>1. toUs \subseteq toUs' /\ \A n \in toUs' : n \in toUs \/ Frame(n, queries)
  <2>1. ASSUME NEW s \in Servers, ServerOffers(s) \/ ServerAcks(s)
        PROVE  toUs \subseteq toUs' /\ \A n \in toUs' : n \in toUs \/ Frame(n, queries)
    BY <2>1, Zenon DEF ServerOffers, ServerAcks, Frame
  <2>2. ASSUME NEW m \in toNet, NameServerAnswers(m)
        PROVE  toUs \subseteq toUs' /\ \A n \in toUs' : n \in toUs \/ Frame(n, queries)
    <3>1. m.body \in 1 .. Len(queries) /\ m.who = queries[m.body]
      BY <2>2, Zenon DEF NameServerAnswers, SentTrue, Sent
    <3>2. PICK ip \in {Zone[m.who], -1} : toUs' = toUs \cup {Msg("answer", m.body, ip)}
      BY <2>2, Zenon DEF NameServerAnswers
    <3>3. Frame(Msg("answer", m.body, ip), queries)
      BY <3>1, <3>2, Zenon DEF Frame
    <3> QED BY <3>2, <3>3, Zenon
  <2> QED BY <2>1, <2>2, Zenon DEF Environment
<1>2. TypeOK' /\ SentTrue' /\ AddressKept'
  BY <1>0, Zenon DEF TypeOK, SentTrue, AddressKept
<1>3. FramesTrue' /\ Granted'
  BY <1>0, <1>1, Zenon DEF FramesTrue, Granted
<1>4. LookupTrue' /\ AnswerTrue' /\ CacheTrue'
  BY <1>0, Zenon DEF LookupTrue, AnswerTrue, CacheTrue
<1> QED BY <1>2, <1>3, <1>4, Zenon

\* An ARP request.
LEMMA ArpRequestKeeps ==
  ASSUME IInv, NEW ip, HandleArpRequest(ip)
  PROVE  IInv'
<1> USE NetAssumption DEF IInv
<1>0. UNCHANGED <<dhcp_state, offer, local, arp_cache, dns, answer, queries, toUs, lastReply>>
  BY Zenon DEF HandleArpRequest
<1>1. ip = local.ip /\ local.ip # 0 /\ \A n \in toNet' : n \in toNet \/ n = Msg("claim", "us", ip)
  BY TransmitAdds, Zenon DEF HandleArpRequest, AsksForUs
<1>2. SentTrue'
  BY <1>0, <1>1 DEF SentTrue, Sent, Msg
<1>3. TypeOK' /\ AddressKept' /\ FramesTrue' /\ Granted'
  BY <1>0, Zenon DEF TypeOK, AddressKept, FramesTrue, Granted
<1>4. LookupTrue' /\ AnswerTrue' /\ CacheTrue'
  BY <1>0, Zenon DEF LookupTrue, AnswerTrue, CacheTrue
<1> QED BY <1>2, <1>3, <1>4, Zenon

\* An ARP reply: its entry is the only one for its address, and the others are as they were.
LEMMA ArpReplyKeeps ==
  ASSUME IInv, NEW ip \in OnLink, NEW mac \in Mac[ip], HandleArpReply(ip, mac)
  PROVE  IInv'
<1> USE NetAssumption DEF IInv
<1> DEFINE e == [ip |-> ip, mac |-> mac]
           Entries == [ip : OnLink, mac : UNION {Mac[a] : a \in OnLink}]
<1>0. UNCHANGED <<card, dhcp_state, offer, local, dns, answer, queries, toNet, toUs>>
  BY Zenon DEF HandleArpReply
<1>1. e \in Entries /\ e.ip = ip /\ e.mac = mac
  BY Zenon
<1>2. arp_cache \in Seq(Entries) /\ \A i \in DOMAIN arp_cache : arp_cache[i].ip \in OnLink
  <2>1. arp_cache \in Seq(Entries)
    BY Zenon DEF TypeOK
  <2>2. \A f \in Entries : f.ip \in OnLink
    BY Zenon
  <2> HIDE DEF Entries
  <2>3. \A i \in DOMAIN arp_cache : arp_cache[i] \in Entries
    BY <2>1
  <2> QED BY <2>1, <2>2, <2>3, Zenon
<1>3. lastReply' = [lastReply EXCEPT ![ip] = mac] /\ lastReply \in [OnLink -> {"none"} \cup UNION {Mac[a] : a \in OnLink}]
  BY Zenon DEF HandleArpReply, TypeOK
<1> HIDE DEF e, Entries
<1>4. \/ \E i \in DOMAIN arp_cache : arp_cache' = [arp_cache EXCEPT ![i] = e] /\ \A j \in DOMAIN arp_cache : arp_cache[j].ip = ip => j = i
      \/ arp_cache' = Append(arp_cache, e) /\ \A j \in DOMAIN arp_cache : arp_cache[j].ip # ip
  <2>1. arp_cache' = Updated(ip, mac)
    BY Zenon DEF HandleArpReply
  <2>2. CASE SlotOf(ip) # {}
    <3>1. PICK k \in SlotOf(ip) : TRUE
      BY <2>2, Zenon
    <3>2. k \in DOMAIN arp_cache /\ SlotOf(ip) = {k} /\ k \in Int
      BY <3>1, <1>2 DEF SlotOf, CacheTrue
    <3>3. (CHOOSE i \in SlotOf(ip) : \A j \in SlotOf(ip) : i <= j) = k
      BY <3>2
    <3>4. arp_cache' = [arp_cache EXCEPT ![k] = e]
      BY <2>1, <2>2, <3>3, Zenon DEF Updated, e
    <3>5. \A j \in DOMAIN arp_cache : arp_cache[j].ip = ip => j = k
      BY <3>2, Zenon DEF SlotOf
    <3> QED BY <3>2, <3>4, <3>5, Zenon
  <2>3. CASE SlotOf(ip) = {} /\ Len(arp_cache) < ARP_CACHE_SIZE
    BY <2>1, <2>3, Zenon DEF Updated, e, SlotOf
  <2>4. CASE SlotOf(ip) = {} /\ ~(Len(arp_cache) < ARP_CACHE_SIZE)
    <3>1. 1 \in DOMAIN arp_cache
      BY <2>4, <1>2
    <3>2. arp_cache' = [arp_cache EXCEPT ![1] = e]
      BY <2>1, <2>4, Zenon DEF Updated, e
    <3> QED BY <3>1, <3>2, <2>4, Zenon DEF SlotOf
  <2> QED BY <2>2, <2>3, <2>4, Zenon
<1>5. arp_cache' \in Seq(Entries) /\ CacheTrue'
  <2>1. ASSUME NEW i \in DOMAIN arp_cache, arp_cache' = [arp_cache EXCEPT ![i] = e],
               \A j \in DOMAIN arp_cache : arp_cache[j].ip = ip => j = i
        PROVE  arp_cache' \in Seq(Entries) /\ CacheTrue'
    <3>1. arp_cache' \in Seq(Entries) /\ DOMAIN arp_cache' = DOMAIN arp_cache
      BY <2>1, <1>1, <1>2
    <3>2. arp_cache'[i] = e /\ \A j \in DOMAIN arp_cache : j # i => arp_cache'[j] = arp_cache[j] /\ arp_cache[j].ip # ip
      BY <2>1, <1>2, Zenon
    <3>3. \A j, k \in DOMAIN arp_cache' : arp_cache'[j].ip = arp_cache'[k].ip => j = k
      BY <3>1, <3>2, <1>1, Zenon DEF CacheTrue
    <3>4. \A j \in DOMAIN arp_cache' : arp_cache'[j].mac = lastReply'[arp_cache'[j].ip]
      BY <3>1, <3>2, <1>1, <1>2, <1>3, SMTT(30) DEF CacheTrue
    <3> QED BY <3>1, <3>3, <3>4, Zenon DEF CacheTrue
  <2>2. ASSUME arp_cache' = Append(arp_cache, e), \A j \in DOMAIN arp_cache : arp_cache[j].ip # ip
        PROVE  arp_cache' \in Seq(Entries) /\ CacheTrue'
    <3> DEFINE n == Len(arp_cache) + 1
    <3>1. arp_cache' \in Seq(Entries) /\ DOMAIN arp_cache' = 1 .. n /\ DOMAIN arp_cache = 1 .. n - 1 /\ n \in Nat \ {0}
      BY <2>2, <1>1, <1>2, SMTT(30)
    <3>2. arp_cache'[n] = e /\ \A j \in 1 .. n - 1 : arp_cache'[j] = arp_cache[j]
      BY <2>2, <1>2
    <3> HIDE DEF n
    <3>3. \A j, k \in 1 .. n : arp_cache'[j].ip = arp_cache'[k].ip => j = k
      <4> SUFFICES ASSUME NEW j \in 1 .. n, NEW k \in 1 .. n, arp_cache'[j].ip = arp_cache'[k].ip  PROVE j = k
        BY Zenon
      <4>1. CASE j \in 1 .. n - 1 /\ k \in 1 .. n - 1
        <5>1. arp_cache[j].ip = arp_cache[k].ip /\ j \in DOMAIN arp_cache /\ k \in DOMAIN arp_cache
          BY <4>1, <3>1, <3>2, Zenon
        <5> QED BY <5>1, Zenon DEF CacheTrue
      <4>2. CASE j = n \/ k = n
        <5>1. \A l \in 1 .. n - 1 : arp_cache'[l].ip # ip
          BY <3>1, <3>2, <2>2, Zenon
        <5> QED BY <5>1, <4>2, <3>1, <3>2, <1>1, SMTT(30)
      <4> QED BY <4>1, <4>2, <3>1, SMTT(30)
    <3>4. \A j \in 1 .. n : arp_cache'[j].mac = lastReply'[arp_cache'[j].ip]
      <4> SUFFICES ASSUME NEW j \in 1 .. n PROVE arp_cache'[j].mac = lastReply'[arp_cache'[j].ip]
        BY Zenon
      <4>1. CASE j = n
        BY <4>1, <3>2, <1>1, <1>3, Zenon
      <4>2. CASE j \in 1 .. n - 1
        <5>1. j \in DOMAIN arp_cache /\ arp_cache'[j] = arp_cache[j]
          BY <4>2, <3>1, <3>2, Zenon
        <5>2. arp_cache[j].ip \in OnLink /\ arp_cache[j].ip # ip /\ arp_cache[j].mac = lastReply[arp_cache[j].ip]
          BY <5>1, <2>2, <1>2, Zenon DEF CacheTrue
        <5>3. lastReply'[arp_cache[j].ip] = lastReply[arp_cache[j].ip]
          BY <5>2, <1>3, Zenon
        <5> QED BY <5>1, <5>2, <5>3, Zenon
      <4> QED BY <4>1, <4>2, <3>1
    <3> QED BY <3>1, <3>3, <3>4, Zenon DEF CacheTrue
  <2> QED BY <1>4, <2>1, <2>2, Zenon
<1>6. TypeOK'
  <2>1. lastReply' \in [OnLink -> {"none"} \cup UNION {Mac[a] : a \in OnLink}]
    BY <1>3, Zenon
  <2> QED BY <2>1, <1>0, <1>5, Zenon DEF TypeOK, Entries
<1>7. FramesTrue' /\ SentTrue' /\ AddressKept' /\ Granted' /\ LookupTrue' /\ AnswerTrue'
  BY <1>0, Zenon DEF FramesTrue, SentTrue, AddressKept, Granted, LookupTrue, AnswerTrue
<1> QED BY <1>5, <1>6, <1>7, Zenon

\* Asking for a name.
LEMMA AskKeeps ==
  ASSUME IInv, NEW h \in Hosts, net_dns_resolve(h)
  PROVE  IInv'
<1> USE NetAssumption DEF IInv
<1> DEFINE server == IF local.dns = 0 THEN PublicDns ELSE local.dns
<1>0. UNCHANGED <<dhcp_state, offer, arp_cache, answer, toUs, lastReply>>
  BY Zenon DEF net_dns_resolve
<1>1. /\ local' = [local EXCEPT !.dns = server] /\ queries' = Append(queries, h)
      /\ dns' = [pending |-> TRUE, txid |-> Len(queries) + 1, result |-> 0, caller |-> "waiting"]
      /\ Send(server, Name(h))
  BY Zenon DEF net_dns_resolve
<1>2. local \in Local /\ queries \in Seq(Hosts)
  BY Zenon DEF TypeOK
<1>3. local' \in Local /\ local'.ip = local.ip /\ local'.gateway = local.gateway /\ local'.dns \in {local.dns, PublicDns}
  BY <1>1, <1>2, Zenon DEF Local, PublicDns
<1>4. /\ queries' \in Seq(Hosts) /\ Len(queries') = Len(queries) + 1 /\ Len(queries) \in Nat
      /\ queries'[Len(queries) + 1] = h
  BY <1>1, <1>2
<1>5. TypeOK'
  BY <1>0, <1>1, <1>3, <1>4 DEF TypeOK
<1>6. FramesTrue'
  <2> SUFFICES ASSUME NEW m \in toUs PROVE Frame(m, Append(queries, h))
    BY <1>0, <1>1, Zenon DEF FramesTrue, Frame
  <2> QED BY AskedMore, <1>2, Zenon DEF FramesTrue
<1>7. SentTrue'
  <2> SUFFICES ASSUME NEW m \in toNet' PROVE Sent(m, queries', local.ip)
    BY <1>3, Zenon DEF SentTrue, Sent
  <2>1. m \in toNet \/ m = Name(h)
    BY <1>1, TransmitAdds DEF Send
  <2>2. CASE m \in toNet
    <3>1. Sent(m, queries, local.ip)
      BY <2>2, Zenon DEF SentTrue
    <3> QED BY <3>1, AskedMore, <1>1, <1>2, Zenon
  <2>3. CASE m = Name(h)
    BY <2>3, <1>4 DEF Name, Msg, Sent
  <2> QED BY <2>1, <2>2, <2>3, Zenon
<1>8. AddressKept' /\ Granted'
  <2>1. AddressKept'
    BY <1>0, <1>3, Zenon DEF AddressKept
  <2>2. Granted'
    BY <1>0, <1>3, Zenon DEF Granted
  <2> QED BY <2>1, <2>2, Zenon
<1>9. LookupTrue' /\ AnswerTrue' /\ CacheTrue'
  <2>1. LookupTrue'
    BY <1>1, <1>4 DEF LookupTrue
  <2> QED BY <2>1, <1>0, Zenon DEF AnswerTrue, CacheTrue
<1> QED BY <1>5, <1>6, <1>7, <1>8, <1>9, Zenon

\* The end of a lookup.
LEMMA LookupKeeps ==
  ASSUME IInv, NEW m \in toUs \cup {Overheard}, HandleAnswer(m) \/ Resolved \/ GivesUp
  PROVE  IInv'
<1> USE NetAssumption DEF IInv
<1>0. UNCHANGED <<card, dhcp_state, offer, local, arp_cache, queries, toNet, toUs, lastReply>>
  BY Zenon DEF HandleAnswer, Resolved, GivesUp
<1>t. dns \in [pending : BOOLEAN, txid : Nat, result : Int, caller : {"idle", "waiting"}] /\ queries \in Seq(Hosts)
  BY Zenon DEF TypeOK
<1>1. FramesTrue' /\ SentTrue' /\ AddressKept' /\ Granted' /\ CacheTrue'
  BY <1>0, Zenon DEF FramesTrue, SentTrue, AddressKept, Granted, CacheTrue
<1>2. dns' \in [pending : BOOLEAN, txid : Nat, result : Int, caller : {"idle", "waiting"}] /\ LookupTrue' /\ AnswerTrue'
  <2>1. CASE HandleAnswer(m)
    <3>1. m.kind = "answer" /\ m.who = dns.txid /\ m.body # -1 /\ answer' = answer /\ dns.pending
          /\ dns' = [dns EXCEPT !.pending = FALSE, !.result = m.body]
      BY <2>1, Zenon DEF HandleAnswer, Matches
    <3>2. m \in toUs
      BY <3>1, OverheardIs, Zenon
    <3>3. PICK t \in 1 .. Len(queries) : \E ip \in {Zone[queries[t]], -1} : m = Msg("answer", t, ip)
      <4>1. Frame(m, queries)
        BY <3>2, Zenon DEF FramesTrue
      <4>2. \A s \in Servers : m # Msg("offer", s, Lease[s]) /\ m # Msg("ack", s, Lease[s])
        BY <3>1 DEF Msg
      <4> QED BY <4>1, <4>2, Zenon DEF Frame
    <3>4. m.body = Zone[queries[Len(queries)]] /\ m.body \in Int /\ Len(queries) > 0
      <4>1. t = Len(queries) /\ m.body \in {Zone[queries[t]], -1}
        BY <3>1, <3>3 DEF Msg, LookupTrue
      <4>2. queries[t] \in Hosts
        BY <3>3, <1>t
      <4> QED BY <4>1, <4>2, <3>1, <3>3, <1>t
    <3>5. dns'.pending = FALSE /\ dns'.result = m.body /\ dns'.txid = dns.txid /\ dns'.caller = dns.caller
      BY <3>1, <1>t, Zenon
    <3>6. dns' \in [pending : BOOLEAN, txid : Nat, result : Int, caller : {"idle", "waiting"}]
      BY <3>1, <3>4, <1>t, Zenon
    <3>7. LookupTrue'
      BY <3>4, <3>5, <1>0, Zenon DEF LookupTrue
    <3>8. AnswerTrue'
      BY <3>1, Zenon DEF AnswerTrue
    <3> QED BY <3>6, <3>7, <3>8, Zenon
  <2>2. CASE Resolved \/ GivesUp
    <3>1. dns.caller = "waiting" /\ dns' \in {[dns EXCEPT !.caller = "idle"], [dns EXCEPT !.caller = "idle", !.pending = FALSE]}
      BY <2>2, Zenon DEF Resolved, GivesUp
    <3>2. dns' \in [pending : BOOLEAN, txid : Nat, result : Int, caller : {"idle", "waiting"}]
      BY <3>1, <1>t
    <3>3. dns'.result = dns.result /\ dns'.txid = dns.txid /\ (dns'.pending => dns.pending)
      BY <3>1, <1>t, Zenon
    <3>4. LookupTrue'
      BY <3>1, <3>3, <1>0, Zenon DEF LookupTrue
    <3>5. AnswerTrue'
      <4>1. \/ answer' = [host |-> queries[Len(queries)], ip |-> 0]
            \/ answer' = [host |-> queries[Len(queries)], ip |-> dns.result] /\ dns.result # 0
        BY <2>2, Zenon DEF Resolved, GivesUp
      <4> QED BY <4>1 DEF AnswerTrue, LookupTrue
    <3> QED BY <3>2, <3>4, <3>5, Zenon
  <2> QED BY <2>1, <2>2, Zenon
<1>3. TypeOK'
  BY <1>0, <1>2, Zenon DEF TypeOK
<1> QED BY <1>1, <1>2, <1>3, Zenon

LEMMA StepIInv == IInv /\ [Next]_vars => IInv'
<1> SUFFICES ASSUME IInv, [Next]_vars PROVE IInv'
  BY Zenon
<1>1. ASSUME NEW m \in toUs \cup {Overheard}, HandleOffer(m) \/ HandleAck(m) \/ HandleAnswer(m) PROVE IInv'
  BY <1>1, DhcpKeeps, LookupKeeps, Zenon
<1>2. ASSUME NEW ip \in OnLink, NEW mac \in Mac[ip], HandleArpReply(ip, mac) PROVE IInv'
  BY <1>2, ArpReplyKeeps, Zenon
<1>3. ASSUME NEW s \in Servers, HandleArpRequest(Lease[s].ip) PROVE IInv'
  BY <1>3, ArpRequestKeeps, Zenon
<1>4. CASE net_poll_dhcp
  BY <1>4, DhcpKeeps, Zenon
<1>5. CASE Resolved \/ GivesUp
  BY <1>5, LookupKeeps, Zenon
<1>6. ASSUME NEW h \in Hosts, net_dns_resolve(h) PROVE IInv'
  BY <1>6, AskKeeps, Zenon
<1>7. CASE Environment
  BY <1>7, EnvironmentKeeps, Zenon
<1>8. CASE UNCHANGED vars
  BY <1>8 DEF vars, IInv, TypeOK, FramesTrue, SentTrue, AddressKept, Granted, LookupTrue, AnswerTrue, CacheTrue
<1> QED BY <1>1, <1>2, <1>3, <1>4, <1>5, <1>6, <1>7, <1>8, Zenon DEF Next, net_rx_frame

-----------------------------------------------------------------------------
LEMMA IInvHolds == Spec => []IInv
BY InitIInv, StepIInv, PTL DEF Spec

\* The address in use, with its gateway, is one that a server has acknowledged to this
\* machine, and the machine claims no other one in an ARP reply (dhcp_handle, arp_handle),
\* whatever the number of servers, and whichever messages are lost, late or doubled.
THEOREM LeaseGrantedHolds == Spec => []LeaseGranted
<1>1. IInv => LeaseGranted
  BY Zenon DEF IInv, Granted, SentTrue, Sent, LeaseGranted
<1> QED BY <1>1, IInvHolds, PTL

\* A name is resolved to its own address and never to a late answer for another one, and
\* the ARP cache has one entry for an address, the one of the last reply handled
\* (net_dns_resolve, dns_handle, arp_cache_update), for any number of names and any size
\* of the cache.
THEOREM AnswersBelongHolds == Spec => []AnswersBelong
<1>1. IInv => AnswersBelong
  BY Zenon DEF IInv, AnswerTrue, CacheTrue, AnswersBelong
<1> QED BY <1>1, IInvHolds, PTL
=============================================================================
