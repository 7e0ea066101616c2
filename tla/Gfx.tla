-------------------------------- MODULE Gfx --------------------------------
(***************************************************************************)
(* Drawing and presenting, src/drivers/gfx.c: two buffers of memory cells  *)
(* with fb_pitch / 4 cells to a row, of which fb_width are seen.  Beside   *)
(* them runs the picture a caller has in mind, pixel by pixel.  A          *)
(* character is a set of points in its cell; the font is not modelled.     *)
(***************************************************************************)
EXTENDS Integers

CONSTANTS
  Width, Height, Stride,   \* fb_width, fb_height, fb_pitch / 4
  Coords, Spans,           \* bound: where callers draw, and how wide and high
  Colors,
  Glyphs,                  \* sets of points <<dx, dy>>
  MaxOps

\* A row of memory has room for the pixels that are seen.
ASSUME GfxAssumption ==
  /\ Width \in Nat /\ Height \in Nat /\ Stride \in Nat /\ Width <= Stride
  /\ Coords \subseteq Int /\ Spans \subseteq Int
  /\ \A g \in Glyphs : g \subseteq Int \X Int

Junk == 0
Cells == 0 .. Stride * Height - 1
Pixels == (0 .. Width - 1) \X (0 .. Height - 1)
Cell(p) == p[2] * Stride + p[1]

VARIABLES
  back, front,    \* the memory of the two buffers
  direct,         \* draw_ptr is the frame buffer itself
  want, shown,    \* the pictures: drawn, and on the screen
  ops

gfxVars == <<back, front, direct, want, shown, ops>>

GfxInit ==
  /\ back = [c \in Cells |-> Junk] /\ front = [c \in Cells |-> Junk]
  /\ want = [p \in Pixels |-> Junk] /\ shown = [p \in Pixels |-> Junk]
  /\ direct = TRUE /\ ops = 0

\* Mutant: a row is drawn two cells at a time and no more.
RowCells_Even(at, n) == {at + i : i \in 0 .. 2 * (n \div 2) - 1}

\* A row of n cells: pairs, and the last one by itself when n is odd.
RowCells(at, n) ==
  {at + 2 * i : i \in 0 .. (n \div 2) - 1} \cup {at + 2 * i + 1 : i \in 0 .. (n \div 2) - 1}
    \cup (IF n % 2 = 1 THEN {at + n - 1} ELSE {})

\* The rows a rectangle has on the screen, as first cell and length.
RectRows(x, y, w, h) ==
  LET x0 == IF x < 0 THEN 0 ELSE x
      y0 == IF y < 0 THEN 0 ELSE y
      x1 == IF x + w > Width THEN Width ELSE x + w
      y1 == IF y + h > Height THEN Height ELSE y + h
  IN  IF w <= 0 \/ h <= 0 \/ x1 <= x0 \/ y1 <= y0 THEN {}
      ELSE {<<r * Stride + x0, x1 - x0>> : r \in y0 .. y1 - 1}

\* draw_rect_to
RectCells(x, y, w, h) == UNION {RowCells(r[1], r[2]) : r \in RectRows(x, y, w, h)}

Painted(mem, cells, color) == [c \in Cells |-> IF c \in cells THEN color ELSE mem[c]]
Pictured(pic, pixels, color) == [p \in Pixels |-> IF p \in pixels THEN color ELSE pic[p]]

\* Drawing goes to the back buffer, or to the screen at once.
Paint(cells, pixels, color) ==
  /\ ops < MaxOps /\ ops' = ops + 1
  /\ want' = Pictured(want, pixels, color)
  /\ IF direct
     THEN /\ front' = Painted(front, cells, color)
          /\ shown' = Pictured(shown, pixels, color)
          /\ back' = back
     ELSE back' = Painted(back, cells, color) /\ UNCHANGED <<front, shown>>
  /\ direct' = direct

InRect(p, x, y, w, h) == x <= p[1] /\ p[1] < x + w /\ y <= p[2] /\ p[2] < y + h

gfx_draw_rect(x, y, w, h, color) ==
  Paint(RectCells(x, y, w, h), {p \in Pixels : InRect(p, x, y, w, h)}, color)

\* draw_rect_to on fb_ptr, whatever is drawn to otherwise.
gfx_draw_rect_front(x, y, w, h, color) ==
  /\ ops < MaxOps /\ ops' = ops + 1
  /\ front' = Painted(front, RectCells(x, y, w, h), color)
  /\ shown' = Pictured(shown, {p \in Pixels : InRect(p, x, y, w, h)}, color)
  /\ want' = IF direct THEN shown' ELSE want
  /\ UNCHANGED <<back, direct>>

gfx_clear(color) == Paint(UNION {RowCells(r * Stride, Width) : r \in 0 .. Height - 1}, Pixels, color)

OnScreen(px, py) == px >= 0 /\ py >= 0 /\ px < Width /\ py < Height

\* gfx_draw_char_clipped; a point outside the screen would be another cell.
gfx_draw_char(g, x, y, color, clip) ==
  LET points == {<<x + d[1], y + d[2]>> : d \in g}
      inside == {p \in points : InRect(p, clip[1], clip[2], clip[3], clip[4]) /\ OnScreen(p[1], p[2])}
  IN  Paint({Cell(p) : p \in inside}, {p \in points \cap Pixels : InRect(p, clip[1], clip[2], clip[3], clip[4])}, color)

-----------------------------------------------------------------------------
\* gfx_enable_backbuffer(1): malloc may fail; what it returns is not cleared.
Enable ==
  /\ direct /\ ops < MaxOps /\ ops' = ops + 1
  /\ \/ direct' = FALSE /\ back' = [c \in Cells |-> Junk] /\ want' = [p \in Pixels |-> Junk]
     \/ UNCHANGED <<direct, back, want>>
  /\ UNCHANGED <<front, shown>>

Disable ==
  /\ ~direct /\ ops < MaxOps /\ ops' = ops + 1
  /\ direct' = TRUE /\ want' = shown
  /\ UNCHANGED <<back, front, shown>>

gfx_present ==
  /\ ~direct /\ ops < MaxOps /\ ops' = ops + 1
  /\ front' = back /\ shown' = want
  /\ UNCHANGED <<back, direct, want>>

\* Full rows are copied with the cells behind the screen's edge, others without.
PresentCells(x, y, w, h) ==
  UNION {IF r[2] = Width THEN r[1] .. r[1] + Stride - 1 ELSE r[1] .. r[1] + r[2] - 1 : r \in RectRows(x, y, w, h)}

gfx_present_rect(x, y, w, h) ==
  /\ ~direct /\ ops < MaxOps /\ ops' = ops + 1
  /\ front' = [c \in Cells |-> IF c \in PresentCells(x, y, w, h) THEN back[c] ELSE front[c]]
  /\ shown' = [p \in Pixels |-> IF InRect(p, x, y, w, h) THEN want[p] ELSE shown[p]]
  /\ UNCHANGED <<back, direct, want>>

GfxNext ==
  \/ \E x, y \in Coords, w, h \in Spans :
       \/ \E k \in Colors : gfx_draw_rect(x, y, w, h, k) \/ gfx_draw_rect_front(x, y, w, h, k)
       \/ gfx_present_rect(x, y, w, h)
       \/ \E g \in Glyphs, k \in Colors, cx \in Coords : gfx_draw_char(g, x, y, k, <<cx, 0, w, h>>)
  \/ \E k \in Colors : gfx_clear(k)
  \/ Enable \/ Disable \/ gfx_present

GfxSpec == GfxInit /\ [][GfxNext]_gfxVars

-----------------------------------------------------------------------------
\* Whatever is drawn where and presented in whatever pieces, the screen shows the pixels
\* that were asked for: drawing across an edge neither wraps into the next row nor
\* misses a pixel, and a partial present changes its rectangle only.
PictureExact ==
  \A p \in Pixels :
    /\ front[Cell(p)] = shown[p]
    /\ IF direct THEN front[Cell(p)] = want[p] ELSE back[Cell(p)] = want[p]
=============================================================================
