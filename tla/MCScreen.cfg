SPECIFICATION ScreenSpec
CONSTANTS
  MAX_WINDOWS = 2
  MaxOpened = 3
  Buffers = 2
  Types = {"Terminal", "Files"}
  Size = {"normal", "full"}
  MaxMatches = 2
  Width = 3
  Height = 2
  Stride = 4
  Coords <- ScreenCoords
  Spans <- ScreenSpans
  Colors = {1, 2}
  Glyphs <- ScreenGlyphs
  MaxOps = 3
INVARIANTS WindowsHeld ScreenMarked TerminalTrue PictureExact
CONSTRAINT NotStrayed
