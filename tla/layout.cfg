SPECIFICATION GridSpec
CONSTANTS
  Gap = 8
  ColMin = 340
  MinRow = 120
  PadX = 8
  GlyphW = 6
  Rows <- MCRows
  Windows <- MCWindows
  Deltas <- MCDeltas
  MaxDrags = 3
INVARIANTS
  FillsWindow
  TablesSpan
PROPERTIES
  SeamMovesTwo
