SPECIFICATION TerminalSpec
CONSTANTS
  Size = 6
  Batches <- MCBatches
  Requests <- MCRequests
  Reader = {r1, r2}
  Rows = 2
  Cols = 2
  Glyph = {"a", "A", "o", "space"}
  Outputs <- MCOutputs
SYMMETRY Symmetry
VIEW View
INVARIANTS
  TtyRingSound
  NobodyWaits
  EchoSound
PROPERTIES
  ImplementsLineQueue
