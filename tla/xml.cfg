SPECIFICATION Spec
CONSTANTS
  Name = {"rec", "a"}
  RecordTag = "rec"
  Chunk = {x, y, z}
  Attr = {k1}
  ExampleCap = 2
  MaxTokens = 22
  MaxDepth = 3
  MaxPieces = 2
CONSTRAINT Bounded
SYMMETRY Pieces
INVARIANTS
  TypeOK
  CountsOfClosedRecords
  StarterKeepsRepeats
  GuessIsDiscovered
  ExamplesAreFirst
