CONSTANTS
  x = x
  y = y
  Byte <- Bytes
  Blocks <- SomeBlocks
  Size = 4
SPECIFICATION Spec
INVARIANT ForceKeepsBlock
