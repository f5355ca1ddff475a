SPECIFICATION SplitSpec
CONSTANTS
  Lengths = {0, 1, 2, 3, 4, 5, 6, 7, 8, 9}
  Sizes = {0, 1, 2, 3, 5}
  Overlaps = {0, 1, 2, 3, 6}
  ChunkSize = 4
  ChunkOverlap = 1
INVARIANTS NothingLost TurnsBounded
