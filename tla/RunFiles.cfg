SPECIFICATION MCSpec
CONSTANTS
  Transfers = {1, 2, 3}
  Chunk = 2
  MaxParts = 5
  Workers = 3
  Scheduled = {1, 3}
  Loads <- LargeOrSmall
  None = None
CHECK_DEADLOCK FALSE
INVARIANTS FilesInv ObjectsWhole NoPartOutlives Bounded
PROPERTIES ObeysLease PreparesStaleOnly TransfersEnd
