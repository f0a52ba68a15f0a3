SPECIFICATION Spec
CONSTANTS
  Transfers = {1, 2}
  Chunk = 2
  MaxParts = 5
  Workers = 3
  Scheduled = {1}
  Loads <- Small
  None = None
CHECK_DEADLOCK FALSE
PROPERTIES StagedFilesKept
