SPECIFICATION Spec
CONSTANTS
  NumObjects = 3
  Samples <- Kinds
  NumRoutes = 2
  RouteLists <- Lists
  SampleLimit = 2
  Today <- March5
  From <- Year2023
  To <- February
  MaxSource = 12
  MaxBytes = 4
  MaxObjects = 2
  MaxArchive = 14
  Block = 2
  Fixed = 2
  None = None
CHECK_DEADLOCK FALSE
INVARIANTS BuildInv AccountedFor ChunksCover DropsPlannedChunks NoneTooLargeAsAdvised RangeIsPeriod RootIsShortest OutputsApart
