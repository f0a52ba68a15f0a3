SPECIFICATION BucketSpec
CONSTANTS
  Versions = {1, 2, 3, 4}
  KeyOf <- OneTwoAndThree
  VersionedKeys = {}
  Archivers = {a1, a2}
  Cleaners = {c1}
  MaxObjects = 2
  Overlap = "never"
  ConditionalKeys = {1, 2}
  None = None
SYMMETRY Symmetric
INVARIANTS RetentionInv NothingLost ManifestsAreProof ArchivesDescribed
PROPERTIES ArchivesOnlyGrow
