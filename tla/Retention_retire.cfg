SPECIFICATION FairSpec
CONSTANTS
  Versions = {1, 2}
  KeyOf <- DistinctKeys
  VersionedKeys <- AllKeys
  Archivers = {a1, a2}
  Cleaners = {c1}
  MaxObjects = 1
  Overlap = "never"
  ConditionalKeys <- AllKeys
  None = None
PROPERTIES EveryManifestRetired
