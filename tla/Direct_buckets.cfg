SPECIFICATION BucketSpec
CONSTANTS
  Versions = {1, 2, 3, 4, 5, 6}
  KeyOf <- TwoBuckets
  SizeOf <- SameSize
  VersionedKeys = {1, 2}
  Checksums = FALSE
  Archivers = {a1, a2}
  Cleaners = {c1}
  Overlap = "never"
  ConditionalKeys <- FourKeys
  Reverts = FALSE
  None = None
SYMMETRY Symmetric
INVARIANTS NewestKeptUnversioned
PROPERTIES ManifestIsProofVersioned DeletesCopied
