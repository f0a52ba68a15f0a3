SPECIFICATION Spec
CONSTANTS
  Versions = {1, 2, 3}
  KeyOf <- OneKeyAndTwo
  SizeOf <- SameSize
  VersionedKeys <- AllKeys
  Checksums = TRUE
  Archivers = {a1, a2}
  Cleaners = {c1}
  Overlap = "never"
  ConditionalKeys <- AllKeys
  Reverts = FALSE
  None = None
SYMMETRY Symmetric
INVARIANTS NewestKept

