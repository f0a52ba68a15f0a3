SPECIFICATION Spec
CONSTANTS
  Versions = {1, 2, 3, 4, 5, 6}
  KeyOf <- Keys
  VersionedKeys = {1, 2, 3}
  RouteOf <- Routes
  Manifests = {1, 2}
  Exports <- Sequences2
  Unstable = {6}
  RouteSets <- TwoOrOne
  BatchSize = 2
  ConditionalKeys = {4}
  Cleaner = Cleaner
  Missing = Missing
INVARIANT EngineInv
PROPERTIES Implements MangledDeletesNothing ReportsTruly
