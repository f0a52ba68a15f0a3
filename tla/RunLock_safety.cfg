SPECIFICATION Spec
CONSTANTS
  Runs = {r1, r2, r3}
  Kinds = {"archive", "startup"}
  Hosts = {h1, h2}
  Pids = {p1, p2}
  Timeout = 0
  MaxClock = 1
  ReadErrors = TRUE
  None = None
  Invalid = Invalid
  Undecodable = Undecodable
SYMMETRY Symmetric
PROPERTIES IsLease
INVARIANTS LockInv MutualExclusion RetryFindsNoLock
