SPECIFICATION Spec
CONSTANTS
  Runs = {r1, r2, r3}
  Kinds = {"archive", "cleanup", "startup"}
  Hosts = {h1, h2}
  Pids = {p1}
  Timeout = 1
  MaxClock = 0
  ReadErrors = TRUE
  None = None
  Invalid = Invalid
  Undecodable = Undecodable
INVARIANTS NeverTogether
SYMMETRY Symmetric
