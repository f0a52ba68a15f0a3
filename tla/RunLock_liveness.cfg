SPECIFICATION FairSpec
CONSTANTS
  Runs = {r1, r2}
  Kinds = {"reconcile"}
  Hosts = {h1}
  Pids = {p1, p2}
  Timeout = 1
  MaxClock = 2
  ReadErrors = TRUE
  None = None
  Invalid = Invalid
  Undecodable = Undecodable
PROPERTIES OverdueFileRemoved
