SPECIFICATION Spec
CONSTANTS
  Procs = {p1, p2}
  NoProc = NoProc
  Seed = "http"
  MaxUpsets = 1
INVARIANT
  SharesCache
