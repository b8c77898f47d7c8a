SPECIFICATION MCSpec
CONSTANTS
  Calls = {1, 2}
  NoCall = 0
  Requests <- MCRequests
  Pages = {"a"}
  Domains = {"x"}
  Modes = {"auto"}
  MaxPerDomain = 1
INVARIANT
  NetworkCap
