\* Requests that contend for one slot; fewer of them, since the liveness graph is
\* several times the state graph.
SPECIFICATION MCSpec
CONSTANTS
  Calls = {1, 2, 3}
  NoCall = 0
  Requests <- ContendingRequests
  Pages = {"a"}
  Domains = {"x"}
  Modes = {"auto"}
  MaxPerDomain = 1
PROPERTIES
  EveryCallReturns
