SPECIFICATION MCSpec
CONSTANTS
  Calls = {1, 2, 3}
  NoCall = 0
  Requests <- MCRequests
  Pages = {"a"}
  Domains = {"x"}
  Modes = {"auto"}
  MaxPerDomain = 1
INVARIANTS
  TypeOK
  OneTaskPerKey
  WaiterAboard
  AnswerMeetsRequest
  DomainCap
PROPERTIES
  ImplementsSingleFlight
