SPECIFICATION Spec
CONSTANTS
  Callers = {"one", "other"}
  NoOne = NoOne
  Workers = 1
  Urls = {"page", "listing", "product", "bad"}
  Shape <- MCShape
  Mixes <- MCMixes
  GuardOn = TRUE
  Outages = 1
INVARIANTS
  OwnText
  NoPayloadServed
PROPERTIES
  EveryFetchEnds
CHECK_DEADLOCK FALSE
