\* Maps of every kind of source, two maps that share a file, and every answer,
\* extract and search alone.  Only what ends is checked, so the runs stop.
SPECIFICATION MCSpec
CONSTANTS
  Maps <- MCMaps
  Urls <- MCUrls
  Hosts = {"h"}
  Origins = {"o1"}
  Outline = "llms.txt"
  MapMixes <- MCMapMixes
  Asks <- MCAsks
  AskMixes <- MCAskMixes
  Found <- MCFound
INVARIANTS
  LimitIsTold
CHECK_DEADLOCK FALSE
