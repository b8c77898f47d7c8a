\* Every adapter over small pages and answers; two fetches where they share
\* memory; the process may restart once.
CONSTANTS
  Fetches <- MCFetches
  Mixes <- MCMixes
  Restarts = 1
SPECIFICATION AdapterSpec
INVARIANTS
  MainDecides
  NotFoundIsToldElsewhere
  ProbeNeverFails
  ListingIsPage
CHECK_DEADLOCK FALSE
