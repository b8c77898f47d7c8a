SPECIFICATION FairSpec
CONSTANTS
  Procs = {p1, p2}
  NoProc = NoProc
  Seed = "browser"
  MaxUpsets = 2
INVARIANTS
  SharesWhilePatient
  StrikesAddUp
PROPERTY
  HealsFromBrowser
