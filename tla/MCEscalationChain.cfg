SPECIFICATION Spec
CONSTANTS
  Modes <- AllModes
  Deadlines = {0, 4, 6}
  Latest = 1
  Seed = "browser"
  SeedProfile = "browser"
  Rule = "none"
INVARIANTS
  TypeOK
  FirstContent
  GivesUpLast
  NamesItsTier
  LearnsWhatItShowed
