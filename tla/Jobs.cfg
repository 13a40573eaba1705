CONSTANTS
  Posters = {p1}
  Cleaners = {c1, c2}
  Pickers = {c2}
  Names = {1, 2}
  Payloads <- MCOneScenario
  MaxClock = 2
  MaxJobs = 2
SPECIFICATION FairSpec
INVARIANTS
  TypeOK
  DeletesWhatItSaw
  ClearedAll
PROPERTIES
  StartsAtItsDate
  LastListedJobStarts
