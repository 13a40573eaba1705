\* Without DELETE requests: two jobs that are due at once.
CONSTANTS
  Posters = {p1}
  Cleaners = {}
  Pickers = {}
  Names = {1, 2}
  Payloads <- MCOneScenario
  MaxClock = 2
  MaxJobs = 2
SPECIFICATION FairSpec
PROPERTIES
  EveryDueJobStarts
