\* The constants of spawn.go, a tick being 20 seconds.  Two restarts and a lost
\* reply, or up to nine lost replies, in one burst.
CONSTANTS
  Clients = {c1, c2}
  Nodes = {n1, n2}
  MaxBurstPerNode = 4
  BurstResetTimeout = 3
  ReconciliationDelay = 1
  MaxExcess = 9
SPECIFICATION FairSpec
INVARIANTS
  TypeOK
  BurstIsBounded
PROPERTIES
  OnlyAStartedSpawnerCreates
  SleepsBetweenJobs
  SpawningGoesOn
