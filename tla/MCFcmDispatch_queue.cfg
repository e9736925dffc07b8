\* Two rows, one of them unreadable, two devices and two workers: leases, retries, a fault, lost answers.
SPECIFICATION FairSpec
CONSTANTS
  Row = {n1, n2}
  BestEffort = {}
  Malformed = {n2}
  Device = {d1, d2}
  Worker = {w1, w2}
  NoWorker = NoWorker
  NoRow = NoRow
  Departed = Departed
  BatchSize = 2
  MaxAttempts = 2
  LeaseTTL = 2
  RenewEvery = 1
  RowTime = 1
  MaxFaults = 1
INVARIANTS TypeOK LeasesAreHeld DuplicatesAreExplained
PROPERTIES SettledIsFinal RetriesAreCounted EveryRowSettles
