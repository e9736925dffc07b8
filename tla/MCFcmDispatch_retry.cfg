\* A comment says a retry happens only if no device accepted the message.
SPECIFICATION Spec
CONSTANTS
  Row = {n1, n2}
  BestEffort = {n2}
  Malformed = {}
  Device = {d1, d2}
  Worker = {w1, w2}
  NoWorker = NoWorker
  NoRow = NoRow
  Departed = Departed
  BatchSize = 2
  MaxAttempts = 3
  LeaseTTL = 3
  RenewEvery = 1
  RowTime = 2
  MaxFaults = 1
PROPERTY RetryOnlyUnaccepted
