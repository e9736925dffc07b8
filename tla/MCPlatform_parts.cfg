\* Each part of the platform with two to four calls at once.
SPECIFICATION PlatformSpec
CONSTANTS
  Phones = {s1, s2}
  Asks = {n1, n2, n3, n4}
  Checks = {v1, v2, v3}
  Cooldown = 1
  Ttl = 2
  Window = 3
  AskCap = 2
  TryCap = 2
  MaxTime = 5
  Tries = {n1, n2, n3, n4}
  MaxAttempts = 2
  MaxFailures = 1
  LastWindow = 1
  Providers = {p1, p2}
  Codes = {c1, c2}
  NoCode = NoCode
  Logins = {s1, s2}
  MaxRotations = 2
  Owners = {s1, s2}
  Tokens = {k1, k2}
  Registrations = {n1, n2, n3, n4}
  NoDevice = NoDevice
  DeviceCap = 1
  m1 = m1
  m2 = m2
  m3 = m3
  x2 = x2
  Instances = {s1, s2}
  Releases <- ThreeReleases
  Unchecked = {x2}
  Drifts = {"columns", "keys"}
  Nobody = Nobody
  Places = {"near", "far"}
  Near = {"near"}
  SampleAge = 1
  SampleSkew = 1
  ArrivalCount = 2
  ArrivalSpan = 2
  RawRetention = 2
  DerivedRetention = 1
  LastMoment = 4
  Called = {"refresh"}
  MaxGenerations = 2
  MaxFaults = 1
  MaxEvents = 1
INVARIANTS
  PlatformTypeOK
  OtpLimits
  ChallengesAreSpent
  SignInLimitsHold
  CodesAreRotated
  DevicesAreLimited
  HistoryIsTrue
  SamplesAreKept
  ArrivalIsEarned
  NoOpsAreTrue
PROPERTIES
  StartupChangesNothing
  BootstrapKeepsAccounts
  ReplacementsSurvive
\* Every call is made once: a behaviour ends when all of them are over.
CHECK_DEADLOCK FALSE
