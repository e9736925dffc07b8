\* Two requests share a provider: suspension and history reach across requests.
\* One of them is of an earlier release and has no customer.
SPECIFICATION RacySpec
CONSTANTS
  Request = {r1, r2}
  Provider = {p1}
  Quote = {q1, q2}
  NoProvider = NoProvider
  NoRequest = NoRequest
  Suitable <- EveryoneSuits
  Ownerless = {r2}
  TrackingEnabled = TRUE
  OutboxEnabled = TRUE
SYMMETRY Symmetry
INVARIANT TrackingIsConfined
INVARIANT StartedWorkIsAgreed
INVARIANT OutboxTellsTheStory
PROPERTY HistoryIsFinal
