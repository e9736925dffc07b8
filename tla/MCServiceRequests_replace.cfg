\* The runbook lets staff replace a rejected quote.
SPECIFICATION Spec
CONSTANTS
  Request = {r1}
  Provider = {p1, p2}
  Quote = {q1, q2}
  NoProvider = NoProvider
  NoRequest = NoRequest
  Suitable <- EveryoneSuits
  Ownerless = {}
  TrackingEnabled = TRUE
  OutboxEnabled = TRUE
SYMMETRY Symmetry
INVARIANT RejectedQuoteCanBeReplaced
