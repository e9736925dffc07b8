\* Two connections: a market on one request, two requests that share
\* their bidders, or one request from its bid to its end.
SPECIFICATION TxSpec
CONSTANTS
  Request = {r1, r2}
  Provider = {p1, p2}
  Quote = {q1, q2, q3, q4}
  NoProvider = NoProvider
  NoRequest = NoRequest
  NoQuote = NoQuote
  Idle = Idle
  Connection = {c1, c2}
  Suitable <- EveryoneSuits
  Ownerless = {}
  Plans <- AllPlans
  TrackingEnabled = TRUE
  OutboxEnabled = TRUE
SYMMETRY ConnectionSymmetry
PROPERTY CommitsAreAtomic
INVARIANT OnlyKnownDeadlocks
INVARIANT TxTypeOK
