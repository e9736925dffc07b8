\* One request from its bid to its end, with its tracking.
SPECIFICATION FairTxSpec
CONSTANTS
  Request = {r1}
  Provider = {p1}
  Quote = {q1}
  NoProvider = NoProvider
  NoRequest = NoRequest
  NoQuote = NoQuote
  Idle = Idle
  Connection = {c1, c2}
  Suitable <- EveryoneSuits
  Ownerless = {}
  Plans <- WorkOnly
  TrackingEnabled = TRUE
  OutboxEnabled = TRUE
PROPERTY EveryTransactionEnds
