\* The comment of decideQuote says that transactions on one request cannot deadlock.
SPECIFICATION TxSpec
CONSTANTS
  Request = {r1}
  Provider = {p1, p2}
  Quote = {q1, q2}
  NoProvider = NoProvider
  NoRequest = NoRequest
  NoQuote = NoQuote
  Idle = Idle
  Connection = {c1, c2}
  Suitable <- EveryoneSuits
  Ownerless = {}
  Plans <- AssignAgainstWithdraw
  TrackingEnabled = TRUE
  OutboxEnabled = TRUE
INVARIANT NoDeadlock
