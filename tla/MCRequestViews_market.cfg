\* One request, three providers who bid on it; push on, tracking off: staff set out.
SPECIFICATION ViewsSpec
CONSTANTS
  Request = {r1}
  Provider = {p1, p2, p3}
  Quote = {1, 2, 3}
  NoQuote = NoQuote
  NoProvider = NoProvider
  NoRequest = NoRequest
  Suitable <- EveryoneSuits
  Ownerless = {}
  TrackingEnabled = FALSE
  OutboxEnabled = TRUE
SYMMETRY Symmetry
INVARIANTS
  TypeOK
  OnePriceIsOwed
  FlowsNeverMix
  OpportunityTracksBid
  AssignmentIsAuthoritative
  OutboxTellsTheStory
  NoEventIsSwallowed
  PartiesSeeOneDeal
