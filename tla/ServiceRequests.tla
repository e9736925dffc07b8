-------------------------- MODULE ServiceRequests --------------------------
(***************************************************************************)
(* The service-request lifecycle of the marketplace API: dispatch by staff *)
(* or by the customer's choice among provider quotes, quote approval, cash *)
(* payment, provider verification and live tracking, and the notification  *)
(* outbox rows each of these writes.                                       *)
(*                                                                         *)
(* Every action is one database transaction of ServiceRequestRepository    *)
(* (service-request.repository.ts).  The transactions take row locks, and  *)
(* at this level each of them is one atomic step; a transaction the code   *)
(* refuses (it throws and rolls back) changes nothing and is not a step.   *)
(*                                                                         *)
(* The data that no guard reads is left out: amounts, scopes, addresses,   *)
(* images, the event timeline and the staff audit log, and of its customer *)
(* all but whether a request has one.                                      *)
(***************************************************************************)
EXTENDS FiniteSets

CONSTANTS
  Request,          \* ids of service_requests rows
  Provider,         \* ids of providers rows
  Quote,            \* ids of service_quotes rows: the bound on quotes
  NoProvider,       \* SQL NULL in a provider_id column
  NoRequest,        \* the request of a quote id that is not allocated yet
  Suitable,         \* Suitable[r]: the providers whose specialties hold r's service
  Ownerless,        \* requests of an earlier release, whose customer_id is NULL
  TrackingEnabled,  \* providerTrackingConfig.enabled
  OutboxEnabled     \* the writer's config.enabled (push notifications on)

ASSUME NullAssumption == NoProvider \notin Provider /\ NoRequest \notin Request
ASSUME SuitableAssumption == Suitable \in [Request -> SUBSET Provider]
ASSUME OwnerlessAssumption == Ownerless \subseteq Request
ASSUME ConfigAssumption == TrackingEnabled \in BOOLEAN /\ OutboxEnabled \in BOOLEAN

VARIABLES
  verification,  \* providers.verification_status
  available,     \* providers.available
  status,        \* service_requests.status
  assigned,      \* service_requests.assigned_provider_id
  opportunity,   \* request_provider_opportunities.status, per request and provider
  quoteStatus,   \* service_quotes.status
  quoteRequest,  \* service_quotes.service_request_id
  quoteBidder,   \* service_quotes.provider_id: NoProvider on a staff quote
  payment,       \* service_payments.status, per quote (quote_id is UNIQUE)
  session,       \* provider_tracking_sessions: "active" or why it was stopped
  position,      \* whether provider_current_positions has a row
  outbox,        \* notification_outbox, by dedupe key
  swallowed      \* history: keys whose INSERT met ON CONFLICT DO NOTHING

providerVars == <<verification, available>>
dispatchVars == <<status, assigned>>
quoteVars    == <<quoteStatus, quoteRequest, quoteBidder>>
trackingVars == <<session, position>>
outboxVars   == <<outbox, swallowed>>

vars == <<verification, available, status, assigned, opportunity, quoteStatus,
          quoteRequest, quoteBidder, payment, session, position, outbox, swallowed>>

-----------------------------------------------------------------------------
(* "none" stands for a row that does not exist.                            *)

Verification == {"none", "pending", "verified", "suspended"}
RequestStatus == {"none", "pending_dispatch", "assigned", "on_the_way",
                  "in_progress", "completed", "cancelled"}
OpportunityStatus == {"none", "invited", "quoted", "withdrawn", "closed", "rejected"}
QuoteStatus == {"none", "proposed", "approved", "rejected", "withdrawn"}
PaymentStatus == {"none", "cash_due", "cash_collected", "refunded"}
StopReason == {"completed", "cancelled", "provider_suspended", "operations_emergency"}
SessionState == {"none", "active"} \cup StopReason

OpenOpportunity == {"invited", "quoted"}
ActiveQuote == {"proposed", "approved"}
Tracked == {"on_the_way", "in_progress"}

(* A dedupe key: the semantic event, its request and what else names it.   *)
Key(type, r, subject) == [type |-> type, request |-> r, subject |-> subject]

ProviderKey == [type : {"opportunity_invited", "opportunity_closed", "provider_assigned"},
                request : Request, subject : Provider]
CustomerKey == [type : {"request_created", "assignment_confirmed"},
                request : Request, subject : {NoProvider}]
QuoteKey    == [type : {"quote_received"}, request : Request, subject : Quote]
StatusKey   == [type : {"status_updated"}, request : Request, subject : RequestStatus]
NotificationKey == ProviderKey \cup CustomerKey \cup QuoteKey \cup StatusKey

(* Foreign keys: a quote names a request, and a request that does not      *)
(* exist has neither quotes nor opportunities.                             *)
RowsExist ==
  /\ \A q \in Quote :
       /\ quoteStatus[q] = "none" <=> quoteRequest[q] = NoRequest
       /\ quoteStatus[q] = "none" => quoteBidder[q] = NoProvider
       /\ quoteStatus[q] # "none" => status[quoteRequest[q]] # "none"
  /\ \A r \in Request, p \in Provider : status[r] = "none" => opportunity[r][p] = "none"

(* The type invariant: every column holds a value of its CHECK constraint, *)
(* and rows refer to rows that exist.                                      *)
TypeOK ==
  /\ verification \in [Provider -> Verification]
  /\ available \in [Provider -> BOOLEAN]
  /\ status \in [Request -> RequestStatus]
  /\ assigned \in [Request -> Provider \cup {NoProvider}]
  /\ opportunity \in [Request -> [Provider -> OpportunityStatus]]
  /\ quoteStatus \in [Quote -> QuoteStatus]
  /\ quoteRequest \in [Quote -> Request \cup {NoRequest}]
  /\ quoteBidder \in [Quote -> Provider \cup {NoProvider}]
  /\ payment \in [Quote -> PaymentStatus]
  /\ session \in [Request -> SessionState]
  /\ position \in [Request -> BOOLEAN]
  /\ outbox \subseteq NotificationKey
  /\ swallowed \subseteq NotificationKey
  /\ RowsExist

(* An ownerless request is there from the start, as the release that took  *)
(* it left it; every other one is created with its customer.               *)
Init ==
  /\ verification = [p \in Provider |-> "none"]
  /\ available = [p \in Provider |-> FALSE]
  /\ status = [r \in Request |-> IF r \in Ownerless THEN "pending_dispatch" ELSE "none"]
  /\ assigned = [r \in Request |-> NoProvider]
  /\ opportunity = [r \in Request |-> [p \in Provider |-> "none"]]
  /\ quoteStatus = [q \in Quote |-> "none"]
  /\ quoteRequest = [q \in Quote |-> NoRequest]
  /\ quoteBidder = [q \in Quote |-> NoProvider]
  /\ payment = [q \in Quote |-> "none"]
  /\ session = [r \in Request |-> "none"]
  /\ position = [r \in Request |-> FALSE]
  /\ outbox = {}
  /\ swallowed = {}

-----------------------------------------------------------------------------
(* What the transactions read.                                             *)

QuotesOf(r) == {q \in Quote : quoteRequest[q] = r}
StaffQuotes(r) == {q \in QuotesOf(r) : quoteBidder[q] = NoProvider}
BidsOf(r, p) == {q \in QuotesOf(r) : quoteBidder[q] = p}
(* Faulty variants stand before the definition they would replace; the     *)
(* runs show which property notices each.  Here: an approved quote no      *)
(* longer blocks another.                                                  *)
NoneProposed(quotes) == \A q \in quotes : quoteStatus[q] # "proposed"
NoActive(quotes) == \A q \in quotes : quoteStatus[q] \notin ActiveQuote

Fit(p) == verification[p] = "verified" /\ available[p]
Eligible(r) == {p \in Suitable[r] : Fit(p)}
Open(r) == {p \in Provider : opportunity[r][p] \in OpenOpportunity}

(* Faulty: a rejected staff quote no longer blocks the start.              *)
ServiceMayStartUndecided(r) ==
  \A q \in StaffQuotes(r) : quoteStatus[q] # "proposed"

(* Only staff quotes gate the start of the work.                           *)
ServiceMayStart(r) ==
  StaffQuotes(r) # {} => \E q \in StaffQuotes(r) : quoteStatus[q] = "approved"

(* What they write.  The INSERT of a key already in the outbox does nothing, *)
(* and what is meant for the customer of an ownerless request is skipped.    *)

ToCustomer == {"request_created", "assignment_confirmed", "quote_received", "status_updated"}

(* Faulty: NULL is taken for the id of a customer.                         *)
RecipientCoerced(key) == TRUE

HasRecipient(key) == key.type \in ToCustomer => key.request \notin Ownerless

Enqueue(keys) ==
  LET written == {key \in keys : HasRecipient(key)}
  IN  IF OutboxEnabled
        THEN /\ outbox' = outbox \cup written
             /\ swallowed' = swallowed \cup (written \cap outbox)
        ELSE UNCHANGED outboxVars

Invite(r, providers) ==
  /\ opportunity' = [opportunity EXCEPT ![r] =
       [p \in Provider |-> IF p \in providers THEN "invited" ELSE @[p]]]
  /\ Enqueue({Key("opportunity_invited", r, p) : p \in providers})

SetOpportunity(r, p, new) == opportunity' = [opportunity EXCEPT ![r][p] = new]

InsertQuote(q, r, bidder) ==
  /\ quoteStatus[q] = "none"
  /\ quoteStatus' = [quoteStatus EXCEPT ![q] = "proposed"]
  /\ quoteRequest' = [quoteRequest EXCEPT ![q] = r]
  /\ quoteBidder' = [quoteBidder EXCEPT ![q] = bidder]
  /\ UNCHANGED payment

(* Faulty: the losing bids stay proposed.                                  *)
DecideChosenBid(r, approved) ==
  quoteStatus' = [q \in Quote |-> IF q \in approved THEN "approved" ELSE quoteStatus[q]]

(* Every proposed provider quote of r loses; the approved one, if any, wins. *)
DecideBids(r, approved) ==
  quoteStatus' = [q \in Quote |->
    IF q \in approved THEN "approved"
    ELSE IF q \in QuotesOf(r) \ StaffQuotes(r) /\ quoteStatus[q] = "proposed"
      THEN "rejected" ELSE quoteStatus[q]]

(* Faulty: the winner is told that its opportunity is closed, too.         *)
AwardTellsAll(r, p) ==
  /\ assigned' = [assigned EXCEPT ![r] = p]
  /\ status' = [status EXCEPT ![r] = "assigned"]
  /\ opportunity' = [opportunity EXCEPT ![r] =
       [x \in Provider |-> IF x \in Open(r) THEN "closed" ELSE @[x]]]
  /\ Enqueue({Key("provider_assigned", r, p), Key("assignment_confirmed", r, NoProvider)}
             \cup {Key("opportunity_closed", r, x) : x \in Open(r)})

(* p gets the request: every open opportunity closes and its provider, p   *)
(* excepted, is told.                                                      *)
Award(r, p) ==
  /\ assigned' = [assigned EXCEPT ![r] = p]
  /\ status' = [status EXCEPT ![r] = "assigned"]
  /\ opportunity' = [opportunity EXCEPT ![r] =
       [x \in Provider |-> IF x \in Open(r) THEN "closed" ELSE @[x]]]
  /\ Enqueue({Key("provider_assigned", r, p), Key("assignment_confirmed", r, NoProvider)}
             \cup {Key("opportunity_closed", r, x) : x \in Open(r) \ {p}})

StopTracking(r, reason) ==
  /\ session' = [session EXCEPT ![r] =
       IF @ = "active" \/ /\ reason \in {"completed", "cancelled"}
                          /\ @ \in {"provider_suspended", "operations_emergency"}
         THEN reason ELSE @]
  /\ position' = [position EXCEPT ![r] = FALSE]

(* A second start finds the row and needs it still active.                 *)
StartTracking(r) ==
  /\ session[r] \in {"none", "active"}
  /\ session' = [session EXCEPT ![r] = "active"]
  /\ UNCHANGED position

-----------------------------------------------------------------------------
(* Providers.                                                              *)

CreatePilotProvider(p) ==
  /\ verification[p] = "none"
  /\ verification' = [verification EXCEPT ![p] = "pending"]
  /\ available' = [available EXCEPT ![p] = FALSE]
  /\ UNCHANGED <<dispatchVars, opportunity, quoteVars, payment, trackingVars, outboxVars>>

UpdateProviderAvailability(p, flag) ==
  /\ verification[p] = "verified"
  /\ available' = [available EXCEPT ![p] = flag]
  /\ UNCHANGED <<verification, dispatchVars, opportunity, quoteVars, payment,
                 trackingVars, outboxVars>>

(* Faulty: a suspension that leaves the sessions of the provider alone.    *)
SuspendAlone(p, expected, new) ==
  /\ verification[p] = expected
  /\ verification' = [verification EXCEPT ![p] = new]
  /\ available' = [available EXCEPT ![p] = (new = "verified")]
  /\ UNCHANGED <<dispatchVars, opportunity, quoteVars, payment, trackingVars, outboxVars>>

(* A provider who is no longer verified loses its active sessions and      *)
(* their positions.  A session's provider is its request's assigned one:   *)
(* the tables hold that with a foreign key.                                *)
UpdatePilotProviderVerification(p, expected, new) ==
  LET stopped == {r \in Request : assigned[r] = p /\ session[r] = "active"
                                  /\ new # "verified" /\ TrackingEnabled}
  IN  /\ verification[p] = expected
      /\ verification' = [verification EXCEPT ![p] = new]
      /\ available' = [available EXCEPT ![p] = (new = "verified")]
      /\ session' = [r \in Request |->
           IF r \in stopped THEN "provider_suspended" ELSE session[r]]
      /\ position' = [r \in Request |-> IF r \in stopped THEN FALSE ELSE position[r]]
      /\ UNCHANGED <<dispatchVars, opportunity, quoteVars, payment, outboxVars>>

VerifyPilotProvider(p) == UpdatePilotProviderVerification(p, "pending", "verified")
SuspendPilotProvider(p) == UpdatePilotProviderVerification(p, "verified", "suspended")
ReactivatePilotProvider(p) == UpdatePilotProviderVerification(p, "suspended", "verified")

-----------------------------------------------------------------------------
(* The request, its opportunities and its assignment.                      *)

(* Creation, invitation and assignment take the providers they find        *)
(* eligible without locking their rows.                                    *)
CreateFound(r, found) ==
  /\ status[r] = "none"
  /\ status' = [status EXCEPT ![r] = "pending_dispatch"]
  /\ opportunity' = [opportunity EXCEPT ![r] =
       [p \in Provider |-> IF p \in found THEN "invited" ELSE "none"]]
  /\ Enqueue({Key("opportunity_invited", r, p) : p \in found}
             \cup {Key("request_created", r, NoProvider)})
  /\ UNCHANGED <<providerVars, assigned, quoteVars, payment, trackingVars>>

CreateRequest(r) == CreateFound(r, Eligible(r))

(* Faulty: the request's row is not looked for.                            *)
InviteUnchecked(r, providers) ==
  /\ status[r] \notin {"completed", "cancelled"}
  /\ NoActive(QuotesOf(r))
  /\ Invite(r, {p \in providers \cap Eligible(r) : opportunity[r][p] = "none"})
  /\ UNCHANGED <<providerVars, dispatchVars, quoteVars, payment, trackingVars>>

(* Faulty: an existing opportunity is overwritten instead of skipped.      *)
InviteAgain(r, providers) ==
  /\ status[r] \notin {"none", "completed", "cancelled"}
  /\ NoActive(QuotesOf(r))
  /\ Invite(r, providers \cap Eligible(r))
  /\ UNCHANGED <<providerVars, dispatchVars, quoteVars, payment, trackingVars>>

InviteFound(r, found) ==
  /\ status[r] \notin {"none", "completed", "cancelled"}
  /\ NoActive(QuotesOf(r))
  /\ Invite(r, {p \in found : opportunity[r][p] = "none"})
  /\ UNCHANGED <<providerVars, dispatchVars, quoteVars, payment, trackingVars>>

InviteProvidersToRequest(r, providers) == InviteFound(r, providers \cap Eligible(r))

(* A proposed quote behind the opportunity stays proposed.                 *)
CloseProviderOpportunity(r, p) ==
  /\ status[r] # "none"
  /\ p \in Open(r)
  /\ SetOpportunity(r, p, "closed")
  /\ UNCHANGED <<providerVars, dispatchVars, quoteVars, payment, trackingVars, outboxVars>>

Assign(r, p) ==
  /\ status[r] = "pending_dispatch"
  /\ Award(r, p)
  /\ DecideBids(r, {})
  /\ UNCHANGED <<providerVars, quoteRequest, quoteBidder, payment, trackingVars>>

AssignProvider(r, p) == p \in Eligible(r) /\ Assign(r, p)

NewStatus == {"on_the_way", "in_progress", "completed", "cancelled"}

AllowedPrevious(new) ==
  CASE new = "on_the_way"  -> {"assigned"}
    [] new = "in_progress" -> {"on_the_way"}
    [] new = "completed"   -> {"in_progress"}
    [] new = "cancelled"   -> {"pending_dispatch", "assigned", "on_the_way"}

SetStatus(r, new) ==
  /\ status[r] \in AllowedPrevious(new)
  /\ new = "in_progress" => ServiceMayStart(r)
  /\ status' = [status EXCEPT ![r] = new]
  /\ Enqueue({Key("status_updated", r, new)})
  /\ UNCHANGED <<providerVars, assigned, opportunity, quoteVars, payment>>

(* Staff.  With tracking on, only the provider may set out.                *)
UpdateStatus(r, new) ==
  /\ SetStatus(r, new)
  /\ new = "on_the_way" => ~TrackingEnabled
  /\ IF new \in {"completed", "cancelled"} THEN StopTracking(r, new)
                                           ELSE UNCHANGED trackingVars

(* The assigned provider p.                                                *)
UpdateStatusForProvider(r, p, new) ==
  /\ assigned[r] = p
  /\ SetStatus(r, new)
  /\ CASE new = "on_the_way" /\ TrackingEnabled -> Fit(p) /\ StartTracking(r)
       [] new = "completed" -> StopTracking(r, new)
       [] OTHER -> UNCHANGED trackingVars

-----------------------------------------------------------------------------
(* Quotes.                                                                 *)

(* Faulty: a staff quote beside the market.                                *)
ProposeQuoteInMarket(r, q) ==
  /\ status[r] \in {"assigned", "on_the_way"}
  /\ NoActive(QuotesOf(r))
  /\ InsertQuote(q, r, NoProvider)
  /\ Enqueue({Key("quote_received", r, q)})
  /\ UNCHANGED <<providerVars, dispatchVars, opportunity, trackingVars>>

(* A staff quote.                                                          *)
ProposeQuote(r, q) ==
  /\ status[r] \in {"assigned", "on_the_way"}
  /\ NoActive(QuotesOf(r))
  /\ \A p \in Provider : opportunity[r][p] = "none"
  /\ InsertQuote(q, r, NoProvider)
  /\ Enqueue({Key("quote_received", r, q)})
  /\ UNCHANGED <<providerVars, dispatchVars, opportunity, trackingVars>>

SubmitProviderQuote(r, p, q) ==
  /\ status[r] = "pending_dispatch"
  /\ p \in Open(r)
  /\ NoActive(StaffQuotes(r))
  /\ NoActive(BidsOf(r, p))
  /\ InsertQuote(q, r, p)
  /\ SetOpportunity(r, p, "quoted")
  /\ Enqueue({Key("quote_received", r, q)})
  /\ UNCHANGED <<providerVars, dispatchVars, trackingVars>>

(* Faulty: the opportunity is left quoted.                                 *)
WithdrawQuoteOnly(q) ==
  /\ quoteBidder[q] # NoProvider
  /\ quoteStatus[q] = "proposed"
  /\ quoteStatus' = [quoteStatus EXCEPT ![q] = "withdrawn"]
  /\ UNCHANGED <<providerVars, dispatchVars, opportunity, quoteRequest, quoteBidder, payment,
                 trackingVars, outboxVars>>

(* Whatever the request's status and the opportunity's.                    *)
WithdrawProviderQuote(q) ==
  /\ quoteBidder[q] # NoProvider
  /\ quoteStatus[q] = "proposed"
  /\ quoteStatus' = [quoteStatus EXCEPT ![q] = "withdrawn"]
  /\ SetOpportunity(quoteRequest[q], quoteBidder[q], "withdrawn")
  /\ UNCHANGED <<providerVars, dispatchVars, quoteRequest, quoteBidder, payment,
                 trackingVars, outboxVars>>

(* Faulty: a quote already decided can be decided again.                   *)
DecidableAgain(q) ==
  /\ quoteStatus[q] # "none"
  /\ quoteRequest[q] \notin Ownerless
  /\ quoteBidder[q] # NoProvider => Fit(quoteBidder[q])

(* The guards both decisions share: the request is the deciding customer's, *)
(* so that no quote of an ownerless one is ever decided, and a provider     *)
(* quote needs a fit provider, to be rejected too.                          *)
Decidable(q) ==
  /\ quoteStatus[q] = "proposed"
  /\ quoteRequest[q] \notin Ownerless
  /\ quoteBidder[q] # NoProvider => Fit(quoteBidder[q])

CreateCashPayment(q) ==
  payment' = [payment EXCEPT ![q] = IF @ = "none" THEN "cash_due" ELSE @]

(* No guard on the request's status.                                       *)
ApproveStaffQuote(q) ==
  /\ quoteBidder[q] = NoProvider
  /\ Decidable(q)
  /\ quoteStatus' = [quoteStatus EXCEPT ![q] = "approved"]
  /\ CreateCashPayment(q)
  /\ UNCHANGED <<providerVars, dispatchVars, opportunity, quoteRequest, quoteBidder,
                 trackingVars, outboxVars>>

ApproveProviderQuote(q) ==
  /\ quoteBidder[q] # NoProvider
  /\ Decidable(q)
  /\ status[quoteRequest[q]] = "pending_dispatch"
  /\ DecideBids(quoteRequest[q], {q})
  /\ CreateCashPayment(q)
  /\ Award(quoteRequest[q], quoteBidder[q])
  /\ UNCHANGED <<providerVars, quoteRequest, quoteBidder, trackingVars>>

RejectQuote(q) ==
  LET r == quoteRequest[q]
      p == quoteBidder[q]
  IN  /\ Decidable(q)
      /\ quoteStatus' = [quoteStatus EXCEPT ![q] = "rejected"]
      /\ IF p # NoProvider /\ opportunity[r][p] = "quoted"
           THEN SetOpportunity(r, p, "rejected")
           ELSE UNCHANGED opportunity
      /\ UNCHANGED <<providerVars, dispatchVars, quoteRequest, quoteBidder, payment,
                     trackingVars, outboxVars>>

-----------------------------------------------------------------------------
(* Cash.  The code takes the first payment row of the request it is given. *)

CollectCashPayment(r) ==
  \E q \in QuotesOf(r) :
    /\ payment[q] = "cash_due"
    /\ status[r] = "completed"
    /\ payment' = [payment EXCEPT ![q] = "cash_collected"]
    /\ UNCHANGED <<providerVars, dispatchVars, opportunity, quoteVars, trackingVars,
                   outboxVars>>

RefundCashPayment(r) ==
  \E q \in QuotesOf(r) :
    /\ payment[q] = "cash_collected"
    /\ payment' = [payment EXCEPT ![q] = "refunded"]
    /\ UNCHANGED <<providerVars, dispatchVars, opportunity, quoteVars, trackingVars,
                   outboxVars>>

-----------------------------------------------------------------------------
(* Live tracking.  A sample that is a duplicate or out of order leaves the *)
(* position as it is; one that is accepted leaves one.                     *)

SubmitProviderLocationSample(r) ==
  /\ TrackingEnabled
  /\ assigned[r] # NoProvider
  /\ status[r] \in Tracked
  /\ session[r] = "active"
  /\ position' = [position EXCEPT ![r] = TRUE]
  /\ UNCHANGED <<providerVars, dispatchVars, opportunity, quoteVars, payment, session,
                 outboxVars>>

StopProviderTrackingForOperations(r) ==
  /\ TrackingEnabled
  /\ status[r] # "none"
  /\ StopTracking(r, "operations_emergency")
  /\ UNCHANGED <<providerVars, dispatchVars, opportunity, quoteVars, payment, outboxVars>>

(* Retention deletes a stopped session, at whatever age.                   *)
PruneProviderTrackingData(r) ==
  /\ session[r] \in StopReason
  /\ session' = [session EXCEPT ![r] = "none"]
  /\ UNCHANGED <<providerVars, dispatchVars, opportunity, quoteVars, payment, position,
                 outboxVars>>

-----------------------------------------------------------------------------
ProviderNext == \E p \in Provider :
  \/ CreatePilotProvider(p)
  \/ VerifyPilotProvider(p)
  \/ SuspendPilotProvider(p)
  \/ ReactivatePilotProvider(p)
  \/ \E flag \in BOOLEAN : UpdateProviderAvailability(p, flag)

StaffNext == \E r \in Request :
  \/ \E providers \in SUBSET Provider : InviteProvidersToRequest(r, providers)
  \/ \E p \in Provider : CloseProviderOpportunity(r, p) \/ AssignProvider(r, p)
  \/ \E new \in NewStatus : UpdateStatus(r, new)
  \/ \E q \in Quote : ProposeQuote(r, q)
  \/ CollectCashPayment(r)
  \/ RefundCashPayment(r)
  \/ StopProviderTrackingForOperations(r)
  \/ PruneProviderTrackingData(r)

CustomerNext ==
  \/ \E r \in Request : CreateRequest(r)
  \/ \E q \in Quote : ApproveStaffQuote(q) \/ ApproveProviderQuote(q) \/ RejectQuote(q)

BidderNext ==
  \/ \E r \in Request, p \in Provider, q \in Quote : SubmitProviderQuote(r, p, q)
  \/ \E q \in Quote : WithdrawProviderQuote(q)
  \/ \E r \in Request, p \in Provider, new \in NewStatus \ {"cancelled"} :
       UpdateStatusForProvider(r, p, new)
  \/ \E r \in Request : SubmitProviderLocationSample(r)

Next == ProviderNext \/ StaffNext \/ CustomerNext \/ BidderNext

Spec == Init /\ [][Next]_vars

(* Between the read of an eligible provider and the commit a suspension    *)
(* may commit: the providers found are then eligible no more.  Any         *)
(* suitable provider stands here for those found at some earlier moment:   *)
(* more steps than the code takes, so that what holds of RacySpec holds of *)
(* the code.  RequestTransactions has the reads and allows those only.     *)
StaleNext == \E r \in Request :
  \/ \E found \in SUBSET Suitable[r] : CreateFound(r, found) \/ InviteFound(r, found)
  \/ \E p \in Suitable[r] : Assign(r, p)

RacySpec == Init /\ [][Next \/ StaleNext]_vars

-----------------------------------------------------------------------------
(* Safety.                                                                 *)

Dispatched == {"assigned", "on_the_way", "in_progress", "completed"}

(* One price per request: whatever assignment, withdrawal, staff quoting *)
(* and marketplace bidding do, two quotes of one request are never both    *)
(* approved, and cash is owed for the approved quote and no other; it is   *)
(* collected only for work that was completed.                             *)
OnePriceIsOwed ==
  /\ \A q1, q2 \in Quote :
       /\ quoteStatus[q1] = "approved" /\ quoteStatus[q2] = "approved"
       /\ quoteRequest[q1] = quoteRequest[q2]
       => q1 = q2
  /\ \A q \in Quote :
       /\ payment[q] # "none" <=> quoteStatus[q] = "approved"
       /\ payment[q] \in {"cash_collected", "refunded"}
            => status[quoteRequest[q]] = "completed"

(* The staff flow and the marketplace flow exclude each other, for the     *)
(* whole life of a request: it never holds quotes of both kinds, a staff   *)
(* quote needs a dispatched request, at most one of them is active, and    *)
(* while one is there is no opportunity to bid on.  decideQuote and        *)
(* assignProvider reject and close only marketplace rows, so a request     *)
(* with both would keep a live competitor.                                 *)
FlowsNeverMix ==
  \A q1 \in Quote : quoteStatus[q1] # "none" /\ quoteBidder[q1] = NoProvider =>
    /\ assigned[quoteRequest[q1]] # NoProvider
    /\ \A q2 \in QuotesOf(quoteRequest[q1]) :
         /\ quoteBidder[q2] = NoProvider
         /\ quoteStatus[q1] \in ActiveQuote /\ quoteStatus[q2] \in ActiveQuote => q1 = q2
    /\ quoteStatus[q1] \in ActiveQuote =>
         \A p \in Provider : opportunity[quoteRequest[q1]][p] = "none"

(* The opportunity row and the quote agree although withdrawal, which      *)
(* locks only the quote row, and staff closing each write one of them: a   *)
(* provider bids on a request at most once, a "quoted" row has its live    *)
(* bid, an invited one has none, and a live bid has a quoted row or one    *)
(* that staff closed under it.                                             *)
OpportunityTracksBid ==
  \A r \in Request, p \in Provider :
    /\ \A q1, q2 \in BidsOf(r, p) : q1 = q2
    /\ opportunity[r][p] \in {"none", "invited"} => BidsOf(r, p) = {}
    /\ opportunity[r][p] = "quoted" =>
         \E q \in BidsOf(r, p) : quoteStatus[q] = "proposed"
    /\ \A q \in BidsOf(r, p) :
         quoteStatus[q] = "proposed" => opportunity[r][p] \in {"quoted", "closed"}

(* The assigned provider is the single authority once a request is         *)
(* dispatched: an approved bid is its bid, and no bid of anyone is left    *)
(* undecided for the customer to approve, nor an opportunity still quoted. *)
AssignmentIsAuthoritative ==
  \A r \in Request :
    /\ status[r] \in Dispatched => assigned[r] # NoProvider
    /\ status[r] \in {"none", "pending_dispatch"} => assigned[r] = NoProvider
    /\ \A p \in Provider :
         /\ assigned[r] # NoProvider => opportunity[r][p] # "quoted"
         /\ \A q \in BidsOf(r, p) :
              /\ quoteStatus[q] = "proposed" => assigned[r] = NoProvider
              /\ quoteStatus[q] = "approved" => assigned[r] = p

(* Work that has started with staff quotes on record runs on one approved  *)
(* quote, whose cash is recorded, with no other still active, although the *)
(* customer may decide and staff may quote up to the moment it starts.     *)
StartedWorkIsAgreed ==
  \A r \in Request : status[r] \in {"in_progress", "completed"} /\ StaffQuotes(r) # {} =>
    \E q \in StaffQuotes(r) :
      /\ quoteStatus[q] = "approved"
      /\ payment[q] # "none"
      /\ \A other \in StaffQuotes(r) \ {q} : quoteStatus[other] \notin ActiveQuote

(* Location is collected only while it may be: an active session belongs   *)
(* to a request under way whose provider is verified, and a position is    *)
(* kept for an active session only.  Suspension, completion, cancellation  *)
(* and the operations stop each have to end both.                          *)
TrackingIsConfined ==
  \A r \in Request :
    /\ session[r] = "active" =>
         /\ TrackingEnabled
         /\ status[r] \in Tracked
         /\ assigned[r] # NoProvider
         /\ verification[assigned[r]] = "verified"
    /\ position[r] => session[r] = "active"

(* The dedupe keys name semantic events finely enough: over any sequence   *)
(* of transactions no event is enqueued under a key already taken, which   *)
(* the writer would drop without a word.                                   *)
NoEventIsSwallowed == swallowed = {}

(* The outbox says what happened: the customer and the winner are told of  *)
(* an assignment together and of that assignment only; the losers told     *)
(* are those whose opportunity the assignment closed; every quote,         *)
(* invitation and status on record was announced, a status only if the     *)
(* request went through it.  Of a request without a customer its providers *)
(* are told all the same, and nobody in the customer's place.              *)
Reached(s) ==
  CASE s = "on_the_way"  -> {"on_the_way", "in_progress", "completed", "cancelled"}
    [] s = "in_progress" -> {"in_progress", "completed"}
    [] s = "completed"   -> {"completed"}
    [] s = "cancelled"   -> {"cancelled"}

Told(r) ==
  /\ \A p \in Provider :
       /\ Key("provider_assigned", r, p) \in outbox <=> assigned[r] = p
       /\ Key("opportunity_invited", r, p) \in outbox <=> opportunity[r][p] # "none"
       /\ Key("opportunity_closed", r, p) \in outbox =>
            opportunity[r][p] = "closed" /\ assigned[r] \notin {NoProvider, p}
  /\ Key("assignment_confirmed", r, NoProvider) \in outbox
       <=> r \notin Ownerless /\ assigned[r] # NoProvider
  /\ Key("request_created", r, NoProvider) \in outbox
       <=> r \notin Ownerless /\ status[r] # "none"
  /\ \A q \in Quote : Key("quote_received", r, q) \in outbox
                        <=> r \notin Ownerless /\ quoteRequest[q] = r
  /\ \A s \in NewStatus :
       /\ r \notin Ownerless /\ status[r] = s => Key("status_updated", r, s) \in outbox
       /\ Key("status_updated", r, s) \in outbox =>
            r \notin Ownerless /\ status[r] \in Reached(s)

OutboxTellsTheStory == OutboxEnabled => \A r \in Request : Told(r)

(* History is final: a decided quote keeps its decision, the assigned      *)
(* provider is never replaced, a request that ended does not move again,   *)
(* and money that was collected or refunded never becomes due again.       *)
HistoryStep ==
  /\ \A q \in Quote :
       /\ quoteStatus[q] \notin {"none", "proposed"} => quoteStatus'[q] = quoteStatus[q]
       /\ quoteStatus[q] # "none" => /\ quoteStatus'[q] # "none"
                                     /\ quoteRequest'[q] = quoteRequest[q]
                                     /\ quoteBidder'[q] = quoteBidder[q]
       /\ payment[q] = "cash_collected" => payment'[q] \in {"cash_collected", "refunded"}
       /\ payment[q] = "refunded" => payment'[q] = "refunded"
  /\ \A r \in Request :
       /\ assigned[r] # NoProvider => assigned'[r] = assigned[r]
       /\ status[r] \in {"completed", "cancelled"} => status'[r] = status[r]
       /\ status[r] # "none" => status'[r] # "none"

HistoryIsFinal == [][HistoryStep]_vars

(* buraidah-pilot-runbook.md:47: after the customer rejects a quote, staff *)
(* send a new one.  It needs a request that still takes staff quotes.      *)
RejectedQuoteCanBeReplaced ==
  \A r \in Request :
    /\ status[r] \in {"assigned", "on_the_way"}
    /\ StaffQuotes(r) # {}
    /\ NoActive(QuotesOf(r))
    => \A p \in Provider : opportunity[r][p] = "none"

=============================================================================
