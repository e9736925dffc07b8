----------------------- MODULE ServiceRequestsProofs -----------------------
(***************************************************************************)
(* Proofs about ServiceRequests, for every set of requests, providers and  *)
(* quotes, every suitability relation and either setting of the switches.  *)
(***************************************************************************)
EXTENDS ServiceRequests, TLAPS

(* The inductive invariant is the conjunction of the safety properties:    *)
(* none of them is inductive alone.                                        *)
IInv ==
  /\ TypeOK
  /\ OnePriceIsOwed
  /\ FlowsNeverMix
  /\ OpportunityTracksBid
  /\ AssignmentIsAuthoritative
  /\ StartedWorkIsAgreed
  /\ TrackingIsConfined
  /\ OutboxTellsTheStory
  /\ NoEventIsSwallowed

USE NullAssumption, SuitableAssumption, OwnerlessAssumption, ConfigAssumption
USE DEF Verification, RequestStatus, OpportunityStatus, QuoteStatus, PaymentStatus,
        StopReason, SessionState, OpenOpportunity, ActiveQuote, Tracked, Dispatched,
        NewStatus, ToCustomer

-----------------------------------------------------------------------------
(* The outbox.                                                             *)

(* A dedupe key is its three parts.                                        *)
LEMMA KeyEquality ==
  ASSUME NEW t1, NEW r1, NEW s1, NEW t2, NEW r2, NEW s2
  PROVE  Key(t1, r1, s1) = Key(t2, r2, s2) <=> t1 = t2 /\ r1 = r2 /\ s1 = s2
BY DEF Key

(* The keys the transactions build are notification keys.                  *)
LEMMA KeyTypes ==
  ASSUME NEW r \in Request
  PROVE  /\ \A p \in Provider :
              /\ Key("opportunity_invited", r, p) \in NotificationKey
              /\ Key("opportunity_closed", r, p) \in NotificationKey
              /\ Key("provider_assigned", r, p) \in NotificationKey
         /\ Key("request_created", r, NoProvider) \in NotificationKey
         /\ Key("assignment_confirmed", r, NoProvider) \in NotificationKey
         /\ \A q \in Quote : Key("quote_received", r, q) \in NotificationKey
         /\ \A s \in RequestStatus : Key("status_updated", r, s) \in NotificationKey
BY DEF Key, NotificationKey, ProviderKey, CustomerKey, QuoteKey, StatusKey

(* Whether a notification has a recipient depends on whom it is for and,   *)
(* if for the customer, on whether the request has one.                    *)
LEMMA Addressed ==
  ASSUME NEW type, NEW r, NEW subject
  PROVE  HasRecipient(Key(type, r, subject)) <=> (type \in ToCustomer => r \notin Ownerless)
BY DEF HasRecipient, Key

(* What is enqueued stays within the keys there are.                       *)
LEMMA EnqueueType ==
  ASSUME NEW keys \in SUBSET NotificationKey, TypeOK, Enqueue(keys)
  PROVE  outbox' \subseteq NotificationKey /\ swallowed' \subseteq NotificationKey
BY DEF TypeOK, Enqueue, outboxVars

(* Fresh keys swallow nothing, and those with a recipient are in.          *)
LEMMA EnqueueFresh ==
  ASSUME NEW keys, NoEventIsSwallowed, OutboxEnabled => keys \cap outbox = {}, Enqueue(keys)
  PROVE  /\ NoEventIsSwallowed'
         /\ OutboxEnabled =>
              \A k : k \in outbox' <=> k \in outbox \/ (k \in keys /\ HasRecipient(k))
BY DEF NoEventIsSwallowed, Enqueue, outboxVars

-----------------------------------------------------------------------------
(* Providers and tracking: of the invariant only the types and the         *)
(* tracking sessions are at stake.                                         *)

(* A step that leaves the requests, the quotes and the outbox alone only   *)
(* has the types and the tracking sessions to preserve.                    *)
LEMMA DispatchUntouched ==
  ASSUME IInv, TypeOK', TrackingIsConfined',
         UNCHANGED <<status, assigned, opportunity, quoteStatus, quoteRequest, quoteBidder,
                     payment, outbox, swallowed>>
  PROVE  IInv'
<1>1. OnePriceIsOwed' /\ FlowsNeverMix' /\ OpportunityTracksBid'
  BY DEF IInv, OnePriceIsOwed, FlowsNeverMix, OpportunityTracksBid, QuotesOf, BidsOf
<1>2. AssignmentIsAuthoritative' /\ StartedWorkIsAgreed'
  BY DEF IInv, AssignmentIsAuthoritative, StartedWorkIsAgreed, QuotesOf, BidsOf,
         StaffQuotes
<1>3. OutboxTellsTheStory' /\ NoEventIsSwallowed'
  BY DEF IInv, OutboxTellsTheStory, Told, NoEventIsSwallowed
<1>4. QED
  BY <1>1, <1>2, <1>3 DEF IInv

(* The agreement on started work stands while its staff quotes do.         *)
LEMMA AgreementUntouched ==
  ASSUME StartedWorkIsAgreed,
         \A x \in Request : status'[x] \in {"in_progress", "completed"} =>
           /\ status[x] \in {"in_progress", "completed"}
           /\ StaffQuotes(x)' = StaffQuotes(x)
           /\ \A q \in StaffQuotes(x) :
                /\ quoteStatus'[q] = quoteStatus[q]
                /\ payment[q] # "none" => payment'[q] # "none"
  PROVE  StartedWorkIsAgreed'
<1> SUFFICES ASSUME NEW x \in Request, status'[x] \in {"in_progress", "completed"},
                    StaffQuotes(x)' # {}
             PROVE  (\E q \in StaffQuotes(x) :
                       /\ quoteStatus[q] = "approved"
                       /\ payment[q] # "none"
                       /\ \A other \in StaffQuotes(x) \ {q} :
                            quoteStatus[other] \notin ActiveQuote)'
  BY DEF StartedWorkIsAgreed
<1>1. PICK q \in StaffQuotes(x) :
        /\ quoteStatus[q] = "approved"
        /\ payment[q] # "none"
        /\ \A other \in StaffQuotes(x) \ {q} : quoteStatus[other] \notin ActiveQuote
  BY DEF StartedWorkIsAgreed
<1>2. QED
  BY <1>1

(* A new provider is pending and unavailable.                              *)
LEMMA CreatePilotProviderInv ==
  ASSUME IInv, NEW p \in Provider, CreatePilotProvider(p)
  PROVE  IInv'
<1> USE DEF CreatePilotProvider, dispatchVars, quoteVars, trackingVars, outboxVars
<1>1. TypeOK'
  BY DEF IInv, TypeOK, RowsExist
<1>2. TrackingIsConfined'
  BY DEF IInv, TypeOK, TrackingIsConfined
<1>3. QED
  BY <1>1, <1>2, DispatchUntouched

(* Availability is no condition of a running session.                      *)
LEMMA UpdateProviderAvailabilityInv ==
  ASSUME IInv, NEW p \in Provider, NEW flag \in BOOLEAN, UpdateProviderAvailability(p, flag)
  PROVE  IInv'
<1> USE DEF UpdateProviderAvailability, dispatchVars, quoteVars, trackingVars, outboxVars
<1>1. TypeOK'
  BY DEF IInv, TypeOK, RowsExist
<1>2. TrackingIsConfined'
  BY DEF IInv, TypeOK, TrackingIsConfined
<1>3. QED
  BY <1>1, <1>2, DispatchUntouched

(* A suspension ends the sessions that need the provider verified.         *)
LEMMA UpdatePilotProviderVerificationInv ==
  ASSUME IInv, NEW p \in Provider, NEW expected \in Verification, NEW new \in Verification,
         UpdatePilotProviderVerification(p, expected, new)
  PROVE  IInv'
<1> USE DEF UpdatePilotProviderVerification, dispatchVars, quoteVars, outboxVars
<1>1. TypeOK'
  BY DEF IInv, TypeOK, RowsExist
<1>2. TrackingIsConfined'
  BY DEF IInv, TypeOK, TrackingIsConfined
<1>3. QED
  BY <1>1, <1>2, DispatchUntouched

(* A sample leaves a position behind an active session only.               *)
LEMMA SubmitProviderLocationSampleInv ==
  ASSUME IInv, NEW r \in Request, SubmitProviderLocationSample(r)
  PROVE  IInv'
<1> USE DEF SubmitProviderLocationSample, providerVars, dispatchVars, quoteVars, outboxVars
<1>1. TypeOK'
  BY DEF IInv, TypeOK, RowsExist
<1>2. TrackingIsConfined'
  BY DEF IInv, TypeOK, TrackingIsConfined
<1>3. QED
  BY <1>1, <1>2, DispatchUntouched

(* The operations stop takes the position with the session.                *)
LEMMA StopProviderTrackingForOperationsInv ==
  ASSUME IInv, NEW r \in Request, StopProviderTrackingForOperations(r)
  PROVE  IInv'
<1> USE DEF StopProviderTrackingForOperations, StopTracking, providerVars, dispatchVars,
            quoteVars, outboxVars
<1>1. TypeOK'
  BY DEF IInv, TypeOK, RowsExist
<1>2. TrackingIsConfined'
  BY DEF IInv, TypeOK, TrackingIsConfined
<1>3. QED
  BY <1>1, <1>2, DispatchUntouched

(* Retention takes a session that is no longer active.                     *)
LEMMA PruneProviderTrackingDataInv ==
  ASSUME IInv, NEW r \in Request, PruneProviderTrackingData(r)
  PROVE  IInv'
<1> USE DEF PruneProviderTrackingData, providerVars, dispatchVars, quoteVars, outboxVars
<1>1. TypeOK'
  BY DEF IInv, TypeOK, RowsExist
<1>2. TrackingIsConfined'
  BY DEF IInv, TypeOK, TrackingIsConfined
<1>3. QED
  BY <1>1, <1>2, DispatchUntouched

-----------------------------------------------------------------------------
(* The request, its opportunities and its assignment.                      *)

(* A new request has no quotes, so no row of it disagrees with another.    *)
LEMMA CreateFoundInv ==
  ASSUME IInv, NEW r \in Request, NEW found \in SUBSET Provider, CreateFound(r, found)
  PROVE  IInv'
<1> DEFINE keys == {Key("opportunity_invited", r, p) : p \in found}
                     \cup {Key("request_created", r, NoProvider)}
<1> USE DEF CreateFound, providerVars, quoteVars, trackingVars
<1>2. OutboxEnabled => keys \cap outbox = {}
  BY KeyEquality DEF IInv, OutboxTellsTheStory, Told, TypeOK, RowsExist
<1>3. NoEventIsSwallowed' /\ (OutboxEnabled =>
        \A k : k \in outbox' <=> k \in outbox \/ (k \in keys /\ HasRecipient(k)))
  BY <1>2, EnqueueFresh DEF IInv
<1>4. TypeOK'
  <2>1. keys \subseteq NotificationKey
    BY KeyTypes
  <2>2. outbox' \subseteq NotificationKey /\ swallowed' \subseteq NotificationKey
    BY <2>1, EnqueueType DEF IInv
  <2>3. QED
    BY <2>2 DEF IInv, TypeOK, RowsExist
<1>5. OnePriceIsOwed'
  BY DEF IInv, OnePriceIsOwed, TypeOK, RowsExist
<1>6. FlowsNeverMix'
  BY DEF IInv, FlowsNeverMix, TypeOK, RowsExist, QuotesOf
<1>7. OpportunityTracksBid'
  BY DEF IInv, OpportunityTracksBid, TypeOK, RowsExist, QuotesOf, BidsOf
<1>8. AssignmentIsAuthoritative'
  BY DEF IInv, AssignmentIsAuthoritative, TypeOK, RowsExist, QuotesOf, BidsOf
<1>9. StartedWorkIsAgreed'
  BY SMTT(30) DEF IInv, StartedWorkIsAgreed, TypeOK, QuotesOf, StaffQuotes
<1>10. TrackingIsConfined'
  BY DEF IInv, TrackingIsConfined, TypeOK
<1>11. OutboxTellsTheStory'
  <2> SUFFICES ASSUME OutboxEnabled, NEW x \in Request
               PROVE  Told(x)'
    BY DEF OutboxTellsTheStory
  <2> Told(x)
    BY DEF IInv, OutboxTellsTheStory
  <2>1. \A t, s : Key(t, x, s) \in outbox' <=>
           \/ Key(t, x, s) \in outbox
           \/ x = r /\ t = "opportunity_invited" /\ s \in found
           \/ x = r /\ t = "request_created" /\ s = NoProvider /\ x \notin Ownerless
    BY <1>3, KeyEquality, Addressed
  <2>2. QED
    BY <2>1 DEF Told, IInv, TypeOK, RowsExist, Reached
<1>12. QED
  BY <1>3, <1>4, <1>5, <1>6, <1>7, <1>8, <1>9, <1>10, <1>11 DEF IInv

(* An invitation only fills a missing row, and never beside an active      *)
(* staff quote.                                                            *)
LEMMA InviteFoundInv ==
  ASSUME IInv, NEW r \in Request, NEW found \in SUBSET Provider, InviteFound(r, found)
  PROVE  IInv'
<1> DEFINE invited == {p \in found : opportunity[r][p] = "none"}
           keys == {Key("opportunity_invited", r, p) : p \in invited}
<1> USE DEF InviteFound, Invite, providerVars, dispatchVars, quoteVars, trackingVars
<1>1. OutboxEnabled => keys \cap outbox = {}
  BY KeyEquality DEF IInv, OutboxTellsTheStory, Told, TypeOK
<1>2. NoEventIsSwallowed' /\ (OutboxEnabled =>
        \A k : k \in outbox' <=> k \in outbox \/ (k \in keys /\ HasRecipient(k)))
  BY <1>1, EnqueueFresh DEF IInv
<1>3. TypeOK'
  <2>1. outbox' \subseteq NotificationKey /\ swallowed' \subseteq NotificationKey
    BY KeyTypes, EnqueueType DEF IInv
  <2>2. QED
    BY <2>1 DEF IInv, TypeOK, RowsExist
<1>4. OnePriceIsOwed' /\ StartedWorkIsAgreed' /\ TrackingIsConfined'
  BY DEF IInv, OnePriceIsOwed, StartedWorkIsAgreed, QuotesOf, StaffQuotes, TrackingIsConfined
<1>5. FlowsNeverMix'
  BY DEF IInv, FlowsNeverMix, TypeOK, RowsExist, QuotesOf, NoActive
<1>6. OpportunityTracksBid'
  BY DEF IInv, OpportunityTracksBid, TypeOK, QuotesOf, BidsOf
<1>7. AssignmentIsAuthoritative'
  BY DEF IInv, AssignmentIsAuthoritative, TypeOK, QuotesOf, BidsOf
<1>8. OutboxTellsTheStory'
  <2> SUFFICES ASSUME OutboxEnabled, NEW x \in Request
               PROVE  Told(x)'
    BY DEF OutboxTellsTheStory
  <2> Told(x)
    BY DEF IInv, OutboxTellsTheStory
  <2>1. \A t, s : Key(t, x, s) \in outbox' <=>
           \/ Key(t, x, s) \in outbox
           \/ x = r /\ t = "opportunity_invited" /\ s \in invited
    BY <1>2, KeyEquality, Addressed
  <2>2. QED
    BY <2>1 DEF Told, IInv, TypeOK
<1>9. QED
  BY <1>2, <1>3, <1>4, <1>5, <1>6, <1>7, <1>8 DEF IInv

(* Closing leaves the bid behind a closed row.                             *)
LEMMA CloseProviderOpportunityInv ==
  ASSUME IInv, NEW r \in Request, NEW p \in Provider, CloseProviderOpportunity(r, p)
  PROVE  IInv'
<1> USE DEF CloseProviderOpportunity, SetOpportunity, Open, providerVars, dispatchVars,
            quoteVars, trackingVars, outboxVars
<1>1. TypeOK'
  BY DEF IInv, TypeOK, RowsExist
<1>2. OnePriceIsOwed' /\ StartedWorkIsAgreed' /\ TrackingIsConfined' /\ NoEventIsSwallowed'
  BY DEF IInv, OnePriceIsOwed, StartedWorkIsAgreed, QuotesOf, StaffQuotes, TrackingIsConfined, NoEventIsSwallowed
<1>3. FlowsNeverMix'
  BY DEF IInv, FlowsNeverMix, TypeOK, RowsExist, QuotesOf
<1>4. OpportunityTracksBid'
  BY DEF IInv, OpportunityTracksBid, TypeOK, QuotesOf, BidsOf
<1>5. AssignmentIsAuthoritative'
  BY DEF IInv, AssignmentIsAuthoritative, TypeOK, QuotesOf, BidsOf
<1>6. OutboxTellsTheStory'
  BY DEF IInv, OutboxTellsTheStory, Told, TypeOK
<1>7. QED
  BY <1>1, <1>2, <1>3, <1>4, <1>5, <1>6 DEF IInv

(* What an award needs: r is pending, so nobody is assigned yet, and every *)
(* bid of r is decided in the same step.                                   *)
LEMMA AwardOutbox ==
  ASSUME IInv, NEW r \in Request, NEW p \in Provider, status[r] = "pending_dispatch",
         Award(r, p), UNCHANGED quoteRequest
  PROVE  OutboxTellsTheStory' /\ NoEventIsSwallowed'
         /\ outbox' \subseteq NotificationKey /\ swallowed' \subseteq NotificationKey
<1> DEFINE keys == {Key("provider_assigned", r, p), Key("assignment_confirmed", r, NoProvider)}
                     \cup {Key("opportunity_closed", r, x) : x \in Open(r) \ {p}}
<1> USE DEF Award
<1>1. assigned[r] = NoProvider /\ Open(r) \subseteq Provider
  BY DEF IInv, AssignmentIsAuthoritative, Open
<1>2. OutboxEnabled => keys \cap outbox = {}
  BY <1>1, KeyEquality DEF IInv, OutboxTellsTheStory, Told, TypeOK, Open
<1>3. NoEventIsSwallowed' /\ (OutboxEnabled =>
        \A k : k \in outbox' <=> k \in outbox \/ (k \in keys /\ HasRecipient(k)))
  BY <1>2, EnqueueFresh DEF IInv
<1>4. outbox' \subseteq NotificationKey /\ swallowed' \subseteq NotificationKey
  <2>1. keys \subseteq NotificationKey
    BY <1>1, KeyTypes
  <2>2. QED
    BY <2>1, EnqueueType DEF IInv
<1>5. OutboxTellsTheStory'
  <2> SUFFICES ASSUME OutboxEnabled, NEW x \in Request
               PROVE  Told(x)'
    BY DEF OutboxTellsTheStory
  <2> Told(x)
    BY DEF IInv, OutboxTellsTheStory
  <2>1. \A t, s : Key(t, x, s) \in outbox' <=>
           \/ Key(t, x, s) \in outbox
           \/ x = r /\ t = "provider_assigned" /\ s = p
           \/ x = r /\ t = "assignment_confirmed" /\ s = NoProvider /\ x \notin Ownerless
           \/ x = r /\ t = "opportunity_closed" /\ s \in Open(r) \ {p}
    BY <1>3, KeyEquality, Addressed
  <2>2. QED
    BY <1>1, <2>1 DEF Told, IInv, TypeOK, Reached, Open
<1>6. QED
  BY <1>3, <1>4, <1>5

(* Which bids an award decides, and how.                                   *)
LEMMA BidsDecided ==
  ASSUME IInv, NEW r \in Request, NEW approved \in SUBSET Quote, DecideBids(r, approved)
  PROVE  /\ quoteStatus' \in [Quote -> QuoteStatus]
         /\ \A q \in Quote :
              quoteStatus'[q] =
                IF q \in approved THEN "approved"
                ELSE IF quoteRequest[q] = r /\ quoteBidder[q] # NoProvider
                        /\ quoteStatus[q] = "proposed"
                  THEN "rejected" ELSE quoteStatus[q]
BY DEF DecideBids, QuotesOf, StaffQuotes, IInv, TypeOK

(* Assignment by staff: the award, with every bid rejected.                *)
LEMMA AssignInv ==
  ASSUME IInv, NEW r \in Request, NEW p \in Provider, Assign(r, p)
  PROVE  IInv'
<1> USE DEF Assign, providerVars, trackingVars
<1>1. OutboxTellsTheStory' /\ NoEventIsSwallowed'
      /\ outbox' \subseteq NotificationKey /\ swallowed' \subseteq NotificationKey
  BY AwardOutbox
<1>2. quoteStatus' \in [Quote -> QuoteStatus] /\ \A q \in Quote :
        quoteStatus'[q] = IF quoteRequest[q] = r /\ quoteBidder[q] # NoProvider
                             /\ quoteStatus[q] = "proposed"
                            THEN "rejected" ELSE quoteStatus[q]
  BY BidsDecided
<1> USE DEF Award
<1>3. TypeOK'
  BY <1>1, <1>2 DEF IInv, TypeOK, RowsExist
<1>4. OnePriceIsOwed'
  BY <1>2 DEF IInv, OnePriceIsOwed, TypeOK, RowsExist
<1>5. FlowsNeverMix'
  BY <1>2 DEF IInv, FlowsNeverMix, TypeOK, RowsExist, QuotesOf, Open
<1>6. OpportunityTracksBid'
  BY <1>2 DEF IInv, OpportunityTracksBid, TypeOK, QuotesOf, BidsOf, Open
<1>7. AssignmentIsAuthoritative'
  BY <1>2 DEF IInv, AssignmentIsAuthoritative, TypeOK, QuotesOf, BidsOf, Open
<1>8. StartedWorkIsAgreed'
  BY <1>2, AgreementUntouched DEF IInv, TypeOK, QuotesOf, StaffQuotes
<1>9. TrackingIsConfined'
  BY DEF IInv, TrackingIsConfined, AssignmentIsAuthoritative, TypeOK
<1>10. QED
  BY <1>1, <1>3, <1>4, <1>5, <1>6, <1>7, <1>8, <1>9 DEF IInv

(* Stopping keeps the types of the tracking rows.                          *)
LEMMA StopTrackingType ==
  ASSUME IInv, NEW r \in Request, NEW reason \in StopReason, StopTracking(r, reason)
  PROVE  session' \in [Request -> SessionState] /\ position' \in [Request -> BOOLEAN]
BY DEF StopTracking, IInv, TypeOK

(* Both routes to a new status; tracking is each route's own.              *)
LEMMA SetStatusInv ==
  ASSUME IInv, NEW r \in Request, NEW new \in NewStatus, SetStatus(r, new),
         session' \in [Request -> SessionState], position' \in [Request -> BOOLEAN],
         TrackingIsConfined'
  PROVE  IInv'
<1> USE DEF SetStatus, providerVars, quoteVars
<1>0. /\ new = "on_the_way" => status[r] = "assigned"
      /\ new = "in_progress" => status[r] = "on_the_way"
      /\ new = "completed" => status[r] = "in_progress"
      /\ new = "cancelled" => status[r] \in {"pending_dispatch", "assigned", "on_the_way"}
  BY DEF AllowedPrevious
<1>1. OutboxEnabled => {Key("status_updated", r, new)} \cap outbox = {}
  BY <1>0, KeyEquality DEF IInv, OutboxTellsTheStory, Told, Reached
<1>2. NoEventIsSwallowed' /\ (OutboxEnabled =>
        \A k : k \in outbox' <=> k \in outbox \/ (k \in {Key("status_updated", r, new)} /\ HasRecipient(k)))
  BY <1>1, EnqueueFresh DEF IInv
<1>3. TypeOK'
  <2>1. {Key("status_updated", r, new)} \subseteq NotificationKey
    BY KeyTypes
  <2>2. outbox' \subseteq NotificationKey /\ swallowed' \subseteq NotificationKey
    BY <2>1, EnqueueType DEF IInv
  <2>3. status' \in [Request -> RequestStatus]
    BY DEF IInv, TypeOK
  <2>4. RowsExist'
    BY DEF IInv, TypeOK, RowsExist
  <2>5. QED
    BY <2>2, <2>3, <2>4 DEF IInv, TypeOK
<1>4. OnePriceIsOwed'
  BY <1>0 DEF IInv, OnePriceIsOwed, TypeOK, RowsExist
<1>5. FlowsNeverMix' /\ OpportunityTracksBid'
  BY DEF IInv, FlowsNeverMix, OpportunityTracksBid, QuotesOf, BidsOf
<1>6. AssignmentIsAuthoritative'
  BY <1>0 DEF IInv, AssignmentIsAuthoritative, TypeOK, QuotesOf, BidsOf
<1>7. StartedWorkIsAgreed'
  <2> SUFFICES ASSUME NEW x \in Request, status'[x] \in {"in_progress", "completed"},
                      StaffQuotes(x) # {}
               PROVE  \E q \in StaffQuotes(x) :
                        /\ quoteStatus[q] = "approved"
                        /\ payment[q] # "none"
                        /\ \A other \in StaffQuotes(x) \ {q} : quoteStatus[other] \notin ActiveQuote
    BY DEF StartedWorkIsAgreed, QuotesOf, StaffQuotes
  <2>1. CASE x # r \/ new = "completed"
    BY <1>0, <2>1 DEF IInv, StartedWorkIsAgreed, TypeOK
  <2>2. CASE x = r /\ new = "in_progress"
    <3>1. PICK q \in StaffQuotes(r) : quoteStatus[q] = "approved"
      BY <2>2 DEF ServiceMayStart
    <3>2. payment[q] # "none"
      BY <3>1 DEF IInv, OnePriceIsOwed, StaffQuotes, QuotesOf
    <3>3. \A other \in StaffQuotes(r) \ {q} : quoteStatus[other] \notin ActiveQuote
      BY <3>1 DEF IInv, FlowsNeverMix, StaffQuotes, QuotesOf
    <3>4. QED
      BY <2>2, <3>1, <3>2, <3>3
  <2>3. QED
    BY <2>1, <2>2 DEF IInv, TypeOK
<1>8. OutboxTellsTheStory'
  <2> SUFFICES ASSUME OutboxEnabled, NEW x \in Request
               PROVE  Told(x)'
    BY DEF OutboxTellsTheStory
  <2> Told(x)
    BY DEF IInv, OutboxTellsTheStory
  <2>1. \A t, s : Key(t, x, s) \in outbox' <=>
           \/ Key(t, x, s) \in outbox
           \/ x = r /\ t = "status_updated" /\ s = new /\ x \notin Ownerless
    BY <1>2, KeyEquality, Addressed
  <2>2. QED
    BY <1>0, <2>1 DEF Told, IInv, TypeOK, Reached
<1>9. QED
  BY <1>2, <1>3, <1>4, <1>5, <1>6, <1>7, <1>8 DEF IInv

(* Staff's route to a new status: it ends tracking with the work.          *)
LEMMA UpdateStatusInv ==
  ASSUME IInv, NEW r \in Request, NEW new \in NewStatus, UpdateStatus(r, new)
  PROVE  IInv'
<1>1. session' \in [Request -> SessionState] /\ position' \in [Request -> BOOLEAN]
  BY StopTrackingType DEF UpdateStatus, trackingVars, IInv, TypeOK
<1>2. TrackingIsConfined'
  BY DEF UpdateStatus, SetStatus, AllowedPrevious, StopTracking, trackingVars, providerVars,
         IInv, TypeOK, TrackingIsConfined
<1>3. QED
  BY <1>1, <1>2, SetStatusInv DEF UpdateStatus

(* The provider's route: setting out starts a session, for a fit provider. *)
LEMMA UpdateStatusForProviderInv ==
  ASSUME IInv, NEW r \in Request, NEW p \in Provider, NEW new \in NewStatus \ {"cancelled"},
         UpdateStatusForProvider(r, p, new)
  PROVE  IInv'
<1>1. session' \in [Request -> SessionState] /\ position' \in [Request -> BOOLEAN]
  BY SMTT(30), StopTrackingType DEF UpdateStatusForProvider, StartTracking, trackingVars, IInv, TypeOK
<1>2. TrackingIsConfined'
  BY DEF UpdateStatusForProvider, SetStatus, AllowedPrevious, StartTracking, StopTracking, Fit,
         trackingVars, providerVars, IInv, TypeOK, TrackingIsConfined
<1>3. QED
  BY <1>1, <1>2, SetStatusInv DEF UpdateStatusForProvider

-----------------------------------------------------------------------------
(* Quotes.                                                                 *)

(* Announcing a quote that is new: nothing is swallowed, and the outbox    *)
(* still tells the story of every request.                                 *)
LEMMA QuoteAnnounced ==
  ASSUME IInv, NEW r \in Request, NEW q \in Quote, NEW bidder \in Provider \cup {NoProvider},
         InsertQuote(q, r, bidder), Enqueue({Key("quote_received", r, q)}),
         UNCHANGED <<status, assigned>>,
         opportunity' \in [Request -> [Provider -> OpportunityStatus]],
         \A x \in Request, y \in Provider :
           /\ opportunity'[x][y] = "none" <=> opportunity[x][y] = "none"
           /\ opportunity[x][y] = "closed" => opportunity'[x][y] = "closed"
  PROVE  OutboxTellsTheStory' /\ NoEventIsSwallowed'
         /\ outbox' \subseteq NotificationKey /\ swallowed' \subseteq NotificationKey
<1>1. OutboxEnabled => {Key("quote_received", r, q)} \cap outbox = {}
  BY KeyEquality DEF IInv, OutboxTellsTheStory, Told, TypeOK, RowsExist, InsertQuote
<1>2. NoEventIsSwallowed' /\ (OutboxEnabled =>
        \A k : k \in outbox' <=> k \in outbox \/ (k \in {Key("quote_received", r, q)} /\ HasRecipient(k)))
  BY <1>1, EnqueueFresh DEF IInv
<1>3. outbox' \subseteq NotificationKey /\ swallowed' \subseteq NotificationKey
  <2>1. {Key("quote_received", r, q)} \subseteq NotificationKey
    BY KeyTypes
  <2>2. QED
    BY <2>1, EnqueueType DEF IInv
<1>4. OutboxTellsTheStory'
  <2> SUFFICES ASSUME OutboxEnabled, NEW x \in Request
               PROVE  Told(x)'
    BY DEF OutboxTellsTheStory
  <2> Told(x)
    BY DEF IInv, OutboxTellsTheStory
  <2>1. \A t, s : Key(t, x, s) \in outbox' <=>
           \/ Key(t, x, s) \in outbox
           \/ x = r /\ t = "quote_received" /\ s = q /\ x \notin Ownerless
    BY <1>2, KeyEquality, Addressed
  <2>2. QED
    BY <2>1 DEF Told, IInv, TypeOK, RowsExist, InsertQuote
<1>5. QED
  BY <1>2, <1>3, <1>4

(* A staff quote, proposed only where no opportunity row exists.           *)
LEMMA ProposeQuoteInv ==
  ASSUME IInv, NEW r \in Request, NEW q \in Quote, ProposeQuote(r, q)
  PROVE  IInv'
<1> USE DEF ProposeQuote, InsertQuote, providerVars, dispatchVars, trackingVars
<1>1. OutboxTellsTheStory' /\ NoEventIsSwallowed'
      /\ outbox' \subseteq NotificationKey /\ swallowed' \subseteq NotificationKey
  BY QuoteAnnounced DEF IInv, TypeOK
<1>2. assigned[r] # NoProvider
  BY DEF IInv, AssignmentIsAuthoritative
<1>3. TypeOK'
  BY <1>1 DEF IInv, TypeOK, RowsExist
<1>4. OnePriceIsOwed'
  BY DEF IInv, OnePriceIsOwed, TypeOK, RowsExist
<1>5. \A x \in QuotesOf(r) : quoteBidder[x] = NoProvider /\ quoteStatus[x] \notin ActiveQuote
  BY DEF IInv, TypeOK, OpportunityTracksBid, NoActive, QuotesOf, BidsOf
<1>6. FlowsNeverMix'
  BY <1>2, <1>5 DEF IInv, FlowsNeverMix, TypeOK, RowsExist, QuotesOf
<1>7. OpportunityTracksBid' /\ AssignmentIsAuthoritative'
  BY DEF IInv, OpportunityTracksBid, AssignmentIsAuthoritative, TypeOK, RowsExist, QuotesOf,
         BidsOf
<1>8. StartedWorkIsAgreed'
  <2>1. \A x \in Request : status[x] \in {"in_progress", "completed"} =>
          /\ StaffQuotes(x)' = StaffQuotes(x)
          /\ \A b \in StaffQuotes(x) : quoteStatus'[b] = quoteStatus[b]
    BY DEF IInv, TypeOK, RowsExist, QuotesOf, StaffQuotes
  <2>2. QED
    BY <2>1, AgreementUntouched DEF IInv
<1>9. TrackingIsConfined'
  BY DEF IInv, TrackingIsConfined
<1>10. QED
  BY <1>1, <1>3, <1>4, <1>6, <1>7, <1>8, <1>9 DEF IInv

(* A bid: its opportunity is open, so the provider has none yet unless it  *)
(* is quoted, and a quoted one holds a proposed bid.                       *)
LEMMA SubmitProviderQuoteInv ==
  ASSUME IInv, NEW r \in Request, NEW p \in Provider, NEW q \in Quote,
         SubmitProviderQuote(r, p, q)
  PROVE  IInv'
<1> USE DEF SubmitProviderQuote, InsertQuote, SetOpportunity, Open, providerVars,
            dispatchVars, trackingVars
<1>1. opportunity' \in [Request -> [Provider -> OpportunityStatus]]
      /\ \A x \in Request, y \in Provider :
           opportunity'[x][y] = IF x = r /\ y = p THEN "quoted" ELSE opportunity[x][y]
  BY DEF IInv, TypeOK
<1>2. OutboxTellsTheStory' /\ NoEventIsSwallowed'
      /\ outbox' \subseteq NotificationKey /\ swallowed' \subseteq NotificationKey
  BY <1>1, QuoteAnnounced DEF IInv, TypeOK
<1>3. assigned[r] = NoProvider /\ BidsOf(r, p) = {}
  BY DEF IInv, AssignmentIsAuthoritative, OpportunityTracksBid, TypeOK, NoActive, BidsOf,
         QuotesOf
<1>4. TypeOK'
  BY <1>1, <1>2 DEF IInv, TypeOK, RowsExist
<1>5. OnePriceIsOwed'
  BY DEF IInv, OnePriceIsOwed, TypeOK, RowsExist
<1>6. FlowsNeverMix'
  BY <1>1, <1>3 DEF IInv, FlowsNeverMix, TypeOK, RowsExist, QuotesOf
<1>7. OpportunityTracksBid'
  BY <1>1, <1>3 DEF IInv, OpportunityTracksBid, TypeOK, RowsExist, QuotesOf, BidsOf
<1>8. AssignmentIsAuthoritative'
  BY <1>1, <1>3 DEF IInv, AssignmentIsAuthoritative, TypeOK, RowsExist, QuotesOf, BidsOf
<1>9. StartedWorkIsAgreed'
  <2>1. /\ \A x \in Request : StaffQuotes(x)' = StaffQuotes(x)
        /\ \A x \in Request : \A b \in StaffQuotes(x) : quoteStatus'[b] = quoteStatus[b]
    BY DEF IInv, TypeOK, RowsExist, QuotesOf, StaffQuotes
  <2>2. QED
    BY <2>1, AgreementUntouched DEF IInv
<1>10. TrackingIsConfined'
  BY DEF IInv, TrackingIsConfined
<1>11. QED
  BY <1>2, <1>4, <1>5, <1>6, <1>7, <1>8, <1>9, <1>10 DEF IInv

(* A withdrawal writes the opportunity whatever it was.  A provider bids   *)
(* at most once, so no other bid of its depends on that row; and an        *)
(* undecided bid is never one of the losers the outbox told.               *)
LEMMA WithdrawProviderQuoteInv ==
  ASSUME IInv, NEW q \in Quote, WithdrawProviderQuote(q)
  PROVE  IInv'
<1> DEFINE r == quoteRequest[q]
           p == quoteBidder[q]
<1> USE DEF WithdrawProviderQuote, SetOpportunity, providerVars, dispatchVars,
            trackingVars, outboxVars
<1>1. r \in Request /\ p \in Provider /\ status[r] # "none"
  BY DEF IInv, TypeOK, RowsExist
<1>2. opportunity' \in [Request -> [Provider -> OpportunityStatus]]
      /\ \A x \in Request, y \in Provider :
           opportunity'[x][y] = IF x = r /\ y = p THEN "withdrawn" ELSE opportunity[x][y]
  BY <1>1 DEF IInv, TypeOK
<1>3. /\ assigned[r] = NoProvider
      /\ BidsOf(r, p) = {q}
      /\ opportunity[r][p] \in {"quoted", "closed"}
  BY <1>1 DEF IInv, AssignmentIsAuthoritative, OpportunityTracksBid, BidsOf, QuotesOf
<1>4. TypeOK'
  BY <1>1, <1>2 DEF IInv, TypeOK, RowsExist
<1>5. OnePriceIsOwed'
  BY DEF IInv, OnePriceIsOwed, TypeOK
<1>6. FlowsNeverMix'
  BY <1>1, <1>2, <1>3 DEF IInv, FlowsNeverMix, TypeOK, QuotesOf
<1>7. OpportunityTracksBid'
  <2> SUFFICES ASSUME NEW x \in Request, NEW y \in Provider
               PROVE  /\ \A q1, q2 \in BidsOf(x, y) : q1 = q2
                      /\ opportunity'[x][y] \in {"none", "invited"} => BidsOf(x, y) = {}
                      /\ opportunity'[x][y] = "quoted" =>
                           \E b \in BidsOf(x, y) : quoteStatus'[b] = "proposed"
                      /\ \A b \in BidsOf(x, y) : quoteStatus'[b] = "proposed"
                           => opportunity'[x][y] \in {"quoted", "closed"}
    BY DEF OpportunityTracksBid, BidsOf, QuotesOf
  <2>1. CASE x = r /\ y = p
    BY <1>1, <1>2, <1>3, <2>1 DEF IInv, TypeOK
  <2>2. CASE ~(x = r /\ y = p)
    BY <1>1, <1>2, <2>2 DEF IInv, OpportunityTracksBid, TypeOK, BidsOf, QuotesOf
  <2>3. QED
    BY <2>1, <2>2
<1>8. AssignmentIsAuthoritative'
  BY <1>1, <1>2, <1>3 DEF IInv, AssignmentIsAuthoritative, TypeOK, QuotesOf, BidsOf
<1>9. StartedWorkIsAgreed'
  BY AgreementUntouched DEF IInv, TypeOK, QuotesOf, StaffQuotes
<1>10. TrackingIsConfined' /\ NoEventIsSwallowed'
  BY DEF IInv, TrackingIsConfined, NoEventIsSwallowed
<1>11. OutboxTellsTheStory'
  BY <1>1, <1>2, <1>3 DEF IInv, OutboxTellsTheStory, Told
<1>12. QED
  BY <1>4, <1>5, <1>6, <1>7, <1>8, <1>9, <1>10, <1>11 DEF IInv

(* The customer's approval of a staff quote, in any state of the request.  *)
LEMMA ApproveStaffQuoteInv ==
  ASSUME IInv, NEW q \in Quote, ApproveStaffQuote(q)
  PROVE  IInv'
<1> USE DEF ApproveStaffQuote, Decidable, CreateCashPayment, providerVars, dispatchVars,
            trackingVars, outboxVars
<1>1. quoteRequest[q] \in Request /\ q \in StaffQuotes(quoteRequest[q])
  BY DEF IInv, TypeOK, RowsExist, StaffQuotes, QuotesOf
<1>2. TypeOK'
  BY DEF IInv, TypeOK, RowsExist
<1>3. OnePriceIsOwed'
  <2>1. \A x \in Quote : x # q /\ quoteRequest[x] = quoteRequest[q]
          => quoteStatus[x] # "approved"
    BY DEF IInv, FlowsNeverMix, QuotesOf
  <2>2. payment[q] = "none"
    BY DEF IInv, OnePriceIsOwed, TypeOK
  <2>3. QED
    BY <2>1, <2>2 DEF IInv, OnePriceIsOwed, TypeOK
<1>4. FlowsNeverMix'
  BY DEF IInv, FlowsNeverMix, TypeOK, QuotesOf
<1>5. OpportunityTracksBid' /\ AssignmentIsAuthoritative'
  BY DEF IInv, OpportunityTracksBid, AssignmentIsAuthoritative, TypeOK, QuotesOf, BidsOf
<1>6. StartedWorkIsAgreed'
  <2>1. status[quoteRequest[q]] \notin {"in_progress", "completed"}
    BY <1>1 DEF IInv, StartedWorkIsAgreed
  <2>2. QED
    BY <2>1, AgreementUntouched DEF IInv, TypeOK, QuotesOf, StaffQuotes
<1>7. TrackingIsConfined' /\ NoEventIsSwallowed' /\ OutboxTellsTheStory'
  BY DEF IInv, TrackingIsConfined, NoEventIsSwallowed, OutboxTellsTheStory, Told
<1>8. QED
  BY <1>2, <1>3, <1>4, <1>5, <1>6, <1>7 DEF IInv

(* The customer's choice of a bid: one award, every other bid rejected.    *)
LEMMA ApproveProviderQuoteInv ==
  ASSUME IInv, NEW q \in Quote, ApproveProviderQuote(q)
  PROVE  IInv'
<1>1. PICK r \in Request, p \in Provider : r = quoteRequest[q] /\ p = quoteBidder[q]
  BY DEF ApproveProviderQuote, Decidable, IInv, TypeOK, RowsExist
<1>2. /\ q \in BidsOf(r, p)
      /\ quoteStatus[q] = "proposed"
      /\ status[r] = "pending_dispatch"
      /\ assigned[r] = NoProvider
      /\ payment[q] = "none"
  BY <1>1 DEF ApproveProviderQuote, Decidable, BidsOf, QuotesOf, IInv,
              AssignmentIsAuthoritative, OnePriceIsOwed, TypeOK
<1>3. /\ Award(r, p)
      /\ DecideBids(r, {q})
      /\ payment' = [payment EXCEPT ![q] = "cash_due"]
      /\ UNCHANGED <<verification, available, quoteRequest, quoteBidder, session, position>>
  BY <1>1, <1>2 DEF ApproveProviderQuote, CreateCashPayment, providerVars, trackingVars, IInv,
                    TypeOK
<1>4. OutboxTellsTheStory' /\ NoEventIsSwallowed'
      /\ outbox' \subseteq NotificationKey /\ swallowed' \subseteq NotificationKey
  BY <1>2, <1>3, AwardOutbox
<1>5. quoteStatus' \in [Quote -> QuoteStatus] /\ \A x \in Quote :
        quoteStatus'[x] = IF x = q THEN "approved"
                          ELSE IF quoteRequest[x] = r /\ quoteBidder[x] # NoProvider
                                  /\ quoteStatus[x] = "proposed"
                            THEN "rejected" ELSE quoteStatus[x]
  BY <1>3, BidsDecided
<1>6. /\ assigned' = [assigned EXCEPT ![r] = p]
      /\ status' = [status EXCEPT ![r] = "assigned"]
      /\ opportunity' = [opportunity EXCEPT ![r] =
           [x \in Provider |-> IF x \in Open(r) THEN "closed" ELSE @[x]]]
      /\ payment' = [payment EXCEPT ![q] = "cash_due"]
      /\ UNCHANGED <<verification, available, quoteRequest, quoteBidder, session, position>>
  BY <1>3 DEF Award
<1>7. TypeOK'
  BY <1>1, <1>2, <1>4, <1>5, <1>6 DEF IInv, TypeOK, RowsExist
<1>8. \A x \in QuotesOf(r) : quoteBidder[x] # NoProvider /\ quoteStatus[x] # "approved"
  BY <1>2 DEF IInv, TypeOK, RowsExist, FlowsNeverMix, AssignmentIsAuthoritative, QuotesOf,
              BidsOf
<1>9. OnePriceIsOwed'
  BY <1>1, <1>2, <1>5, <1>6, <1>8 DEF IInv, OnePriceIsOwed, TypeOK, RowsExist, QuotesOf
<1>10. FlowsNeverMix'
  BY <1>1, <1>2, <1>5, <1>6, <1>8 DEF IInv, FlowsNeverMix, TypeOK, RowsExist, QuotesOf, Open
<1>11. OpportunityTracksBid'
  BY <1>1, <1>2, <1>5, <1>6 DEF IInv, OpportunityTracksBid, TypeOK, QuotesOf, BidsOf, Open
<1>12. AssignmentIsAuthoritative'
  <2>1. \A x \in Request :
          /\ status'[x] \in Dispatched => assigned'[x] # NoProvider
          /\ status'[x] \in {"none", "pending_dispatch"} => assigned'[x] = NoProvider
    BY <1>2, <1>6 DEF IInv, AssignmentIsAuthoritative, TypeOK
  <2>2. \A x \in Request, y \in Provider :
          assigned'[x] # NoProvider => opportunity'[x][y] # "quoted"
    BY <1>2, <1>6 DEF IInv, AssignmentIsAuthoritative, TypeOK, Open
  <2>3. \A x \in Request, y \in Provider : \A b \in BidsOf(x, y) :
          /\ quoteStatus'[b] = "proposed" => assigned'[x] = NoProvider
          /\ quoteStatus'[b] = "approved" => assigned'[x] = y
    BY <1>1, <1>2, <1>5, <1>6, <1>8
       DEF IInv, AssignmentIsAuthoritative, TypeOK, QuotesOf, BidsOf
  <2>4. QED
    BY <1>6, <2>1, <2>2, <2>3 DEF AssignmentIsAuthoritative, BidsOf, QuotesOf
<1>13. StartedWorkIsAgreed'
  BY <1>1, <1>2, <1>5, <1>6, AgreementUntouched
     DEF IInv, TypeOK, QuotesOf, BidsOf, StaffQuotes
<1>14. TrackingIsConfined'
  BY <1>2, <1>6 DEF IInv, TrackingIsConfined, TypeOK
<1>15. QED
  BY <1>4, <1>7, <1>9, <1>10, <1>11, <1>12, <1>13, <1>14 DEF IInv

(* A rejection; the opportunity follows only if it is still quoted.        *)
LEMMA RejectQuoteInv ==
  ASSUME IInv, NEW q \in Quote, RejectQuote(q)
  PROVE  IInv'
<1> USE DEF RejectQuote, Decidable, providerVars, dispatchVars, trackingVars, outboxVars
<1>1. PICK r \in Request, p \in Provider \cup {NoProvider} :
        r = quoteRequest[q] /\ p = quoteBidder[q] /\ status[r] # "none"
  BY DEF IInv, TypeOK, RowsExist
<1>2. opportunity' \in [Request -> [Provider -> OpportunityStatus]]
      /\ \A x \in Request, y \in Provider :
           opportunity'[x][y] = IF x = r /\ y = p /\ opportunity[x][y] = "quoted"
                                  THEN "rejected" ELSE opportunity[x][y]
  <2>1. CASE p # NoProvider /\ opportunity[r][p] = "quoted"
    <3>1. opportunity' = [opportunity EXCEPT ![r][p] = "rejected"]
      BY <1>1, <2>1 DEF SetOpportunity
    <3>2. QED
      BY <1>1, <2>1, <3>1 DEF IInv, TypeOK
  <2>2. CASE ~(p # NoProvider /\ opportunity[r][p] = "quoted")
    BY <1>1, <2>2 DEF IInv, TypeOK
  <2>3. QED
    BY <2>1, <2>2
<1>3. TypeOK'
  <2>1. /\ quoteStatus' \in [Quote -> QuoteStatus]
        /\ \A x \in Quote : quoteStatus'[x] = "none" <=> quoteStatus[x] = "none"
    BY DEF IInv, TypeOK
  <2>2. RowsExist'
    BY <1>1, <1>2, <2>1 DEF IInv, TypeOK, RowsExist
  <2>3. QED
    BY <1>2, <2>1, <2>2 DEF IInv, TypeOK
<1>4. OnePriceIsOwed'
  BY DEF IInv, OnePriceIsOwed, TypeOK
<1>5. FlowsNeverMix'
  BY <1>1, <1>2 DEF RowsExist, IInv, FlowsNeverMix, TypeOK, QuotesOf
<1>6. OpportunityTracksBid'
  <2> SUFFICES ASSUME NEW x \in Request, NEW y \in Provider
               PROVE  /\ \A q1, q2 \in BidsOf(x, y) : q1 = q2
                      /\ opportunity'[x][y] \in {"none", "invited"} => BidsOf(x, y) = {}
                      /\ opportunity'[x][y] = "quoted" =>
                           \E b \in BidsOf(x, y) : quoteStatus'[b] = "proposed"
                      /\ \A b \in BidsOf(x, y) : quoteStatus'[b] = "proposed"
                           => opportunity'[x][y] \in {"quoted", "closed"}
    BY DEF OpportunityTracksBid, BidsOf, QuotesOf
  <2>1. CASE x = r /\ y = p
    BY <1>1, <1>2, <2>1 DEF IInv, OpportunityTracksBid, TypeOK, BidsOf, QuotesOf
  <2>2. CASE ~(x = r /\ y = p)
    BY <1>1, <1>2, <2>2 DEF IInv, OpportunityTracksBid, TypeOK, BidsOf, QuotesOf
  <2>3. QED
    BY <2>1, <2>2
<1>7. AssignmentIsAuthoritative'
  BY <1>1, <1>2 DEF IInv, AssignmentIsAuthoritative, TypeOK, QuotesOf, BidsOf
<1>8. StartedWorkIsAgreed'
  <2>1. p = NoProvider => status[r] \notin {"in_progress", "completed"}
    <3>1. p = NoProvider => q \in StaffQuotes(r)
      BY <1>1 DEF StaffQuotes, QuotesOf
    <3>2. status[r] \in {"in_progress", "completed"} /\ StaffQuotes(r) # {} =>
            \E a \in StaffQuotes(r) :
              /\ quoteStatus[a] = "approved"
              /\ \A other \in StaffQuotes(r) \ {a} : quoteStatus[other] \notin ActiveQuote
      <4> HIDE DEF RejectQuote, Decidable
      <4>1. r \in Request
        BY <1>1
      <4>2. QED
        BY <4>1 DEF IInv, StartedWorkIsAgreed
    <3>3. quoteStatus[q] = "proposed"
      OBVIOUS
    <3>4. QED
      BY <3>1, <3>2, <3>3 DEF ActiveQuote
  <2>2. QED
    BY <1>1, <2>1, AgreementUntouched DEF IInv, TypeOK, QuotesOf, StaffQuotes
<1>9. TrackingIsConfined' /\ NoEventIsSwallowed'
  BY DEF IInv, TrackingIsConfined, NoEventIsSwallowed
<1>10. OutboxTellsTheStory'
  BY <1>1, <1>2 DEF IInv, OutboxTellsTheStory, Told, TypeOK
<1>11. QED
  BY <1>3, <1>4, <1>5, <1>6, <1>7, <1>8, <1>9, <1>10 DEF IInv

(* Cash moves on an approved quote of a completed request.                 *)
LEMMA CashInv ==
  ASSUME IInv, NEW r \in Request, CollectCashPayment(r) \/ RefundCashPayment(r)
  PROVE  IInv'
<1> USE DEF providerVars, dispatchVars, quoteVars, trackingVars, outboxVars
<1>1. PICK q \in QuotesOf(r), new \in {"cash_collected", "refunded"} :
        /\ payment' = [payment EXCEPT ![q] = new]
        /\ payment[q] \in {"cash_due", "cash_collected"}
        /\ status[r] = "completed"
  BY DEF CollectCashPayment, RefundCashPayment, IInv, OnePriceIsOwed, QuotesOf
<1>2. UNCHANGED <<verification, available, status, assigned, opportunity, quoteStatus,
                  quoteRequest, quoteBidder, session, position, outbox, swallowed>>
  BY DEF CollectCashPayment, RefundCashPayment
<1>3. TypeOK'
  BY <1>1, <1>2 DEF IInv, TypeOK, RowsExist, QuotesOf
<1>4. OnePriceIsOwed'
  BY <1>1, <1>2 DEF IInv, OnePriceIsOwed, TypeOK, QuotesOf
<1>5. FlowsNeverMix' /\ OpportunityTracksBid' /\ AssignmentIsAuthoritative'
  BY <1>2 DEF IInv, FlowsNeverMix, OpportunityTracksBid, AssignmentIsAuthoritative, QuotesOf,
              BidsOf
<1>6. StartedWorkIsAgreed' /\ TrackingIsConfined'
  <2>1. \A x \in Quote : payment[x] # "none" => payment'[x] # "none"
    BY <1>1 DEF IInv, TypeOK
  <2>2. StartedWorkIsAgreed'
    BY <1>2, <2>1, AgreementUntouched DEF IInv, QuotesOf, StaffQuotes
  <2>3. QED
    BY <1>2, <2>2 DEF IInv, TrackingIsConfined
<1>7. OutboxTellsTheStory' /\ NoEventIsSwallowed'
  BY <1>2 DEF IInv, OutboxTellsTheStory, Told, NoEventIsSwallowed
<1>8. QED
  BY <1>3, <1>4, <1>5, <1>6, <1>7 DEF IInv

-----------------------------------------------------------------------------
(* The invariant holds.                                                    *)

(* The empty database satisfies it.                                        *)
LEMMA InitInv == Init => IInv
<1> SUFFICES ASSUME Init PROVE IInv
  OBVIOUS
<1> USE DEF Init
<1>1. TypeOK
  BY DEF TypeOK, RowsExist
<1>2. OnePriceIsOwed /\ FlowsNeverMix
  BY DEF OnePriceIsOwed, FlowsNeverMix
<1>3. OpportunityTracksBid /\ AssignmentIsAuthoritative
  BY DEF OpportunityTracksBid, AssignmentIsAuthoritative, QuotesOf, BidsOf
<1>4. StartedWorkIsAgreed /\ TrackingIsConfined
  BY DEF StartedWorkIsAgreed, TrackingIsConfined
<1>5. OutboxTellsTheStory /\ NoEventIsSwallowed
  BY DEF OutboxTellsTheStory, Told, NoEventIsSwallowed
<1>6. QED
  BY <1>1, <1>2, <1>3, <1>4, <1>5 DEF IInv

(* What is found eligible, now or earlier, is a set of providers.          *)
LEMMA FoundAreProviders ==
  ASSUME NEW r \in Request
  PROVE  Eligible(r) \subseteq Provider /\ Suitable[r] \subseteq Provider
BY DEF Eligible

(* Every transaction preserves it, with stale eligibility too.             *)
LEMMA NextInv == IInv /\ [Next \/ StaleNext]_vars => IInv'
<1> SUFFICES ASSUME IInv, [Next \/ StaleNext]_vars PROVE IInv'
  OBVIOUS
<1>1. CASE ProviderNext
  <2> SUFFICES ASSUME NEW p \in Provider,
                      \/ CreatePilotProvider(p)
                      \/ VerifyPilotProvider(p)
                      \/ SuspendPilotProvider(p)
                      \/ ReactivatePilotProvider(p)
                      \/ \E flag \in BOOLEAN : UpdateProviderAvailability(p, flag)
               PROVE  IInv'
    BY <1>1 DEF ProviderNext
  <2>1. CASE CreatePilotProvider(p)
    BY <2>1, CreatePilotProviderInv
  <2>2. CASE VerifyPilotProvider(p) \/ SuspendPilotProvider(p) \/ ReactivatePilotProvider(p)
    BY <2>2, UpdatePilotProviderVerificationInv
       DEF VerifyPilotProvider, SuspendPilotProvider, ReactivatePilotProvider
  <2>3. CASE \E flag \in BOOLEAN : UpdateProviderAvailability(p, flag)
    BY <2>3, UpdateProviderAvailabilityInv
  <2>4. QED
    BY <2>1, <2>2, <2>3
<1>2. CASE StaffNext
  <2>1. ASSUME NEW r \in Request, NEW providers \in SUBSET Provider,
               InviteProvidersToRequest(r, providers)
        PROVE  IInv'
    BY <2>1, InviteFoundInv DEF InviteProvidersToRequest
  <2>2. ASSUME NEW r \in Request, NEW p \in Provider, AssignProvider(r, p)
        PROVE  IInv'
    BY <2>2, AssignInv DEF AssignProvider
  <2>3. QED
    BY <1>2, <2>1, <2>2, CloseProviderOpportunityInv, UpdateStatusInv, ProposeQuoteInv,
       CashInv, StopProviderTrackingForOperationsInv, PruneProviderTrackingDataInv
       DEF StaffNext
<1>3. CASE CustomerNext
  <2>1. ASSUME NEW r \in Request, CreateRequest(r)
        PROVE  IInv'
    BY <2>1, FoundAreProviders, CreateFoundInv DEF CreateRequest
  <2>2. QED
    BY <1>3, <2>1, ApproveStaffQuoteInv, ApproveProviderQuoteInv, RejectQuoteInv
       DEF CustomerNext
<1>4. CASE BidderNext
  BY <1>4, SubmitProviderQuoteInv, WithdrawProviderQuoteInv, UpdateStatusForProviderInv,
     SubmitProviderLocationSampleInv DEF BidderNext
<1>5. CASE UNCHANGED vars
  <2> USE <1>5 DEF vars
  <2>1. TypeOK' /\ TrackingIsConfined'
    BY DEF IInv, TypeOK, RowsExist, TrackingIsConfined
  <2>2. QED
    BY <2>1, DispatchUntouched
<1>6. CASE StaleNext
  BY <1>6, FoundAreProviders, CreateFoundInv, InviteFoundInv, AssignInv DEF StaleNext
<1>7. QED
  BY <1>1, <1>2, <1>3, <1>4, <1>5, <1>6 DEF Next

(* Every reachable state satisfies the inductive invariant, although the   *)
(* eligibility of a provider is read without a lock.                       *)
THEOREM RacyInvariance == RacySpec => []IInv
BY InitInv, NextInv, PTL DEF RacySpec

(* In particular when it is read and used in one step.                     *)
THEOREM Invariance == Spec => []IInv
<1>1. [Next]_vars => [Next \/ StaleNext]_vars
  OBVIOUS
<1>2. QED
  BY <1>1, RacyInvariance, PTL DEF Spec, RacySpec

(* Each safety property, for every reachable state.                        *)
(* Columns hold legal values and rows refer to rows that exist.            *)
THEOREM TypeCorrectness == RacySpec => []TypeOK
BY RacyInvariance, PTL DEF IInv

(* Two quotes of a request are never both approved, and cash is owed for   *)
(* the approved one only.                                                  *)
THEOREM OnePrice == RacySpec => []OnePriceIsOwed
BY RacyInvariance, PTL DEF IInv

(* A request never holds staff quotes and provider quotes.                 *)
THEOREM FlowsExclusive == RacySpec => []FlowsNeverMix
BY RacyInvariance, PTL DEF IInv

(* Withdrawal, closing and rejection leave the opportunity row and the     *)
(* quote in agreement.                                                     *)
THEOREM OpportunityAgrees == RacySpec => []OpportunityTracksBid
BY RacyInvariance, PTL DEF IInv

(* Once a request is dispatched nothing of the market can be approved.     *)
THEOREM AssignmentAuthority == RacySpec => []AssignmentIsAuthoritative
BY RacyInvariance, PTL DEF IInv

(* Work with staff quotes on record starts on an approved one only.        *)
THEOREM WorkIsAgreed == RacySpec => []StartedWorkIsAgreed
BY RacyInvariance, PTL DEF IInv

(* Location is collected and kept only for a request under way whose       *)
(* provider is verified.                                                   *)
THEOREM TrackingConfined == RacySpec => []TrackingIsConfined
BY RacyInvariance, PTL DEF IInv

(* No event meets a dedupe key already taken.                              *)
THEOREM NothingSwallowed == RacySpec => []NoEventIsSwallowed
BY RacyInvariance, PTL DEF IInv

(* The outbox announces what happened and nothing else, to whoever there   *)
(* is: to the providers always, to the customer if the request has one.    *)
THEOREM OutboxFaithful == RacySpec => []OutboxTellsTheStory
BY RacyInvariance, PTL DEF IInv

-----------------------------------------------------------------------------
(* History.  What a transaction may overwrite follows from its guards and, *)
(* where a guard is missing (a withdrawal, an approval), from IInv.        *)

(* An assignment overwrites only what is open.                             *)
LEMMA AssignKeepsHistory ==
  ASSUME IInv, NEW r \in Request, NEW p \in Provider, Assign(r, p)
  PROVE  HistoryStep
<1> USE DEF IInv, TypeOK, HistoryStep, providerVars, trackingVars
<1>1. DecideBids(r, {}) /\ Award(r, p) /\ status[r] = "pending_dispatch"
  BY DEF Assign
<1>2. \A q \in Quote : quoteStatus[q] \notin {"none", "proposed"} \/ quoteStatus[q] = "none"
                         => quoteStatus'[q] = quoteStatus[q]
  BY <1>1 DEF DecideBids
<1>3. \A q \in Quote : quoteStatus[q] = "proposed" => quoteStatus'[q] # "none"
  BY <1>1 DEF DecideBids
<1>4. assigned[r] = NoProvider
  BY <1>1 DEF AssignmentIsAuthoritative
<1>5. /\ assigned' = [assigned EXCEPT ![r] = p]
      /\ status' = [status EXCEPT ![r] = "assigned"]
  BY <1>1 DEF Award
<1>6. UNCHANGED <<quoteRequest, quoteBidder, payment>>
  BY DEF Assign
<1>7. QED
  BY <1>1, <1>2, <1>3, <1>4, <1>5, <1>6

(* Every transaction keeps what is final.                                  *)
LEMMA StepKeepsHistory ==
  ASSUME IInv, Next \/ StaleNext
  PROVE  HistoryStep
<1> USE DEF IInv, TypeOK, HistoryStep, providerVars, dispatchVars, quoteVars, trackingVars,
            outboxVars
<1>1. CASE ProviderNext
  BY <1>1 DEF ProviderNext, CreatePilotProvider, VerifyPilotProvider, SuspendPilotProvider,
              ReactivatePilotProvider, UpdatePilotProviderVerification,
              UpdateProviderAvailability
<1>2. CASE StaffNext
  <2> SUFFICES ASSUME NEW r \in Request,
                      \/ \E providers \in SUBSET Provider :
                           InviteProvidersToRequest(r, providers)
                      \/ \E p \in Provider : CloseProviderOpportunity(r, p)
                                             \/ AssignProvider(r, p)
                      \/ \E new \in NewStatus : UpdateStatus(r, new)
                      \/ \E q \in Quote : ProposeQuote(r, q)
                      \/ CollectCashPayment(r)
                      \/ RefundCashPayment(r)
                      \/ StopProviderTrackingForOperations(r)
                      \/ PruneProviderTrackingData(r)
               PROVE  HistoryStep
    BY <1>2 DEF StaffNext
  <2>1. CASE \E providers \in SUBSET Provider : InviteProvidersToRequest(r, providers)
    BY <2>1 DEF InviteProvidersToRequest, InviteFound
  <2>2. CASE \E p \in Provider : CloseProviderOpportunity(r, p)
    BY <2>2 DEF CloseProviderOpportunity
  <2>3. CASE \E p \in Provider : AssignProvider(r, p)
    BY <2>3, AssignKeepsHistory DEF AssignProvider
  <2>4. CASE \E new \in NewStatus : UpdateStatus(r, new)
    BY <2>4 DEF UpdateStatus, SetStatus, AllowedPrevious
  <2>5. CASE \E q \in Quote : ProposeQuote(r, q)
    BY <2>5 DEF ProposeQuote, InsertQuote
  <2>6. CASE CollectCashPayment(r) \/ RefundCashPayment(r)
    BY <2>6 DEF CollectCashPayment, RefundCashPayment, QuotesOf
  <2>7. CASE StopProviderTrackingForOperations(r) \/ PruneProviderTrackingData(r)
    BY <2>7 DEF StopProviderTrackingForOperations, PruneProviderTrackingData
  <2>8. QED
    BY <2>1, <2>2, <2>3, <2>4, <2>5, <2>6, <2>7
<1>3. CASE CustomerNext
  <2>1. ASSUME NEW r \in Request, CreateRequest(r)
        PROVE  HistoryStep
    BY <2>1 DEF CreateRequest, CreateFound, AssignmentIsAuthoritative
  <2>2. ASSUME NEW q \in Quote, ApproveStaffQuote(q)
        PROVE  HistoryStep
    BY <2>2 DEF ApproveStaffQuote, Decidable, CreateCashPayment
  <2>3. ASSUME NEW q \in Quote, ApproveProviderQuote(q)
        PROVE  HistoryStep
    <3>1. PICK r \in Request, p \in Provider : r = quoteRequest[q] /\ p = quoteBidder[q]
      BY <2>3 DEF ApproveProviderQuote, Decidable, RowsExist
    <3>2. /\ DecideBids(r, {q})
          /\ Award(r, p)
          /\ status[r] = "pending_dispatch"
          /\ quoteStatus[q] = "proposed"
          /\ payment' = [payment EXCEPT ![q] = IF @ = "none" THEN "cash_due" ELSE @]
          /\ UNCHANGED <<quoteRequest, quoteBidder>>
      BY <2>3, <3>1 DEF ApproveProviderQuote, Decidable, CreateCashPayment
    <3>3. \A x \in Quote :
            /\ quoteStatus[x] # "proposed" => quoteStatus'[x] = quoteStatus[x]
            /\ quoteStatus[x] = "proposed" => quoteStatus'[x] # "none"
      BY <3>2 DEF DecideBids
    <3>4. assigned[r] = NoProvider
      BY <3>2 DEF AssignmentIsAuthoritative
    <3>5. /\ assigned' = [assigned EXCEPT ![r] = p]
          /\ status' = [status EXCEPT ![r] = "assigned"]
      BY <3>2 DEF Award
    <3>6. \A x \in Quote : payment[x] # "none" => payment'[x] = payment[x]
      BY <3>2
    <3>7. UNCHANGED <<quoteRequest, quoteBidder>>
      BY <3>2
    <3>8. status[r] = "pending_dispatch"
      BY <3>2
    <3>9. QED
      BY <3>3, <3>4, <3>5, <3>6, <3>7, <3>8
  <2>4. ASSUME NEW q \in Quote, RejectQuote(q)
        PROVE  HistoryStep
    BY <2>4 DEF RejectQuote, Decidable
  <2>5. QED
    BY <1>3, <2>1, <2>2, <2>3, <2>4 DEF CustomerNext
<1>4. CASE BidderNext
  <2>1. ASSUME NEW r \in Request, NEW p \in Provider, NEW q \in Quote,
               SubmitProviderQuote(r, p, q)
        PROVE  HistoryStep
    BY <2>1 DEF SubmitProviderQuote, InsertQuote
  <2>2. ASSUME NEW q \in Quote, WithdrawProviderQuote(q)
        PROVE  HistoryStep
    BY <2>2 DEF WithdrawProviderQuote
  <2>3. ASSUME NEW r \in Request, NEW p \in Provider, NEW new \in NewStatus,
               UpdateStatusForProvider(r, p, new)
        PROVE  HistoryStep
    BY <2>3 DEF UpdateStatusForProvider, SetStatus, AllowedPrevious
  <2>4. ASSUME NEW r \in Request, SubmitProviderLocationSample(r)
        PROVE  HistoryStep
    BY <2>4 DEF SubmitProviderLocationSample
  <2>5. QED
    BY <1>4, <2>1, <2>2, <2>3, <2>4 DEF BidderNext
<1>5. CASE StaleNext
  <2>1. ASSUME NEW r \in Request, NEW found \in SUBSET Suitable[r],
               CreateFound(r, found) \/ InviteFound(r, found)
        PROVE  HistoryStep
    BY <2>1 DEF CreateFound, InviteFound, AssignmentIsAuthoritative
  <2>2. ASSUME NEW r \in Request, NEW p \in Suitable[r], Assign(r, p)
        PROVE  HistoryStep
    BY <2>2, FoundAreProviders, AssignKeepsHistory
  <2>3. QED
    BY <1>5, <2>1, <2>2 DEF StaleNext
<1>6. QED
  BY <1>1, <1>2, <1>3, <1>4, <1>5 DEF Next

(* A decision, an assignment, an ending and money received are never taken *)
(* back.                                                                   *)
THEOREM HistoryFinal == RacySpec => HistoryIsFinal
<1>1. IInv /\ [Next \/ StaleNext]_vars => [HistoryStep]_vars
  BY StepKeepsHistory
<1>2. QED
  BY <1>1, RacyInvariance, PTL DEF RacySpec, HistoryIsFinal

=============================================================================
