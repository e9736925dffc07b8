------------------------ MODULE RequestViewsProofs ------------------------
(***************************************************************************)
(* Proofs about RequestViews: what the reads show agrees, for every set of *)
(* requests, providers and quote ids, whether the set of ids is finite or  *)
(* not.                                                                    *)
(***************************************************************************)
EXTENDS RequestViews, ServiceRequestsProofs

(* The ids in use are the lowest, and of the staff quotes of one request   *)
(* none is newer than one that is active: the latest row is the live one.  *)
IdsAreDense ==
  \A q1, q2 \in Quote : q1 < q2 /\ quoteStatus[q2] # "none" => quoteStatus[q1] # "none"

LiveIsLatest ==
  \A q1, q2 \in Quote :
    /\ quoteStatus[q1] \in ActiveQuote
    /\ quoteBidder[q1] = NoProvider /\ quoteBidder[q2] = NoProvider
    /\ quoteRequest[q1] = quoteRequest[q2]
    => q2 <= q1

ViewInv == IInv /\ IdsAreDense /\ LiveIsLatest

USE NullAssumption, QuoteIdAssumption
USE DEF ActiveQuote, OpenOpportunity, QuoteStatus

(* The latest of some quotes is the one that none exceeds.                 *)
LEMMA LatestIs ==
  ASSUME NEW quotes \in SUBSET Quote, NEW q \in quotes, \A other \in quotes : other <= q
  PROVE  Latest(quotes) = q
<1>1. \A x \in quotes : (\A y \in quotes : x >= y) <=> x = q
  OBVIOUS
<1>2. Max(quotes) = q
  BY <1>1 DEF Max
<1>3. QED
  BY <1>2 DEF Latest

LEMMA LatestOfOne ==
  ASSUME NEW q \in Quote
  PROVE  Latest({q}) = q
<1>1. \A other \in {q} : other <= q
  OBVIOUS
<1>2. QED
  BY <1>1, LatestIs

-----------------------------------------------------------------------------
(* A quote that is new is proposed: nothing else writes a row that is not  *)
(* there.                                                                  *)

LEMMA NewQuotesAreProposed ==
  ASSUME IInv, Next \/ StaleNext, NEW x \in Quote, quoteStatus[x] = "none"
  PROVE  quoteStatus'[x] \in {"none", "proposed"}
<1> DEFINE Untouched == quoteStatus'[x] \in {"none", "proposed"}
<1> USE DEF IInv, TypeOK, quoteVars
<1>1. ASSUME NEW r \in Request, NEW new \in NewStatus, SetStatus(r, new)
      PROVE  Untouched
  BY <1>1 DEF SetStatus
<1>2. ASSUME NEW r \in Request, NEW p, Assign(r, p)
      PROVE  Untouched
  BY <1>2 DEF Assign, DecideBids
<1>3. CASE ProviderNext
  BY <1>3 DEF ProviderNext, CreatePilotProvider, VerifyPilotProvider, SuspendPilotProvider,
              ReactivatePilotProvider, UpdatePilotProviderVerification,
              UpdateProviderAvailability
<1>4. CASE StaffNext
  BY <1>4, <1>1, <1>2
     DEF StaffNext, InviteProvidersToRequest, InviteFound, CloseProviderOpportunity,
         AssignProvider, UpdateStatus, ProposeQuote, InsertQuote, CollectCashPayment,
         RefundCashPayment, StopProviderTrackingForOperations, PruneProviderTrackingData
<1>5. CASE CustomerNext
  <2>1. ASSUME NEW q \in Quote, ApproveProviderQuote(q)
        PROVE  Untouched
    BY <2>1 DEF ApproveProviderQuote, Decidable, DecideBids
  <2>2. ASSUME NEW q \in Quote, ApproveStaffQuote(q) \/ RejectQuote(q)
        PROVE  Untouched
    BY <2>2 DEF ApproveStaffQuote, RejectQuote, Decidable
  <2>3. QED
    BY <1>5, <2>1, <2>2 DEF CustomerNext, CreateRequest, CreateFound
<1>6. CASE BidderNext
  <2>1. ASSUME NEW q \in Quote, WithdrawProviderQuote(q)
        PROVE  Untouched
    BY <2>1 DEF WithdrawProviderQuote
  <2>2. ASSUME NEW r \in Request, NEW p \in Provider, NEW q \in Quote,
               SubmitProviderQuote(r, p, q)
        PROVE  Untouched
    BY <2>2 DEF SubmitProviderQuote, InsertQuote
  <2>3. QED
    BY <1>6, <1>1, <2>1, <2>2
       DEF BidderNext, UpdateStatusForProvider, SubmitProviderLocationSample
<1>7. CASE StaleNext
  BY <1>7, <1>2 DEF StaleNext, CreateFound, InviteFound
<1>8. QED
  BY <1>3, <1>4, <1>5, <1>6, <1>7 DEF Next

(* A new staff quote finds no active one (FlowsNeverMix), so that the      *)
(* latest stays the live one.                                              *)
LEMMA LiveStaysLatest ==
  ASSUME ViewInv, IInv', Next \/ StaleNext, IdsAscend
  PROVE  LiveIsLatest'
<1> SUFFICES ASSUME NEW q1 \in Quote, NEW q2 \in Quote,
                    quoteStatus'[q1] \in ActiveQuote,
                    quoteBidder'[q1] = NoProvider, quoteBidder'[q2] = NoProvider,
                    quoteRequest'[q1] = quoteRequest'[q2], q1 < q2
             PROVE  FALSE
  BY DEF LiveIsLatest
<1>1. HistoryStep
  BY StepKeepsHistory DEF ViewInv
<1>2. TypeOK /\ TypeOK' /\ FlowsNeverMix'
  BY DEF ViewInv, IInv
<1>3. quoteStatus'[q2] # "none"
  BY <1>2 DEF TypeOK, RowsExist
<1>4. CASE quoteStatus[q2] = "none"
  <2>1. quoteStatus'[q2] = "proposed"
    BY <1>3, <1>4, NewQuotesAreProposed DEF ViewInv
  <2>2. q1 = q2
    BY <1>2, <2>1 DEF FlowsNeverMix, QuotesOf
  <2>3. QED
    BY <2>2
<1>5. CASE quoteStatus[q2] # "none"
  <2>1. quoteStatus[q1] # "none"
    BY <1>5 DEF ViewInv, IdsAreDense
  <2>2. /\ quoteRequest[q1] = quoteRequest[q2]
        /\ quoteBidder[q1] = NoProvider /\ quoteBidder[q2] = NoProvider
    BY <1>1, <1>5, <2>1 DEF HistoryStep
  <2>3. quoteStatus[q1] \in ActiveQuote
    BY <1>1, <1>2, <2>1 DEF HistoryStep, TypeOK
  <2>4. q2 <= q1
    BY <2>2, <2>3 DEF ViewInv, LiveIsLatest
  <2>5. QED
    BY <2>4
<1>6. QED
  BY <1>4, <1>5

LEMMA ViewInit == Init => ViewInv
<1> SUFFICES ASSUME Init PROVE ViewInv
  OBVIOUS
<1>1. IdsAreDense /\ LiveIsLatest
  BY DEF Init, IdsAreDense, LiveIsLatest
<1>2. QED
  BY <1>1, InitInv DEF ViewInv

LEMMA ViewNext == ViewInv /\ [(Next \/ StaleNext) /\ IdsAscend]_vars => ViewInv'
<1> SUFFICES ASSUME ViewInv, [(Next \/ StaleNext) /\ IdsAscend]_vars PROVE ViewInv'
  OBVIOUS
<1>1. IInv'
  BY NextInv DEF ViewInv
<1>2. CASE (Next \/ StaleNext) /\ IdsAscend
  <2>1. IdsAreDense'
    BY <1>2 DEF IdsAscend, IdsAreDense
  <2>2. QED
    BY <1>1, <1>2, <2>1, LiveStaysLatest DEF ViewInv
<1>3. CASE UNCHANGED vars
  BY <1>1, <1>3 DEF vars, ViewInv, IdsAreDense, LiveIsLatest
<1>4. QED
  BY <1>2, <1>3

-----------------------------------------------------------------------------
(* What is shown.                                                          *)

(* Quotes of one request, the bid of its provider among them or none.      *)
LEMMA CustomerIsShown ==
  ASSUME ViewInv, NEW r \in Request, NEW q \in Quote, quoteRequest[q] = r,
         quoteStatus[q] \in ActiveQuote
  PROVE  q \in Listed(CustomerView(r))
<1> USE DEF QuotesOf, StaffQuotes, Bids, CustomerView, CustomerQuotes, Listed,
            ToServiceRequest
<1>1. CASE quoteBidder[q] # NoProvider
  BY <1>1
<1>2. CASE quoteBidder[q] = NoProvider
  <2>1. \A other \in QuotesOf(r) : quoteBidder[other] = NoProvider
    BY <1>2 DEF ViewInv, IInv, FlowsNeverMix
  <2>2. \A other \in QuotesOf(r) : other <= q
    BY <1>2, <2>1 DEF ViewInv, LiveIsLatest
  <2>3. Latest(QuotesOf(r)) = q
    BY <2>2, LatestIs
  <2>4. Bids(r) = {}
    BY <2>1
  <2>5. QED
    BY <2>3, <2>4
<1>3. QED
  BY <1>1, <1>2

LEMMA ApprovedIsPaid ==
  ASSUME ViewInv, NEW r \in Request, NEW q \in Quote, quoteRequest[q] = r,
         quoteStatus[q] = "approved"
  PROVE  Paid(r) = q
<1>1. \A x \in Quote : payment[x] # "none" <=> quoteStatus[x] = "approved"
  BY DEF ViewInv, IInv, OnePriceIsOwed
<1>2. \A x \in Quote : quoteStatus[x] = "approved" /\ quoteRequest[x] = r => x = q
  BY DEF ViewInv, IInv, OnePriceIsOwed
<1>3. {x \in QuotesOf(r) : payment[x] # "none"} = {q}
  BY <1>1, <1>2 DEF QuotesOf
<1>4. QED
  BY <1>3, LatestOfOne DEF Paid

LEMMA ApprovedIsTheJob ==
  ASSUME ViewInv, NEW r \in Request, NEW q \in Quote, quoteRequest[q] = r,
         quoteStatus[q] = "approved", assigned[r] \in Provider
  PROVE  JobQuote(r) = q
<1> USE DEF ViewInv, IInv
<1>1. CASE quoteBidder[q] # NoProvider
  <2>1. PICK p \in Provider : p = quoteBidder[q]
    BY <1>1 DEF TypeOK
  <2>2. q \in BidsOf(r, p)
    BY <2>1 DEF BidsOf, QuotesOf
  <2>3. assigned[r] = p
    BY <2>2 DEF AssignmentIsAuthoritative
  <2>4. BidsOf(r, p) = {q}
    <3>1. \A q1, q2 \in BidsOf(r, p) : q1 = q2
      BY DEF OpportunityTracksBid
    <3>2. QED
      BY <2>2, <3>1
  <2>5. QED
    BY <2>3, <2>4, LatestOfOne DEF JobQuote
<1>2. CASE quoteBidder[q] = NoProvider
  <2>1. BidsOf(r, assigned[r]) = {}
    BY <1>2 DEF FlowsNeverMix, BidsOf, QuotesOf
  <2>2. \A other \in StaffQuotes(r) : other <= q
    BY <1>2 DEF LiveIsLatest, StaffQuotes, QuotesOf
  <2>3. Latest(StaffQuotes(r)) = q
    BY <1>2, <2>2, LatestIs DEF StaffQuotes, QuotesOf
  <2>4. QED
    BY <2>1, <2>3 DEF JobQuote
<1>3. QED
  BY <1>1, <1>2

(* An opportunity that may still be quoted is nobody's job, and its quote, *)
(* if there is one, is proposed.                                           *)
LEMMA EligibleIsUndecided ==
  ASSUME ViewInv, NEW p \in Provider, NEW r \in Request,
         opportunity[r][p] \in OpenOpportunity, status[r] = "pending_dispatch"
  PROVE  /\ assigned[r] = NoProvider
         /\ Latest(BidsOf(r, p)) # NoQuote => quoteStatus[Latest(BidsOf(r, p))] = "proposed"
<1> USE DEF ViewInv, IInv
<1>1. assigned[r] = NoProvider
  BY DEF AssignmentIsAuthoritative
<1>2. CASE opportunity[r][p] = "invited"
  BY <1>1, <1>2 DEF OpportunityTracksBid, Latest
<1>3. CASE opportunity[r][p] = "quoted"
  <2>1. PICK q \in BidsOf(r, p) : quoteStatus[q] = "proposed"
    BY <1>3 DEF OpportunityTracksBid
  <2>2. BidsOf(r, p) = {q}
    BY DEF OpportunityTracksBid
  <2>3. q \in Quote
    BY DEF BidsOf, QuotesOf
  <2>4. Latest(BidsOf(r, p)) = q
    BY <2>2, <2>3, LatestOfOne
  <2>5. QED
    BY <1>1, <2>1, <2>4
<1>4. QED
  BY <1>2, <1>3

LEMMA ViewsFollow == ViewInv => PartiesSeeOneDeal
<1> SUFFICES ASSUME ViewInv PROVE PartiesSeeOneDeal
  OBVIOUS
<1>1. ASSUME NEW r \in Request, NEW q \in Quote, quoteRequest[q] = r,
             quoteStatus[q] = "approved"
      PROVE  /\ CustomerView(r).request.payment = q
             /\ \A p \in Provider : r \in FindByProvider(p) => JobView(r).request.quote = q
  BY <1>1, ApprovedIsPaid, ApprovedIsTheJob
     DEF CustomerView, JobView, ToServiceRequest, FindByProvider
<1>2. ASSUME NEW p \in Provider, NEW row \in ListProviderOpportunities(p),
             ContentToQuote(row) # {}
      PROVE  /\ row.quote # NoQuote => quoteStatus[row.quote] = "proposed"
             /\ \A other \in Provider : row.request \in FindByProvider(other) =>
                  ~ JobView(row.request).request.phone
  <2>1. PICK r \in Request :
          row = [request |-> r, opportunity |-> opportunity[r][p], status |-> status[r],
                 quote |-> Latest(BidsOf(r, p))]
    BY DEF ListProviderOpportunities
  <2>2. opportunity[r][p] \in OpenOpportunity /\ status[r] = "pending_dispatch"
    BY <1>2, <2>1 DEF ContentToQuote, EligiblePreQuote
  <2>3. QED
    BY <2>1, <2>2, EligibleIsUndecided DEF FindByProvider
<1>3. QED
  BY <1>1, <1>2, CustomerIsShown DEF PartiesSeeOneDeal

(* Whatever bids, staff quotes, rejections, withdrawals and assignments a  *)
(* request has seen, staff's stale reads included, its parties are shown   *)
(* one deal.                                                               *)
THEOREM OneDeal == ViewsSpec => []PartiesSeeOneDeal
BY ViewInit, ViewNext, ViewsFollow, PTL DEF ViewsSpec

=============================================================================
