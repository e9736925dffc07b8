--------------------------- MODULE RequestViews ---------------------------
(***************************************************************************)
(* What the reads of the API show of a request: to staff, to its customer, *)
(* to the provider it is assigned to and to the providers who were invited *)
(* to bid on it.  Each read joins the tables of ServiceRequests by rules   *)
(* of its own (the latest quote, the assigned provider's quote, the quotes *)
(* that have a provider), so that what the parties see agrees only because *)
(* of what the transactions keep true.                                     *)
(*                                                                         *)
(* Of the content only what one party is shown and another is not is kept; *)
(* names, amounts, dates and ratings are left out.                         *)
(***************************************************************************)
EXTENDS ServiceRequests, Naturals, FiniteSetsExt

CONSTANT NoQuote  \* a view without a quote

ASSUME QuoteIdAssumption == Quote \subseteq Nat /\ NoQuote \notin Quote

(* Quote ids come from a sequence: they ascend.                            *)
IdsAscend ==
  \A q1, q2 \in Quote :
    q1 < q2 /\ quoteStatus'[q2] # "none" => quoteStatus'[q1] # "none"

ViewsSpec == Init /\ [][(Next \/ StaleNext) /\ IdsAscend]_vars

-----------------------------------------------------------------------------
(* ORDER BY id DESC LIMIT 1.                                               *)
Latest(quotes) == IF quotes = {} THEN NoQuote ELSE Max(quotes)

Paid(r) == Latest({q \in QuotesOf(r) : payment[q] # "none"})

Bids(r) == QuotesOf(r) \ StaffQuotes(r)

(* The customer's phone is read by one query only.                         *)
MayDisclosePhone(s) == s \in {"assigned", "on_the_way", "in_progress"}

ToServiceRequest(r, quote, phoneRead) ==
  [status   |-> status[r],
   provider |-> assigned[r],
   quote    |-> quote,
   payment  |-> Paid(r),
   phone    |-> phoneRead /\ MayDisclosePhone(status[r])]

(* The whole list of the dashboard.                                        *)
StaffView(r) ==
  [request       |-> ToServiceRequest(r, Latest(QuotesOf(r)), FALSE),
   opportunities |-> [s \in OpportunityStatus \ {"none"} |->
                       Cardinality({p \in Provider : opportunity[r][p] = s})]]

(* Faulty: the latest bid stands for all.                                  *)
LatestBidOnly(r) == {q \in Bids(r) : q = Latest(Bids(r))}

(* Every bid, whatever became of it.                                       *)
CustomerQuotes(r) == Bids(r)

(* The requests listed to their customers: nobody is listed an ownerless one. *)
FindByCustomer == Request \ Ownerless

CustomerView(r) ==
  [request |-> ToServiceRequest(r, Latest(QuotesOf(r)), FALSE),
   quotes  |-> CustomerQuotes(r)]

(* The customer's app lists the bids and, where there is none, the quote.  *)
Listed(view) == IF view.quotes # {} THEN view.quotes ELSE {view.request.quote}

(* Faulty: the latest quote of the request, whoever made it.               *)
JobQuoteOfAnyone(r) == Latest(QuotesOf(r))

(* The assigned provider's own bid goes before any quote of the staff.     *)
JobQuote(r) ==
  IF BidsOf(r, assigned[r]) # {}
    THEN Latest(BidsOf(r, assigned[r]))
    ELSE Latest(StaffQuotes(r))

FindByProvider(p) == {r \in Request : assigned[r] = p}

(* What of its content a job shows, by the status of its request.          *)
ProjectedForProvider(s) ==
  CASE s \in {"assigned", "on_the_way", "in_progress"} ->
         {"details", "images", "address", "exact location"}
    [] s = "pending_dispatch" -> {"coarse location"}
    [] OTHER -> {}

JobView(r) ==
  [request |-> ToServiceRequest(r, JobQuote(r), TRUE),
   content |-> ProjectedForProvider(status[r])]

(* The rows a provider's opportunities are read as.                        *)
ListProviderOpportunities(p) ==
  {[request |-> r, opportunity |-> opportunity[r][p], status |-> status[r],
    quote |-> Latest(BidsOf(r, p))] :
   r \in {r \in Request : opportunity[r][p] # "none"}}

(* Faulty: that the opportunity is closed meanwhile is not looked at, nor  *)
(* that another has the request.                                           *)
EligibleUntilEnded(row) == row.status \notin {"completed", "cancelled"}

EligiblePreQuote(row) ==
  row.opportunity \in OpenOpportunity /\ row.status = "pending_dispatch"

ContentToQuote(row) ==
  IF EligiblePreQuote(row) THEN {"details", "images", "coarse location"} ELSE {}

-----------------------------------------------------------------------------
(* The parties see one deal.  A quote a customer may still decide, or has  *)
(* approved, is listed to it; the approved one is the one whose cash       *)
(* is shown and the one the assigned provider is shown, never a quote of a *)
(* competitor.  A provider who has not won is shown the content of a       *)
(* request only while its own bid, if it made one, is undecided, and never *)
(* once another provider has been given the customer's phone.              *)
PartiesSeeOneDeal ==
  /\ \A r \in Request, q \in Quote : quoteRequest[q] = r =>
       /\ quoteStatus[q] \in ActiveQuote /\ r \in FindByCustomer =>
            q \in Listed(CustomerView(r))
       /\ quoteStatus[q] = "approved" =>
            /\ CustomerView(r).request.payment = q
            /\ \A p \in Provider : r \in FindByProvider(p) =>
                 JobView(r).request.quote = q
  /\ \A p \in Provider : \A row \in ListProviderOpportunities(p) :
       ContentToQuote(row) # {} =>
         /\ row.quote # NoQuote => quoteStatus[row.quote] = "proposed"
         /\ \A other \in Provider : row.request \in FindByProvider(other) =>
              ~ JobView(row.request).request.phone

=============================================================================
