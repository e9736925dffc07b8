----------------------- MODULE MCRequestTransactions -----------------------
(* Instances of RequestTransactions for TLC.                               *)
EXTENDS RequestTransactions, TLC, SequencesExt

EveryoneSuits == [r \in Request |-> Provider]

QuoteIds == SetToSeq(Quote)
Numbered(q) == CHOOSE n \in DOMAIN QuoteIds : QuoteIds[n] = q

(* On the given requests as many pairs of a request and a provider have a  *)
(* bid as there are quotes for; the other quotes are free.                 *)
PlanFor(ops, requests, quotes) ==
  LET Pairs == SetToSeq(requests \X Provider)
      Bid(q) == q \in quotes /\ Numbered(q) \in DOMAIN Pairs
  IN  [operations |-> ops, requests |-> requests, quotes |-> quotes,
       assigned |-> [r \in Request |-> NoProvider],
       bidOn |-> [q \in Quote |-> IF Bid(q) THEN Pairs[Numbered(q)][1] ELSE NoRequest],
       bidder |-> [q \in Quote |-> IF Bid(q) THEN Pairs[Numbered(q)][2] ELSE NoProvider]]

OneRequest == {CHOOSE r \in Request : TRUE}
ThreeQuotes == {q \in Quote : Numbered(q) <= 3}

Market == PlanFor({"assign", "approve", "reject", "submit", "withdraw", "close", "invite",
                   "suspend", "reactivate"}, OneRequest, ThreeQuotes)

(* Approvals, assignments and suspensions on requests that share bidders.  *)
Cross == PlanFor({"assign", "approve", "reject", "suspend"}, Request, Quote)

Work == PlanFor({"assign", "withdraw", "setOut", "work", "sample", "stop", "complete",
                 "cancel", "suspend", "reactivate"}, OneRequest, {QuoteIds[1]})

AllPlans == {Market, Cross, Work}
WorkOnly == {Work}
AssignAgainstWithdraw == {PlanFor({"assign", "withdraw"}, Request, Quote)}

ConnectionSymmetry == Permutations(Connection)
=============================================================================
