--------------------- MODULE RequestTransactionsProofs ---------------------
(***************************************************************************)
(* Proofs about RequestTransactions, for every set of connections, every   *)
(* plan and any number of transactions: statement by statement under row   *)
(* locks, the transactions behave as the atomic ones of ServiceRequests.   *)
(*                                                                         *)
(* The argument is one of ownership.  What a transaction found out stays   *)
(* true until it commits, since whoever changes a row owns it, two         *)
(* connections never own the same row, and each statement has secured the  *)
(* rows whose change could refute it.                                      *)
(***************************************************************************)
EXTENDS RequestTransactions, ServiceRequestsProofs

-----------------------------------------------------------------------------
(* The inductive invariant.                                                *)

(* To own a row is to have it among the locks h in a mode that lets nobody *)
(* else change it.                                                         *)
Owns(h, row) == \E m \in {"update", "write"} : <<row, m>> \in h

(* The row is still to be locked by statement n, or is owned.              *)
Secured(t, h, n, row) ==
  \/ t.at = n /\ row \in t.todo
  \/ Owns(h, row)

(* Statement n has not got to the row yet, or matched it.                  *)
Covered(t, n, row) ==
  \/ t.at = n /\ row \in t.todo
  \/ row \in t.hit

OnBid == {"approve", "reject", "withdraw"}
OnProvider == {"assign", "close", "setOut", "sample", "submit"}
Awarding == {"assign", "approve"}
Stopping == {"suspend", "reactivate", "complete", "cancel", "stop"}
Verifying == {"suspend", "reactivate"}
RequestFirst == Operations \ ({"withdraw"} \cup Verifying)

(* What a transaction was called with.                                     *)
WellCalled(t) ==
  /\ IF t.op \in Verifying THEN t.r = NoRequest ELSE t.r \in Request
  /\ t.op \in OnBid \cup OnProvider \cup Verifying => t.p \in Provider
  /\ IF t.op \in OnBid \cup {"submit"} THEN t.q \in Quote ELSE t.q = NoQuote
  /\ t.op \in OnBid => quoteRequest[t.q] = t.r /\ quoteBidder[t.q] = t.p
  /\ t.op \in {"approve", "reject"} => t.r \notin Ownerless
  /\ t.op \in {"stop", "sample"} => TrackingEnabled

(* The rows it locks one by one.                                           *)
RowsSecured(t, h) ==
      /\ t.op \in RequestFirst => Secured(t, h, 1, RequestRow(t.r))
      /\ t.op = "withdraw" => /\ Secured(t, h, 1, QuoteRow(t.q))
                              /\ t.at >= 2 => Covered(t, 2, OpportunityRow(t.r, t.p))
      /\ t.op \in Verifying => Secured(t, h, 1, ProviderRow(t.p))
      /\ t.op \in {"approve", "reject"} =>
           /\ t.at >= 2 => Secured(t, h, 2, QuoteRow(t.q))
           /\ t.at >= 3 => Secured(t, h, 3, ProviderRow(t.p))
      /\ t.op = "setOut" /\ t.at >= 2 => Secured(t, h, 2, ProviderRow(t.p))
      /\ t.op = "submit" /\ t.at >= 2 => Secured(t, h, 2, OpportunityRow(t.r, t.p))
      /\ t.op = "sample" /\ t.at >= 2 => Secured(t, h, 2, SessionRow(t.r))

(* The rows it matched are its own, the providers' excepted.               *)
MatchesOwned(t, h) ==
  /\ \A q \in Quote : QuoteRow(q) \in t.hit => Owns(h, QuoteRow(q))
  /\ \A r \in Request :
       /\ \A p \in Provider :
            OpportunityRow(r, p) \in t.hit => Owns(h, OpportunityRow(r, p))
       /\ SessionRow(r) \in t.hit => Owns(h, SessionRow(r))
       /\ PositionRow(r) \in t.hit => Owns(h, PositionRow(r))

(* What it found out on the way.                                           *)
Checked(t) ==
  /\ t.op = "assign" => /\ t.at >= 2 => status[t.r] = "pending_dispatch"
                        /\ t.at >= 3 => t.p \in Suitable[t.r]
  /\ t.op = "withdraw" /\ t.at >= 2 => quoteStatus[t.q] = "proposed"
  /\ t.op \in {"approve", "reject"} /\ t.at >= 3 => quoteStatus[t.q] = "proposed"
  /\ t.op = "approve" /\ t.at >= 3 => status[t.r] = "pending_dispatch"
  /\ t.op \in {"approve", "reject"} /\ t.at >= 4 => Fit(t.p)
  /\ t.op = "submit" => /\ t.at >= 2 => status[t.r] = "pending_dispatch"
                        /\ t.at >= 3 => t.p \in Open(t.r)
                        /\ t.at >= 4 => /\ NoActive(StaffQuotes(t.r))
                                        /\ NoActive(BidsOf(t.r, t.p))
  /\ t.op = "invite" => /\ t.at >= 2 => status[t.r] \notin {"completed", "cancelled"}
                        /\ t.at >= 3 => /\ NoActive(QuotesOf(t.r))
                                        /\ t.told \subseteq Suitable[t.r]
                                        /\ \A p \in t.told : opportunity[t.r][p] = "none"
  /\ t.op = "suspend" /\ t.at >= 2 => verification[t.p] = "verified"
  /\ t.op = "reactivate" /\ t.at >= 2 => verification[t.p] = "suspended"
  /\ t.op = "setOut" => /\ t.at >= 2 => status[t.r] = "assigned" /\ assigned[t.r] = t.p
                        /\ t.at >= 3 => Fit(t.p)
  /\ t.op = "complete" /\ t.at >= 2 => status[t.r] = "in_progress"
  /\ t.op = "cancel" /\ t.at >= 2 => status[t.r] \in AllowedPrevious("cancelled")
  /\ t.op = "sample" => /\ t.at >= 2 => status[t.r] \in Tracked /\ assigned[t.r] = t.p
                        /\ t.at >= 3 => session[t.r] = "active"

(* The bids an award rejects.                                              *)
Losing(t, q) ==
  /\ quoteRequest[q] = t.r /\ quoteBidder[q] # NoProvider
  /\ quoteStatus[q] = "proposed" /\ q # t.q

OpportunitiesAt(t) == IF t.op = "assign" THEN 5 ELSE 6

(* The sets of rows it collected are what its WHERE clauses still name.    *)
AwardExact(t) ==
  t.op \in Awarding =>
  /\ \A q \in Quote : /\ t.at >= 4 /\ Losing(t, q) => Covered(t, 4, QuoteRow(q))
                      /\ QuoteRow(q) \in t.hit => q = t.q \/ Losing(t, q)
  /\ \A x \in Provider :
       /\ t.at >= OpportunitiesAt(t) /\ x \in Open(t.r) =>
            Covered(t, OpportunitiesAt(t), OpportunityRow(t.r, x))
       /\ OpportunityRow(t.r, x) \in t.hit => x \in Open(t.r)
  /\ t.op = "approve" /\ t.at >= 6 => t.told = Open(t.r)

AnswerExact(t) ==
  /\ t.op = "reject" =>
       /\ t.at >= 4 /\ opportunity[t.r][t.p] = "quoted" => Covered(t, 4, OpportunityRow(t.r, t.p))
       /\ OpportunityRow(t.r, t.p) \in t.hit => opportunity[t.r][t.p] = "quoted"
  /\ t.op = "close" /\ OpportunityRow(t.r, t.p) \in t.hit => t.p \in Open(t.r)

Stripped(t, r) == IF t.op = "suspend" THEN SessionRow(r) \in t.hit ELSE r = t.r

StopsExact(t) ==
  /\ t.op \in Stopping => \A r \in Request :
       /\ t.at >= 2 /\ Stops(t, r) => Covered(t, 2, SessionRow(r))
       /\ SessionRow(r) \in t.hit => Stops(t, r)
       /\ t.at >= 3 /\ position[r] /\ Stripped(t, r) => Covered(t, 3, PositionRow(r))
       /\ PositionRow(r) \in t.hit => Stripped(t, r)
  /\ t.op \notin Stopping \cup {"sample"} => \A r \in Request :
       SessionRow(r) \notin t.hit /\ PositionRow(r) \notin t.hit

Sound(i) ==
  /\ WellCalled(tx[i]) /\ Checked(tx[i])
  /\ RowsSecured(tx[i], held[i]) /\ MatchesOwned(tx[i], held[i])
  /\ AwardExact(tx[i]) /\ AnswerExact(tx[i]) /\ StopsExact(tx[i])

TxInv ==
  /\ LocksExclude
  /\ IInv
  /\ \A r \in Request : status[r] # "none"
  /\ \A i \in Connection : tx[i] # Idle => Sound(i)

USE NobodyAssumption

-----------------------------------------------------------------------------
(* Rows, programs and locks.                                               *)

(* A row is told from another by its table and its ids.                    *)
LEMMA Rows ==
  /\ \A r : RequestRow(r)[1] = "request" /\ RequestRow(r)[2] = r
  /\ \A q : QuoteRow(q)[1] = "quote" /\ QuoteRow(q)[2] = q
  /\ \A r, p : /\ OpportunityRow(r, p)[1] = "opportunity"
               /\ OpportunityRow(r, p)[2] = r /\ OpportunityRow(r, p)[3] = p
  /\ \A p : ProviderRow(p)[1] = "provider" /\ ProviderRow(p)[2] = p
  /\ \A r : SessionRow(r)[1] = "session" /\ SessionRow(r)[2] = r
  /\ \A r : PositionRow(r)[1] = "position" /\ PositionRow(r)[2] = r
BY DEF RequestRow, QuoteRow, OpportunityRow, ProviderRow, SessionRow, PositionRow

LEMMA RowTypes ==
  /\ \A r \in Request : /\ RequestRow(r) \in Row /\ SessionRow(r) \in Row
                        /\ PositionRow(r) \in Row
                        /\ \A p \in Provider : OpportunityRow(r, p) \in Row
  /\ \A q \in Quote : QuoteRow(q) \in Row
  /\ \A p \in Provider : ProviderRow(p) \in Row
BY DEF Row

(* The statement a transaction is at, by its operation.                    *)
StatementTable(t) ==
  /\ t.op = "assign" =>
       /\ Len(Program(t.op)) = 6
       /\ t.at \in 1 .. 6
       /\ t.at = 1 => Statement(t) = "request"
       /\ t.at = 2 => Statement(t) = "eligible"
       /\ t.at = 3 => Statement(t) = "award"
       /\ t.at = 4 => Statement(t) = "bids"
       /\ t.at = 5 => Statement(t) = "opportunities"
       /\ t.at = 6 => Statement(t) = "notify"
  /\ t.op = "approve" =>
       /\ Len(Program(t.op)) = 7
       /\ t.at \in 1 .. 7
       /\ t.at = 1 => Statement(t) = "request"
       /\ t.at = 2 => Statement(t) = "quote"
       /\ t.at = 3 => Statement(t) = "provider"
       /\ t.at = 4 => Statement(t) = "bids"
       /\ t.at = 5 => Statement(t) = "losers"
       /\ t.at = 6 => Statement(t) = "opportunities"
       /\ t.at = 7 => Statement(t) = "notify"
  /\ t.op = "reject" =>
       /\ Len(Program(t.op)) = 4
       /\ t.at \in 1 .. 4
       /\ t.at = 1 => Statement(t) = "request"
       /\ t.at = 2 => Statement(t) = "quote"
       /\ t.at = 3 => Statement(t) = "provider"
       /\ t.at = 4 => Statement(t) = "answer"
  /\ t.op = "submit" =>
       /\ Len(Program(t.op)) = 4
       /\ t.at \in 1 .. 4
       /\ t.at = 1 => Statement(t) = "request"
       /\ t.at = 2 => Statement(t) = "opportunity"
       /\ t.at = 3 => Statement(t) = "fresh"
       /\ t.at = 4 => Statement(t) = "bid"
  /\ t.op = "withdraw" =>
       /\ Len(Program(t.op)) = 3
       /\ t.at \in 1 .. 3
       /\ t.at = 1 => Statement(t) = "quote"
       /\ t.at = 2 => Statement(t) = "leave"
       /\ t.at = 3 => Statement(t) = "event"
  /\ t.op = "close" =>
       /\ Len(Program(t.op)) = 2
       /\ t.at \in 1 .. 2
       /\ t.at = 1 => Statement(t) = "request"
       /\ t.at = 2 => Statement(t) = "answer"
  /\ t.op = "invite" =>
       /\ Len(Program(t.op)) = 3
       /\ t.at \in 1 .. 3
       /\ t.at = 1 => Statement(t) = "request"
       /\ t.at = 2 => Statement(t) = "choose"
       /\ t.at = 3 => Statement(t) = "offer"
  /\ t.op = "setOut" =>
       /\ Len(Program(t.op)) = IF TrackingEnabled THEN 3 ELSE 1
       /\ t.at \in 1 .. 3
       /\ t.at > 1 => TrackingEnabled
       /\ t.at = 1 => Statement(t) = "request"
       /\ t.at = 2 => Statement(t) = "provider"
       /\ t.at = 3 => Statement(t) = "start"
  /\ t.op = "work" =>
       /\ Len(Program(t.op)) = 1
       /\ t.at \in 1 .. 1
       /\ t.at = 1 => Statement(t) = "request"
  /\ t.op = "sample" =>
       /\ Len(Program(t.op)) = 3
       /\ t.at \in 1 .. 3
       /\ t.at = 1 => Statement(t) = "request"
       /\ t.at = 2 => Statement(t) = "session"
       /\ t.at = 3 => Statement(t) = "positions"
  /\ t.op \in Verifying =>
       /\ Len(Program(t.op)) = 3
       /\ t.at \in 1 .. 3
       /\ t.at = 1 => Statement(t) = "provider"
       /\ t.at = 2 => Statement(t) = "sessions"
       /\ t.at = 3 => Statement(t) = "positions"
  /\ t.op \in {"complete", "cancel", "stop"} =>
       /\ Len(Program(t.op)) = 3
       /\ t.at \in 1 .. 3
       /\ t.at = 1 => Statement(t) = "request"
       /\ t.at = 2 => Statement(t) = "sessions"
       /\ t.at = 3 => Statement(t) = "positions"

LEMMA Statements ==
  ASSUME NEW t \in Transaction, t.at <= Len(Program(t.op))
  PROVE  StatementTable(t)
<1> t.op \in Operations /\ t.at \in 1 .. 7
  BY DEF Transaction
<1> USE DEF Verifying
<1>1. CASE t.op = "assign"
  <2>1. Program(t.op) = AssignProgram
    BY <1>1 DEF Program
  <2>2. Len(Program(t.op)) = 6
    BY <2>1 DEF AssignProgram
  <2>3. t.at \in 1 .. 6
    BY <2>2
  <2>4. QED
    BY <1>1, <2>1, <2>2, <2>3 DEF Statement, StatementTable, AssignProgram
<1>2. CASE t.op = "approve"
  <2>1. Program(t.op) = ApproveProgram
    BY <1>2 DEF Program
  <2>2. Len(Program(t.op)) = 7
    BY <2>1 DEF ApproveProgram
  <2>3. t.at \in 1 .. 7
    BY <2>2
  <2>4. QED
    BY <1>2, <2>1, <2>2, <2>3 DEF Statement, StatementTable, ApproveProgram
<1>3. CASE t.op = "reject"
  <2>1. Program(t.op) = <<"request", "quote", "provider", "answer">>
    BY <1>3 DEF Program
  <2>2. Len(Program(t.op)) = 4
    BY <2>1
  <2>3. t.at \in 1 .. 4
    BY <2>2
  <2>4. QED
    BY <1>3, <2>1, <2>2, <2>3 DEF Statement, StatementTable
<1>4. CASE t.op = "submit"
  <2>1. Program(t.op) = <<"request", "opportunity", "fresh", "bid">>
    BY <1>4 DEF Program
  <2>2. Len(Program(t.op)) = 4
    BY <2>1
  <2>3. t.at \in 1 .. 4
    BY <2>2
  <2>4. QED
    BY <1>4, <2>1, <2>2, <2>3 DEF Statement, StatementTable
<1>5. CASE t.op = "withdraw"
  <2>1. Program(t.op) = <<"quote", "leave", "event">>
    BY <1>5 DEF Program
  <2>2. Len(Program(t.op)) = 3
    BY <2>1
  <2>3. t.at \in 1 .. 3
    BY <2>2
  <2>4. QED
    BY <1>5, <2>1, <2>2, <2>3 DEF Statement, StatementTable
<1>6. CASE t.op = "close"
  <2>1. Program(t.op) = <<"request", "answer">>
    BY <1>6 DEF Program
  <2>2. Len(Program(t.op)) = 2
    BY <2>1
  <2>3. t.at \in 1 .. 2
    BY <2>2
  <2>4. QED
    BY <1>6, <2>1, <2>2, <2>3 DEF Statement, StatementTable
<1>7. CASE t.op = "invite"
  <2>1. Program(t.op) = <<"request", "choose", "offer">>
    BY <1>7 DEF Program
  <2>2. Len(Program(t.op)) = 3
    BY <2>1
  <2>3. t.at \in 1 .. 3
    BY <2>2
  <2>4. QED
    BY <1>7, <2>1, <2>2, <2>3 DEF Statement, StatementTable
<1>8. CASE t.op = "setOut"
  <2>1. Program(t.op) = SetOutProgram
    BY <1>8 DEF Program
  <2>2. CASE TrackingEnabled
    <3>1. Program(t.op) = <<"request", "provider", "start">>
      BY <2>1, <2>2 DEF SetOutProgram
    <3>2. Len(Program(t.op)) = 3
      BY <3>1
    <3>3. QED
      BY <1>8, <2>2, <3>1, <3>2 DEF Statement, StatementTable
  <2>3. CASE ~TrackingEnabled
    <3>1. Program(t.op) = <<"request">>
      BY <2>1, <2>3 DEF SetOutProgram
    <3>2. Len(Program(t.op)) = 1
      BY <3>1
    <3>3. t.at = 1
      BY <3>2
    <3>4. QED
      BY <1>8, <2>3, <3>1, <3>2, <3>3 DEF Statement, StatementTable
  <2>4. QED
    BY <2>2, <2>3
<1>9. CASE t.op = "work"
  <2>1. Program(t.op) = <<"request">>
    BY <1>9 DEF Program
  <2>2. Len(Program(t.op)) = 1
    BY <2>1
  <2>3. t.at \in 1 .. 1
    BY <2>2
  <2>4. QED
    BY <1>9, <2>1, <2>2, <2>3 DEF Statement, StatementTable
<1>10. CASE t.op = "sample"
  <2>1. Program(t.op) = SampleProgram
    BY <1>10 DEF Program
  <2>2. Len(Program(t.op)) = 3
    BY <2>1 DEF SampleProgram
  <2>3. t.at \in 1 .. 3
    BY <2>2
  <2>4. QED
    BY <1>10, <2>1, <2>2, <2>3 DEF Statement, StatementTable, SampleProgram
<1>11. CASE t.op \in {"suspend", "reactivate"}
  <2>1. Program(t.op) = <<"provider", "sessions", "positions">>
    BY <1>11 DEF Program
  <2>2. Len(Program(t.op)) = 3
    BY <2>1
  <2>3. t.at \in 1 .. 3
    BY <2>2
  <2>4. QED
    BY <1>11, <2>1, <2>2, <2>3 DEF Statement, StatementTable
<1>12. CASE t.op \in {"complete", "cancel", "stop"}
  <2>1. Program(t.op) = <<"request", "sessions", "positions">>
    BY <1>12 DEF Program
  <2>2. Len(Program(t.op)) = 3
    BY <2>1
  <2>3. t.at \in 1 .. 3
    BY <2>2
  <2>4. QED
    BY <1>12, <2>1, <2>2, <2>3 DEF Statement, StatementTable
<1>13. QED
  BY <1>1, <1>2, <1>3, <1>4, <1>5, <1>6, <1>7, <1>8, <1>9, <1>10, <1>11, <1>12 DEF Operations

(* Two connections never own the same row.                                 *)
LEMMA OneOwner ==
  ASSUME LocksExclude, NEW i \in Connection, NEW j \in Connection, i # j, NEW row, Owns(held[i], row)
  PROVE  ~Owns(held[j], row)
<1> SUFFICES ASSUME Owns(held[j], row) PROVE FALSE
  OBVIOUS
<1>1. PICK m1 \in {"update", "write"} : <<row, m1>> \in held[i]
  BY DEF Owns
<1>2. PICK m2 \in {"update", "write"} : <<row, m2>> \in held[j]
  BY DEF Owns
<1>3. <<row, m1>>[1] = <<row, m2>>[1] => ~Conflict(<<row, m1>>[2], <<row, m2>>[2])
  BY <1>1, <1>2 DEF LocksExclude
<1>4. QED
  BY <1>3 DEF Conflict

(* What is sound of a transaction stays so when it stands still and the    *)
(* rows do.                                                                *)
LEMMA Bystander ==
  ASSUME NEW i \in Connection, Sound(i), UNCHANGED vars,
         tx'[i] = tx[i], held'[i] = held[i]
  PROVE  Sound(i)'
<1> USE DEF Sound, vars
<1>1. WellCalled(tx[i])' /\ MatchesOwned(tx[i], held[i])'
  BY DEF WellCalled, MatchesOwned, Owns
<1>2. RowsSecured(tx[i], held[i])'
  BY DEF RowsSecured, Secured, Covered, Owns
<1>3. Checked(tx[i])'
  BY DEF Checked, Fit, Open, NoActive, QuotesOf, StaffQuotes, BidsOf
<1>4. AwardExact(tx[i])' /\ AnswerExact(tx[i])'
  BY DEF AwardExact, AnswerExact, Covered, Losing, OpportunitiesAt, Open
<1>5. StopsExact(tx[i])'
  BY DEF StopsExact, Stops, Stripped, Covered
<1>6. QED
  BY <1>1, <1>2, <1>3, <1>4, <1>5

(* Only one transaction has to be looked at when the rows do not change.   *)
LEMMA OneMoves ==
  ASSUME TxInv, NEW k \in Connection, UNCHANGED vars, LocksExclude',
         \A i \in Connection \ {k} : tx'[i] = tx[i] /\ held'[i] = held[i],
         tx'[k] # Idle => Sound(k)'
  PROVE  TxInv'
<1>1. IInv' /\ \A r \in Request : status'[r] # "none"
  BY NextInv DEF TxInv, vars
<1>2. ASSUME NEW i \in Connection, tx'[i] # Idle
      PROVE  Sound(i)'
  BY <1>2, Bystander DEF TxInv
<1>3. QED
  BY <1>1, <1>2 DEF TxInv

-----------------------------------------------------------------------------
(* A transaction begins, and ends without a commit.                        *)

LEMMA CallsTyped ==
  ASSUME TxInv, NEW op \in plan.operations, NEW t \in Calls(op),
         op \in {"stop", "sample"} => TrackingEnabled
  PROVE  /\ t \in Transaction /\ t.op = op /\ op \in Operations
         /\ WellCalled(t)
         /\ t.at = 1 /\ t.todo = {} /\ t.hit = {}
<1>1. /\ plan.operations \subseteq Operations /\ plan.requests \subseteq Request
      /\ plan.quotes \subseteq Quote
  BY PlansAssumption DEF TxInv, LocksExclude
<1>2. ASSUME NEW q \in Quote, quoteBidder[q] # NoProvider
      PROVE  quoteRequest[q] \in Request /\ quoteBidder[q] \in Provider
  BY <1>2 DEF TxInv, LocksExclude, TypeOK, RowsExist
<1> USE DEF WellCalled, Call, Transaction, Operations, OnBid, OnProvider, Verifying
<1>3. CASE op \in {"assign", "close", "setOut", "sample"}
  BY <1>1, <1>3 DEF Calls
<1>4. CASE op \in {"approve", "reject", "withdraw"}
  BY <1>1, <1>2, <1>4 DEF Calls
<1>5. CASE op = "submit"
  BY <1>1, <1>5 DEF Calls, FreshQuotes
<1>6. CASE op = "invite"
  BY <1>1, <1>6 DEF Calls
<1>7. CASE op \in {"suspend", "reactivate"}
  BY <1>1, <1>7 DEF Calls
<1>8. CASE op \in {"work", "complete", "cancel", "stop"}
  BY <1>1, <1>8 DEF Calls
<1>9. QED
  BY <1>1, <1>3, <1>4, <1>5, <1>6, <1>7, <1>8

(* The kinds of statements, and what a transaction at one was called with. *)
StatementName ==
  {"request", "event", "opportunity", "leave", "answer", "session", "opportunities", "quote",
   "provider", "award", "bid", "bids", "offer", "notify", "sessions", "positions", "eligible",
   "losers", "fresh", "choose", "start", "live"}

LEMMA StatementNamed ==
  ASSUME NEW t \in Transaction, t.at <= Len(Program(t.op)), WellCalled(t)
  PROVE  /\ Statement(t) \in StatementName
         /\ Statement(t) \in {"request", "event", "opportunity", "leave", "answer", "session",
                              "opportunities"} => t.r \in Request
         /\ Statement(t) \in {"opportunity", "leave", "provider", "award", "bid"}
               => t.p \in Provider
         /\ Statement(t) = "quote" => t.q \in Quote
<1>a. t.op \in Operations
  BY DEF Transaction
<1> USE DEF WellCalled, OnBid, OnProvider, Verifying, StatementName
<1>0. StatementTable(t)
  BY Statements
<1>1. CASE t.op = "assign"
  BY <1>0, <1>1 DEF StatementTable
<1>2. CASE t.op = "approve"
  BY <1>0, <1>2 DEF StatementTable
<1>3. CASE t.op = "reject"
  BY <1>0, <1>3 DEF StatementTable
<1>4. CASE t.op = "submit"
  BY <1>0, <1>4 DEF StatementTable
<1>5. CASE t.op = "withdraw"
  BY <1>0, <1>5 DEF StatementTable
<1>6. CASE t.op = "close"
  BY <1>0, <1>6 DEF StatementTable
<1>7. CASE t.op = "invite"
  BY <1>0, <1>7 DEF StatementTable
<1>8. CASE t.op = "setOut"
  BY <1>0, <1>8 DEF StatementTable
<1>9. CASE t.op = "work"
  BY <1>0, <1>9 DEF StatementTable
<1>10. CASE t.op = "sample"
  BY <1>0, <1>10 DEF StatementTable
<1>11. CASE t.op \in {"suspend", "reactivate"}
  BY <1>0, <1>11 DEF StatementTable
<1>12. CASE t.op \in {"complete", "cancel", "stop"}
  BY <1>0, <1>12, <1>a DEF StatementTable
<1>13. QED
  BY <1>1, <1>2, <1>3, <1>4, <1>5, <1>6, <1>7, <1>8, <1>9, <1>10, <1>11, <1>12, <1>a DEF Operations
(* The rows of a statement, table by table.                                *)
LEMMA Targets ==
  ASSUME NEW t, Statement(t) \in StatementName
  PROVE  /\ \A q \in Quote : QuoteRow(q) \in Target(t) <=>
              \/ Statement(t) = "quote" /\ q = t.q
              \/ Statement(t) = "bids" /\ Losing(t, q)
         /\ \A r \in Request, x \in Provider : OpportunityRow(r, x) \in Target(t) <=>
              /\ r = t.r
              /\ \/ Statement(t) \in {"opportunity", "leave"} /\ x = t.p
                 \/ /\ Statement(t) = "answer" /\ x = t.p
                    /\ IF t.op = "close" THEN x \in Open(t.r)
                                         ELSE opportunity[t.r][x] = "quoted"
                 \/ Statement(t) = "opportunities" /\ x \in Open(t.r)
         /\ \A r \in Request : SessionRow(r) \in Target(t) <=>
              \/ Statement(t) = "session" /\ r = t.r
              \/ Statement(t) = "sessions" /\ Stops(t, r)
         /\ \A r \in Request : PositionRow(r) \in Target(t) <=>
              Statement(t) = "positions" /\ position[r] /\ Stripped(t, r)
<1> DEFINE s == Statement(t)
           bids == {x \in QuotesOf(t.r) \ StaffQuotes(t.r) : quoteStatus[x] = "proposed" /\ x # t.q}
           answers == {t.p} \cap IF t.op = "close" THEN Open(t.r)
                                  ELSE {x \in Provider : opportunity[t.r][x] = "quoted"}
           told == {x \in Provider : OutboxEnabled
                               /\ (x \in t.told \/ OpportunityRow(t.r, x) \in t.hit)}
           stopped == {x \in Request : Stops(t, x)}
           deleted == {x \in Request : position[x] /\ Stripped(t, x)}
<1>1. /\ s \in {"request", "event"} => Target(t) = {RequestRow(t.r)}
      /\ s = "quote" => Target(t) = {QuoteRow(t.q)}
      /\ s \in {"opportunity", "leave"} => Target(t) = {OpportunityRow(t.r, t.p)}
      /\ s \in {"provider", "award", "bid"} => Target(t) = {ProviderRow(t.p)}
      /\ s = "session" => Target(t) = {SessionRow(t.r)}
      /\ s \in {"eligible", "losers", "fresh", "choose", "start", "live"} => Target(t) = {}
  BY DEF Target
<1>2. /\ s = "bids" => Target(t) = {QuoteRow(q) : q \in bids}
      /\ s = "answer" => Target(t) = {OpportunityRow(t.r, p) : p \in answers}
      /\ s = "opportunities" => Target(t) = {OpportunityRow(t.r, p) : p \in Open(t.r)}
  BY DEF Target
<1>3. /\ s = "offer" => Target(t) = {ProviderRow(p) : p \in t.told}
      /\ s = "notify" => Target(t) = {ProviderRow(p) : p \in told}
      /\ s = "sessions" => Target(t) = {SessionRow(r) : r \in stopped}
  BY DEF Target
<1>4. s = "positions" => Target(t) = {PositionRow(r) : r \in deleted}
  BY DEF Target, Stripped
<1>5. \A q \in Quote : q \in bids <=> Losing(t, q)
  BY DEF Losing, QuotesOf, StaffQuotes
<1>6. \A x \in Provider : x \in answers <=>
        x = t.p /\ IF t.op = "close" THEN x \in Open(t.r) ELSE opportunity[t.r][x] = "quoted"
  OBVIOUS
<1>7. /\ \A r \in Request : r \in stopped <=> Stops(t, r)
      /\ \A r \in Request : r \in deleted <=> position[r] /\ Stripped(t, r)
  OBVIOUS
<1> HIDE DEF s, bids, answers, told, stopped, deleted
<1>8. s \in StatementName
  BY DEF s
<1>9. \A q \in Quote : QuoteRow(q) \in Target(t) <=>
        \/ s = "quote" /\ q = t.q
        \/ s = "bids" /\ q \in bids
  BY <1>1, <1>2, <1>3, <1>4, <1>8, Rows DEF StatementName
<1>10. \A r \in Request, x \in Provider : OpportunityRow(r, x) \in Target(t) <=>
         /\ r = t.r
         /\ \/ s \in {"opportunity", "leave"} /\ x = t.p
            \/ s = "answer" /\ x \in answers
            \/ s = "opportunities" /\ x \in Open(t.r)
  BY <1>1, <1>2, <1>3, <1>4, <1>8, Rows DEF StatementName
<1>11. \A r \in Request : SessionRow(r) \in Target(t) <=>
         \/ s = "session" /\ r = t.r
         \/ s = "sessions" /\ r \in stopped
  BY <1>1, <1>2, <1>3, <1>4, <1>8, Rows DEF StatementName
<1>12. \A r \in Request : PositionRow(r) \in Target(t) <=> s = "positions" /\ r \in deleted
  BY <1>1, <1>2, <1>3, <1>4, <1>8, Rows DEF StatementName
<1>13. QED
  BY <1>5, <1>6, <1>7, <1>9, <1>10, <1>11, <1>12 DEF s

(* A statement names rows there are.                                       *)
LEMMA TargetTyped ==
  ASSUME NEW t \in Transaction, t.at <= Len(Program(t.op)), WellCalled(t)
  PROVE  Target(t) \subseteq Row
<1>1. t.op \in Operations /\ t.at \in 1 .. 7 /\ t.told \in SUBSET Provider
  BY DEF Transaction
<1>2. /\ Statement(t) \in StatementName
      /\ Statement(t) \in {"request", "event", "opportunity", "leave", "answer", "session",
                           "opportunities"} => t.r \in Request
      /\ Statement(t) \in {"opportunity", "leave", "provider", "award", "bid"} => t.p \in Provider
      /\ Statement(t) = "quote" => t.q \in Quote
  BY StatementNamed
<1> USE RowTypes
<1>3. CASE Statement(t) \in {"request", "event", "opportunity", "leave", "session", "quote",
                            "provider", "award", "bid"}
  BY <1>2, <1>3 DEF Target
<1>4. CASE Statement(t) = "bids"
  BY <1>4 DEF Target, QuotesOf
<1>5. CASE Statement(t) = "answer"
  BY <1>2, <1>5 DEF Target, Open
<1>6. CASE Statement(t) = "opportunities"
  BY <1>2, <1>6 DEF Target, Open
<1>7. CASE Statement(t) \in {"offer", "notify"}
  BY <1>1, <1>7 DEF Target
<1>8. CASE Statement(t) \in {"sessions", "positions"}
  BY <1>8 DEF Target
<1>9. CASE Statement(t) \in {"eligible", "losers", "fresh", "choose", "start", "live"}
  BY <1>9 DEF Target
<1>10. QED
  BY <1>2, <1>3, <1>4, <1>5, <1>6, <1>7, <1>8, <1>9 DEF StatementName

(* A transaction put at its n-th statement has the rows of that one to     *)
(* lock.                                                                   *)
LEMMA AtStatement ==
  ASSUME NEW t \in Transaction, NEW n \in 1 .. 7, n <= Len(Program(t.op)), WellCalled(t)
  PROVE  \E u \in Transaction :
           /\ u.at = n /\ u.op = t.op /\ u.r = t.r /\ u.p = t.p /\ u.q = t.q
           /\ u.hit = t.hit /\ u.told = t.told
           /\ LET s == At(t, n)
              IN  /\ s \in Transaction /\ s.at = n /\ s.todo = Target(u)
                  /\ s.op = t.op /\ s.r = t.r /\ s.p = t.p /\ s.q = t.q
                  /\ s.hit = t.hit /\ s.told = t.told
<1> DEFINE u == [t EXCEPT !.at = n]
           s == [u EXCEPT !.todo = Target(u)]
<1>1. /\ u \in Transaction /\ u.at = n /\ u.op = t.op /\ u.r = t.r /\ u.p = t.p /\ u.q = t.q
      /\ u.hit = t.hit /\ u.told = t.told
  BY DEF Transaction
<1>2. At(t, n) = s
  BY DEF At
<1> HIDE DEF u
<1>3. WellCalled(u)
  BY <1>1 DEF WellCalled
<1>4. Target(u) \subseteq Row
  BY <1>1, <1>3, TargetTyped
<1>5. /\ s \in Transaction /\ s.at = n /\ s.todo = Target(u) /\ s.op = u.op /\ s.r = u.r
      /\ s.p = u.p /\ s.q = u.q /\ s.hit = u.hit /\ s.told = u.told
  BY <1>1, <1>4 DEF Transaction
<1>6. QED
  BY <1>1, <1>2, <1>5

LEMMA BeginInv ==
  ASSUME TxInv, NEW k \in Connection, Begin(k), UNCHANGED plan
  PROVE  TxInv'
<1>1. PICK op \in plan.operations : 
        /\ op \in {"stop", "sample"} => TrackingEnabled
        /\ \E t \in Calls(op) : tx' = [tx EXCEPT ![k] = At(t, 1)]
  BY DEF Begin
<1>2. PICK t \in Calls(op) : tx' = [tx EXCEPT ![k] = At(t, 1)]
  BY <1>1
<1>3. /\ t \in Transaction /\ t.op = op /\ op \in Operations /\ WellCalled(t)
      /\ t.at = 1 /\ t.todo = {} /\ t.hit = {}
  BY <1>1, CallsTyped
<1>4. 1 <= Len(Program(t.op))
  BY <1>3 DEF Operations, Program, AssignProgram, ApproveProgram, SampleProgram, SetOutProgram
<1> DEFINE s == At(t, 1)
<1>5. PICK u \in Transaction :
        /\ u.at = 1 /\ u.op = t.op /\ u.r = t.r /\ u.p = t.p /\ u.q = t.q /\ u.hit = {}
        /\ s \in Transaction /\ s.at = 1 /\ s.todo = Target(u)
        /\ s.op = t.op /\ s.r = t.r /\ s.p = t.p /\ s.q = t.q /\ s.hit = {}
  BY <1>3, <1>4, AtStatement
<1>6. tx'[k] = s /\ held' = held /\ UNCHANGED vars /\ UNCHANGED plan
  BY <1>2 DEF Begin, TxInv, LocksExclude
<1> HIDE DEF s
<1>7. LocksExclude'
  <2>1. TypeOK'
    BY <1>6 DEF TxInv, LocksExclude, TypeOK, RowsExist, vars
  <2>2. tx' \in [Connection -> Transaction \cup {Idle}]
    BY <1>2, <1>5 DEF TxInv, LocksExclude, s
  <2>3. held[k] = {}
    BY DEF Begin, TxInv, LocksExclude
  <2>4. s # Idle /\ s.at <= Len(Program(s.op))
    BY <1>4, <1>5
  <2>5. ASSUME NEW i \in Connection
        PROVE  IF tx'[i] = Idle THEN held'[i] = {} ELSE tx'[i].at <= Len(Program(tx'[i].op))
    BY <1>2, <1>6, <2>4 DEF TxInv, LocksExclude, s
  <2>6. QED
    BY <1>6, <2>1, <2>2, <2>5 DEF TxInv, LocksExclude
<1>8. Sound(k)'
  <2>1. StatementTable(u)
    BY <1>4, <1>5, Statements
  <2>2. WellCalled(tx[k])'
    BY <1>3, <1>5, <1>6 DEF WellCalled, vars
  <2>3. RowsSecured(tx[k], held[k])'
    BY <1>5, <1>6, <2>1 DEF StatementTable, RowsSecured, Secured, Target, RequestFirst, Operations,
                            Verifying
  <2>4. MatchesOwned(tx[k], held[k])'
    BY <1>5, <1>6 DEF MatchesOwned
  <2>5. Checked(tx[k])'
    BY <1>5, <1>6 DEF Checked
  <2>6. AwardExact(tx[k])' /\ AnswerExact(tx[k])'
    BY <1>5, <1>6 DEF AwardExact, AnswerExact, OpportunitiesAt
  <2>7. StopsExact(tx[k])'
    BY <1>5, <1>6 DEF StopsExact
  <2>8. QED
    BY <2>2, <2>3, <2>4, <2>5, <2>6, <2>7 DEF Sound
<1>9. QED
  BY <1>2, <1>6, <1>7, <1>8, OneMoves DEF TxInv, LocksExclude

(* A transaction that ends without a commit leaves no trace.               *)
LEMMA EndInv ==
  ASSUME TxInv, NEW k \in Connection, End(k), UNCHANGED <<vars, plan>>
  PROVE  TxInv'
<1>1. tx'[k] = Idle /\ held'[k] = {}
  BY DEF End, TxInv, LocksExclude
<1>2. \A i \in Connection \ {k} : tx'[i] = tx[i] /\ held'[i] = held[i]
  BY DEF End, TxInv, LocksExclude
<1>3. LocksExclude'
  <2>1. TypeOK'
    BY DEF TxInv, LocksExclude, TypeOK, RowsExist, vars
  <2>2. /\ tx' \in [Connection -> Transaction \cup {Idle}]
        /\ held' \in [Connection -> SUBSET (Row \X Mode)]
    BY DEF End, TxInv, LocksExclude
  <2>3. QED
    BY <1>1, <1>2, <2>1, <2>2 DEF TxInv, LocksExclude
<1>4. QED
  BY <1>1, <1>2, <1>3, OneMoves

-----------------------------------------------------------------------------
(* A transaction locks a row.                                              *)

LEMMA ModeTyped ==
  ASSUME NEW t \in Transaction, t.at <= Len(Program(t.op))
  PROVE  /\ LockMode(t) \in Mode
         /\ LockMode(t) # "key" <=> Statement(t) \notin {"event", "award", "bid", "offer", "notify"}
BY DEF LockMode, Mode

(* What locking a row does to the connection that locks it.                *)
Takes(k, row) ==
  /\ tx[k] \in Transaction /\ tx[k].at <= Len(Program(tx[k].op)) /\ row \in tx[k].todo
  /\ tx'[k] \in Transaction
  /\ tx'[k].op = tx[k].op /\ tx'[k].r = tx[k].r /\ tx'[k].p = tx[k].p
  /\ tx'[k].q = tx[k].q /\ tx'[k].at = tx[k].at /\ tx'[k].told = tx[k].told
  /\ tx'[k].todo = tx[k].todo \ {row}
  /\ tx'[k].hit = tx[k].hit \cup (Target(tx[k]) \cap {row})
  /\ held'[k] = held[k] \cup {<<row, LockMode(tx[k])>>}
  /\ \A i \in Connection \ {k} : tx'[i] = tx[i] /\ held'[i] = held[i]

LEMMA Locked ==
  ASSUME TxInv, NEW k \in Connection, NEW row, Lock(k, row)
  PROVE  Takes(k, row)
<1>1. tx[k] \in Transaction /\ tx[k].at <= Len(Program(tx[k].op)) /\ row \in tx[k].todo
  BY DEF Lock, TxInv, LocksExclude
<1>2. row \in Row
  BY <1>1 DEF Transaction
<1> DEFINE hits == tx[k].hit \cup (Target(tx[k]) \cap {row})
           s == [tx[k] EXCEPT !.todo = tx[k].todo \ {row}, !.hit = hits]
<1>3. hits \in SUBSET Row
  BY <1>1, <1>2 DEF Transaction
<1>4. tx' = [tx EXCEPT ![k] = s]
  BY DEF Lock
<1> HIDE DEF hits
<1>5. /\ s \in Transaction
      /\ s.op = tx[k].op /\ s.r = tx[k].r /\ s.p = tx[k].p
      /\ s.q = tx[k].q /\ s.at = tx[k].at /\ s.told = tx[k].told
      /\ s.todo = tx[k].todo \ {row}
      /\ s.hit = hits
  BY <1>1, <1>3 DEF Transaction
<1> HIDE DEF s
<1>6. tx'[k] = s
  BY <1>4 DEF TxInv, LocksExclude
<1>7. /\ held'[k] = held[k] \cup {<<row, LockMode(tx[k])>>}
      /\ \A i \in Connection \ {k} : tx'[i] = tx[i] /\ held'[i] = held[i]
  BY <1>4 DEF Lock, TxInv, LocksExclude
<1>8. QED
  BY <1>1, <1>5, <1>6, <1>7 DEF hits, Takes

LEMMA LockTyped ==
  ASSUME TxInv, NEW k \in Connection, NEW row, Lock(k, row), UNCHANGED plan
  PROVE  LocksExclude'
<1>1. TypeOK'
  BY DEF Lock, TxInv, LocksExclude, TypeOK, RowsExist, vars
<1>2. row \in Row /\ LockMode(tx[k]) \in Mode
  BY Locked, ModeTyped DEF Takes, Transaction
<1>3. /\ tx' \in [Connection -> Transaction \cup {Idle}]
      /\ held' \in [Connection -> SUBSET (Row \X Mode)]
  <2>1. tx' = [i \in Connection |-> tx'[i]] /\ held' = [i \in Connection |-> held'[i]]
    BY DEF Lock, TxInv, LocksExclude
  <2>2. \A i \in Connection : /\ tx'[i] \in Transaction \cup {Idle}
                              /\ held'[i] \in SUBSET (Row \X Mode)
    BY <1>2, Locked DEF TxInv, LocksExclude, Takes
  <2>3. QED
    BY <2>1, <2>2
<1>4. ASSUME NEW i \in Connection
      PROVE  IF tx'[i] = Idle THEN held'[i] = {} ELSE tx'[i].at <= Len(Program(tx'[i].op))
  BY Locked DEF TxInv, LocksExclude, Takes
<1>5. ASSUME NEW j \in Connection \ {k}, NEW b \in held[j], b[1] = row
      PROVE  ~Conflict(b[2], LockMode(tx[k]))
  BY <1>5 DEF Lock, Blocks
<1>6. ASSUME NEW i \in Connection, NEW j \in Connection, i # j,
             NEW a \in held'[i], NEW b \in held'[j], a[1] = b[1]
      PROVE  ~Conflict(a[2], b[2])
  <2>1. CASE i # k /\ j # k
    BY <1>6, <2>1, Locked DEF TxInv, LocksExclude, Takes
  <2>2. CASE i = k
    <3>1. CASE a \in held[k]
      BY <1>6, <2>2, <3>1, Locked DEF TxInv, LocksExclude, Takes
    <3>2. CASE a = <<row, LockMode(tx[k])>>
      BY <1>5, <1>6, <2>2, <3>2, Locked DEF Conflict, Takes
    <3>3. QED
      BY <2>2, <3>1, <3>2, Locked DEF Takes
  <2>3. CASE j = k
    <3>1. CASE b \in held[k]
      BY <1>6, <2>3, <3>1, Locked DEF TxInv, LocksExclude, Takes
    <3>2. CASE b = <<row, LockMode(tx[k])>>
      BY <1>5, <1>6, <2>3, <3>2, Locked DEF Conflict, Takes
    <3>3. QED
      BY <2>3, <3>1, <3>2, Locked DEF Takes
  <2>4. QED
    BY <2>1, <2>2, <2>3
<1>7. QED
  BY <1>1, <1>3, <1>4, <1>6 DEF TxInv, LocksExclude

LEMMA LockInv ==
  ASSUME TxInv, NEW k \in Connection, NEW row, Lock(k, row), UNCHANGED plan
  PROVE  TxInv'
<1>1. Takes(k, row)
  BY Locked
<1>2. UNCHANGED vars
  BY DEF Lock
<1>3. StatementTable(tx[k]) /\ Sound(k)
  BY <1>1, Statements DEF TxInv, Lock, Takes
<1>4. ASSUME NEW x
      PROVE  /\ Owns(held[k], x) => Owns(held'[k], x)
             /\ x = row /\ LockMode(tx[k]) # "key" => Owns(held'[k], x)
  BY <1>1, ModeTyped DEF Owns, Mode, Takes
<1>5. ASSUME NEW m, NEW x, Secured(tx[k], held[k], m, x), m = tx[k].at /\ x = row => LockMode(tx[k]) # "key"
      PROVE  Secured(tx'[k], held'[k], m, x)
  BY <1>1, <1>4, <1>5 DEF Secured, Takes
<1>6. ASSUME NEW m, NEW x, Covered(tx[k], m, x), m = tx[k].at /\ x = row => x \in Target(tx[k])
      PROVE  Covered(tx'[k], m, x)
  BY <1>1, <1>6 DEF Covered, Takes
<1>7. ASSUME NEW x, x \in tx'[k].hit
      PROVE  x \in tx[k].hit \/ (x = row /\ x \in Target(tx[k]))
  BY <1>1, <1>7 DEF Takes
<1>7a. Statement(tx[k]) \in StatementName
  BY <1>1, <1>3, StatementNamed DEF Takes, Sound
<1>8. WellCalled(tx[k])'
  BY <1>1, <1>2, <1>3 DEF Sound, WellCalled, Takes, vars
<1>9. Checked(tx[k])'
  BY <1>1, <1>2, <1>3 DEF Sound, Checked, Takes, vars, Fit, Open, NoActive, QuotesOf, StaffQuotes,
                          BidsOf
<1>10. RowsSecured(tx[k], held[k])'
  <2> DEFINE t == tx[k]
  <2>1. /\ t.op = tx'[k].op /\ t.r = tx'[k].r /\ t.p = tx'[k].p /\ t.q = tx'[k].q
        /\ t.at = tx'[k].at
    BY <1>1 DEF Takes
  <2>2. RowsSecured(t, held[k]) /\ StatementTable(t)
    BY <1>3 DEF Sound
  <2>3. LockMode(t) # "key" <=> Statement(t) \notin {"event", "award", "bid", "offer", "notify"}
    BY <1>1, ModeTyped DEF Takes
  <2>4. Statement(t) = "leave" => Target(t) = {OpportunityRow(t.r, t.p)}
    BY DEF Target
  <2> HIDE DEF t
  <2>5. ASSUME NEW m \in 1 .. 3, NEW x,
               Secured(t, held[k], m, x), t.at = m => Statement(t) \in
                  {"request", "quote", "provider", "opportunity", "session"}
        PROVE  Secured(tx'[k], held'[k], m, x)
    BY <1>5, <2>3, <2>5 DEF t
  <2>6. t.op \in RequestFirst => Secured(tx'[k], held'[k], 1, RequestRow(t.r))
    BY <2>2, <2>5 DEF RowsSecured, RequestFirst, StatementTable, Operations, Verifying
  <2>7. t.op = "withdraw" => /\ Secured(tx'[k], held'[k], 1, QuoteRow(t.q))
                             /\ t.at >= 2 => Covered(tx'[k], 2, OpportunityRow(t.r, t.p))
    BY <1>6, <2>2, <2>4, <2>5 DEF RowsSecured, StatementTable, t
  <2>8. t.op \in Verifying => Secured(tx'[k], held'[k], 1, ProviderRow(t.p))
    BY <2>2, <2>5 DEF RowsSecured, StatementTable
  <2>9. t.op \in {"approve", "reject"} =>
           /\ t.at >= 2 => Secured(tx'[k], held'[k], 2, QuoteRow(t.q))
           /\ t.at >= 3 => Secured(tx'[k], held'[k], 3, ProviderRow(t.p))
    BY <2>2, <2>5 DEF RowsSecured, StatementTable
  <2>10. /\ t.op = "setOut" /\ t.at >= 2 => Secured(tx'[k], held'[k], 2, ProviderRow(t.p))
         /\ t.op = "submit" /\ t.at >= 2 =>
               Secured(tx'[k], held'[k], 2, OpportunityRow(t.r, t.p))
         /\ t.op = "sample" /\ t.at >= 2 => Secured(tx'[k], held'[k], 2, SessionRow(t.r))
    BY <2>2, <2>5 DEF RowsSecured, StatementTable
  <2>11. QED
    BY <2>1, <2>6, <2>7, <2>8, <2>9, <2>10 DEF RowsSecured
<1>11. MatchesOwned(tx[k], held[k])'
  <2>1. ASSUME NEW x \in tx'[k].hit, x[1] \in {"quote", "opportunity", "session", "position"},
               x \in tx[k].hit => Owns(held[k], x)
        PROVE  Owns(held'[k], x)
    <3>1. CASE x \in tx[k].hit
      BY <1>4, <2>1, <3>1
    <3>2. CASE x = row /\ x \in Target(tx[k])
      <4>1. Statement(tx[k]) \notin {"event", "award", "bid", "offer", "notify"}
        BY <2>1, <3>2, Rows DEF Target
      <4>2. QED
        BY <1>1, <1>4, <3>2, <4>1, ModeTyped DEF Takes
    <3>3. QED
      BY <1>7, <3>1, <3>2
  <2>2. MatchesOwned(tx[k], held[k])
    BY <1>3 DEF Sound
  <2>3. QED
    BY <2>1, <2>2, Rows DEF MatchesOwned
<1>12. AwardExact(tx[k])'
  <2> DEFINE t == tx[k]
  <2>1. /\ t.op = tx'[k].op /\ t.r = tx'[k].r /\ t.q = tx'[k].q
        /\ t.at = tx'[k].at /\ t.told = tx'[k].told
    BY <1>1 DEF Takes
  <2>2. AwardExact(t) /\ StatementTable(t) /\ WellCalled(t)
    BY <1>3 DEF Sound
  <2>3. Open(t.r)' = Open(t.r) /\ \A q : Losing(t, q)' <=> Losing(t, q)
    BY <1>2, <2>1 DEF Open, Losing, vars
  <2>4. ASSUME NEW q \in Quote
        PROVE  /\ Statement(t) = "bids" /\ Losing(t, q) => QuoteRow(q) \in Target(t)
               /\ t.op \in Awarding /\ QuoteRow(q) \in Target(t) => q = t.q \/ Losing(t, q)
    BY <1>7a, Targets
  <2>5. ASSUME NEW x \in Provider
        PROVE  /\ Statement(t) = "opportunities" /\ x \in Open(t.r)
                     => OpportunityRow(t.r, x) \in Target(t)
               /\ t.op \in Awarding /\ OpportunityRow(t.r, x) \in Target(t) => x \in Open(t.r)
    <3>1. t.op \in Awarding => Statement(t) \notin {"opportunity", "leave", "answer"}
      BY <2>2 DEF Awarding, StatementTable
    <3>2. t.op \in Awarding \/ Statement(t) = "opportunities" => t.r \in Request
      BY <1>1, <2>2, StatementNamed DEF WellCalled, Awarding, Takes, Verifying
    <3>3. QED
      BY <1>7a, <3>1, <3>2, Targets
  <2> HIDE DEF t
  <2>6. ASSUME t.op \in Awarding, NEW q \in Quote
        PROVE  /\ t.at >= 4 /\ Losing(t, q) => Covered(tx'[k], 4, QuoteRow(q))
               /\ QuoteRow(q) \in tx'[k].hit => q = t.q \/ Losing(t, q)
    <3>1. t.at = 4 => Statement(t) = "bids"
      BY <2>2, <2>6 DEF Awarding, StatementTable
    <3>2. QED
      BY <1>6, <1>7, <2>2, <2>4, <2>6, <3>1 DEF AwardExact, t
  <2>7. ASSUME t.op \in Awarding, NEW x \in Provider
        PROVE  /\ t.at >= OpportunitiesAt(t) /\ x \in Open(t.r) =>
                     Covered(tx'[k], OpportunitiesAt(t), OpportunityRow(t.r, x))
               /\ OpportunityRow(t.r, x) \in tx'[k].hit => x \in Open(t.r)
    <3>1. t.at = OpportunitiesAt(t) => Statement(t) = "opportunities"
      BY <2>2, <2>7 DEF Awarding, StatementTable, OpportunitiesAt
    <3>2. QED
      BY <1>6, <1>7, <2>2, <2>5, <2>7, <3>1 DEF AwardExact, t
  <2>8. t.op \in Awarding => (t.op = "approve" /\ t.at >= 6 => t.told = Open(t.r))
    BY <2>2 DEF AwardExact
  <2>9. OpportunitiesAt(t)' = OpportunitiesAt(t)
    BY <2>1 DEF OpportunitiesAt, t
  <2>10. QED
    BY <2>1, <2>3, <2>6, <2>7, <2>8, <2>9 DEF AwardExact, t
<1>13. AnswerExact(tx[k])'
  <2> DEFINE t == tx[k]
             o == OpportunityRow(t.r, t.p)
  <2>1. /\ t.op = tx'[k].op /\ t.r = tx'[k].r /\ t.p = tx'[k].p /\ t.at = tx'[k].at
    BY <1>1 DEF Takes
  <2>2. AnswerExact(t) /\ StatementTable(t) /\ WellCalled(t)
    BY <1>3 DEF Sound
  <2>3. t.op \in {"reject", "close"} => t.r \in Request /\ t.p \in Provider
    BY <2>2 DEF WellCalled, OnBid, OnProvider, Verifying
  <2>4. Statement(t) = "answer" /\ t.op \in {"reject", "close"} =>
          (o \in Target(t) <=> IF t.op = "close" THEN t.p \in Open(t.r)
                                                 ELSE opportunity[t.r][t.p] = "quoted")
    BY <1>7a, <2>3, Targets
  <2>5. t.op \in {"reject", "close"} /\ o \in Target(t) => Statement(t) = "answer"
    <3>1. t.op \in {"reject", "close"} => Statement(t) \notin {"opportunities", "opportunity", "leave"}
      BY <2>2 DEF StatementTable
    <3>2. QED
      BY <1>7a, <2>3, <3>1, Targets
  <2>6. t.op = "reject" /\ t.at = 4 => Statement(t) = "answer"
    BY <2>2 DEF StatementTable
  <2>7. /\ opportunity' = opportunity
        /\ Open(t.r)' = Open(t.r)
    BY <1>2, <2>1 DEF Open, vars
  <2>8. Covered(t, 4, o) /\ (t.at = 4 => o \in Target(t)) => Covered(tx'[k], 4, o)
    BY <1>6
  <2>9. o \in tx'[k].hit => o \in t.hit \/ o \in Target(t)
    BY <1>7
  <2> HIDE DEF t
  <2>10. QED
    BY <2>1, <2>2, <2>4, <2>5, <2>6, <2>7, <2>8, <2>9 DEF AnswerExact, t
<1>14. StopsExact(tx[k])'
  <2> DEFINE t == tx[k]
  <2>1. /\ t.op = tx'[k].op /\ t.r = tx'[k].r /\ t.p = tx'[k].p /\ t.at = tx'[k].at
    BY <1>1 DEF Takes
  <2>2. StopsExact(t) /\ StatementTable(t)
    BY <1>3 DEF Sound
  <2>3. /\ position' = position
        /\ \A r : Stops(t, r)' <=> Stops(t, r)
    BY <1>2, <2>1 DEF Stops, vars
  <2>4. ASSUME NEW r \in Request
        PROVE  /\ Statement(t) = "sessions" => (SessionRow(r) \in Target(t) <=> Stops(t, r))
               /\ Statement(t) = "positions" =>
                    (PositionRow(r) \in Target(t) <=> position[r] /\ Stripped(t, r))
               /\ SessionRow(r) \in Target(t) => Statement(t) \in {"session", "sessions"}
               /\ PositionRow(r) \in Target(t) => Statement(t) = "positions"
    BY <1>7a, Targets
  <2>5. /\ t.op \in Stopping => /\ t.at = 2 <=> Statement(t) = "sessions"
                                /\ t.at = 3 <=> Statement(t) = "positions"
                                /\ Statement(t) # "session"
        /\ t.op \notin Stopping \cup {"sample"} =>
             Statement(t) \notin {"session", "sessions", "positions"}
    <3>1. t.op \in Operations
      BY <1>1 DEF Takes, Transaction
    <3>2. QED
      BY <2>2, <3>1 DEF StatementTable, Stopping, Verifying, Operations
  <2>6. ASSUME NEW r \in Request
        PROVE  /\ Covered(t, 2, SessionRow(r)) /\ (t.at = 2 => SessionRow(r) \in Target(t))
                     => Covered(tx'[k], 2, SessionRow(r))
               /\ Covered(t, 3, PositionRow(r)) /\ (t.at = 3 => PositionRow(r) \in Target(t))
                     => Covered(tx'[k], 3, PositionRow(r))
               /\ SessionRow(r) \in tx'[k].hit
                     => SessionRow(r) \in t.hit \/ SessionRow(r) \in Target(t)
               /\ PositionRow(r) \in tx'[k].hit
                     => PositionRow(r) \in t.hit \/ PositionRow(r) \in Target(t)
               /\ SessionRow(r) \in t.hit => SessionRow(r) \in tx'[k].hit
    BY <1>1, <1>6, <1>7 DEF Takes
  <2>7. ASSUME NEW r \in Request
        PROVE  t.op \in Stopping /\ t.at = 3 => (Stripped(tx'[k], r) <=> Stripped(t, r))
    BY <2>1, <2>4, <2>5, <2>6 DEF Stripped
  <2>8. ASSUME NEW r \in Request
        PROVE  Stripped(t, r) => Stripped(tx'[k], r)
    BY <2>1, <2>6 DEF Stripped
  <2> HIDE DEF t
  <2>9. ASSUME t.op \in Stopping, NEW r \in Request
        PROVE  /\ t.at >= 2 /\ Stops(t, r) => Covered(tx'[k], 2, SessionRow(r))
               /\ SessionRow(r) \in tx'[k].hit => Stops(t, r)
               /\ t.at >= 3 /\ position[r] /\ Stripped(tx'[k], r)
                     => Covered(tx'[k], 3, PositionRow(r))
               /\ PositionRow(r) \in tx'[k].hit => Stripped(tx'[k], r)
    <3>1. /\ t.at >= 2 /\ Stops(t, r) => Covered(tx'[k], 2, SessionRow(r))
          /\ SessionRow(r) \in tx'[k].hit => Stops(t, r)
      BY <2>2, <2>4, <2>5, <2>6, <2>9 DEF StopsExact
    <3>2. PositionRow(r) \in tx'[k].hit => Stripped(tx'[k], r)
      BY <2>2, <2>4, <2>5, <2>6, <2>8, <2>9 DEF StopsExact
    <3>3. ASSUME t.at >= 3, position[r], Stripped(tx'[k], r)
          PROVE  Covered(tx'[k], 3, PositionRow(r))
      <4>1. t.at = 3
        BY <2>2, <2>9, <3>3 DEF StatementTable, Stopping, Verifying
      <4>2. QED
        BY <2>2, <2>4, <2>5, <2>6, <2>7, <2>9, <3>3, <4>1 DEF StopsExact
    <3>4. QED
      BY <3>1, <3>2, <3>3
  <2>10. ASSUME t.op \notin Stopping \cup {"sample"}, NEW r \in Request
         PROVE  SessionRow(r) \notin tx'[k].hit /\ PositionRow(r) \notin tx'[k].hit
    BY <2>2, <2>4, <2>5, <2>6, <2>10 DEF StopsExact
  <2>11. QED
    BY <2>1, <2>3, <2>9, <2>10 DEF StopsExact, t
<1>15. QED
  BY <1>1, <1>2, <1>8, <1>9, <1>10, <1>11, <1>12, <1>13, <1>14, LockTyped, OneMoves DEF Sound, Takes

-----------------------------------------------------------------------------
(* A transaction goes on to its next statement.                            *)

(* What going on does: u stands at the next statement.                     *)
Moves(k, u) ==
  /\ tx[k] \in Transaction /\ tx[k].at < Len(Program(tx[k].op)) /\ tx[k].todo = {}
  /\ Admits(tx[k])
  /\ u \in Transaction /\ u.at = tx[k].at + 1 /\ u.at <= Len(Program(u.op))
  /\ u.op = tx[k].op /\ u.r = tx[k].r /\ u.p = tx[k].p /\ u.q = tx[k].q
  /\ u.hit = tx[k].hit /\ u.told = Read(tx[k])
  /\ tx'[k] \in Transaction /\ tx'[k].at = u.at /\ tx'[k].todo = Target(u)
  /\ tx'[k].op = u.op /\ tx'[k].r = u.r /\ tx'[k].p = u.p /\ tx'[k].q = u.q
  /\ tx'[k].hit = u.hit /\ tx'[k].told = u.told
  /\ held' = held /\ UNCHANGED vars
  /\ \A i \in Connection \ {k} : tx'[i] = tx[i]

LEMMA ProgramLength ==
  ASSUME NEW op \in Operations
  PROVE  Len(Program(op)) \in 1 .. 7
<1> USE DEF Program, AssignProgram, ApproveProgram, SampleProgram, SetOutProgram
<1>1. CASE op \in {"assign", "approve", "reject", "submit"}
  BY <1>1
<1>2. CASE op \in {"withdraw", "close", "invite", "work", "sample"}
  BY <1>2
<1>3. CASE op = "setOut"
  BY <1>3
<1>4. CASE op \in {"suspend", "reactivate", "complete", "cancel", "stop"}
  BY <1>4
<1>5. QED
  BY <1>1, <1>2, <1>3, <1>4 DEF Operations

LEMMA NextPlace ==
  ASSUME NEW a \in 1 .. 7, NEW length \in 1 .. 7, a < length
  PROVE  a + 1 \in 1 .. 7 /\ a + 1 <= length
OBVIOUS

LEMMA Moved ==
  ASSUME TxInv, NEW k \in Connection, Proceed(k)
  PROVE  \E u : Moves(k, u)
<1> DEFINE t == [tx[k] EXCEPT !.told = Read(tx[k])]
           n == tx[k].at + 1
<1>1. /\ tx[k] \in Transaction /\ tx[k].at < Len(Program(tx[k].op)) /\ tx[k].todo = {}
      /\ tx[k].at \in 1 .. 7
  BY DEF Proceed, Ready, TxInv, LocksExclude, Transaction
<1>2. Read(tx[k]) \in SUBSET Provider
  BY <1>1 DEF Read, Open, Transaction
<1>3. /\ t \in Transaction /\ t.op = tx[k].op /\ t.r = tx[k].r /\ t.p = tx[k].p
      /\ t.q = tx[k].q /\ t.hit = tx[k].hit /\ t.told = Read(tx[k])
  BY <1>1, <1>2 DEF Transaction
<1>4. tx' = [tx EXCEPT ![k] = At(t, n)]
  BY DEF Proceed
<1> HIDE DEF t
<1>5. StatementTable(tx[k]) /\ WellCalled(tx[k])
  BY <1>1, Statements DEF TxInv, Proceed, Ready, Sound
<1>6. n \in 1 .. 7 /\ n <= Len(Program(t.op))
  <2>1. t.op \in Operations
    BY <1>3 DEF Transaction
  <2>2. Len(Program(t.op)) \in 1 .. 7
    BY <2>1, ProgramLength
  <2>3. tx[k].at < Len(Program(t.op))
    BY <1>1, <1>3
  <2>4. QED
    BY <1>1, <2>2, <2>3, NextPlace
<1>7. WellCalled(t)
  BY <1>3, <1>5 DEF WellCalled
<1>8. PICK u \in Transaction :
        /\ u.at = n /\ u.op = t.op /\ u.r = t.r /\ u.p = t.p /\ u.q = t.q
        /\ u.hit = t.hit /\ u.told = t.told
        /\ LET s == At(t, n)
           IN  /\ s \in Transaction /\ s.at = n /\ s.todo = Target(u)
               /\ s.op = t.op /\ s.r = t.r /\ s.p = t.p /\ s.q = t.q
               /\ s.hit = t.hit /\ s.told = t.told
  BY <1>3, <1>6, <1>7, AtStatement
<1>9. /\ tx'[k] = At(t, n) /\ held' = held /\ UNCHANGED vars /\ Admits(tx[k])
      /\ \A i \in Connection \ {k} : tx'[i] = tx[i]
  BY <1>4 DEF Proceed, TxInv, LocksExclude
<1>10. Moves(k, u)
  BY <1>1, <1>3, <1>6, <1>8, <1>9 DEF Moves
<1>11. QED
  BY <1>10

LEMMA ProceedInv ==
  ASSUME TxInv, NEW k \in Connection, Proceed(k), UNCHANGED plan
  PROVE  TxInv'
<1>1. PICK u : Moves(k, u)
  BY Moved
<1> DEFINE t == tx[k]
           n == tx'[k]
<1>2. /\ t.op = u.op /\ t.r = u.r /\ t.p = u.p /\ t.q = u.q /\ t.hit = u.hit /\ u.told = Read(t)
      /\ n.op = u.op /\ n.r = u.r /\ n.p = u.p /\ n.q = u.q /\ n.hit = u.hit /\ n.told = u.told
      /\ n.at = u.at /\ n.todo = Target(u) /\ t.todo = {} /\ u.at = t.at + 1
      /\ t.at \in 1 .. 7 /\ u.at \in 1 .. 7 /\ u.op \in Operations
      /\ Admits(t) /\ held' = held
  BY <1>1 DEF Moves, Transaction
<1>3. StatementTable(t) /\ StatementTable(u) /\ Sound(k) /\ UNCHANGED vars
  <2>1. StatementTable(t) /\ StatementTable(u)
    BY <1>1, <1>2, Statements DEF Moves
  <2>2. Sound(k) /\ UNCHANGED vars
    BY <1>1 DEF TxInv, Proceed, Ready, Moves
  <2>3. QED
    BY <2>1, <2>2
<1>4. LocksExclude'
  <2>1. TypeOK'
    BY <1>3 DEF TxInv, LocksExclude, TypeOK, RowsExist, vars
  <2>2. tx' \in [Connection -> Transaction \cup {Idle}]
    <3>1. tx' = [i \in Connection |-> tx'[i]]
      BY DEF Proceed, TxInv, LocksExclude
    <3>2. \A i \in Connection : tx'[i] \in Transaction \cup {Idle}
      BY <1>1 DEF TxInv, LocksExclude, Moves
    <3>3. QED
      BY <3>1, <3>2
  <2>3. ASSUME NEW i \in Connection
        PROVE  IF tx'[i] = Idle THEN held'[i] = {} ELSE tx'[i].at <= Len(Program(tx'[i].op))
    BY <1>1 DEF TxInv, LocksExclude, Moves
  <2>4. QED
    BY <1>2, <2>1, <2>2, <2>3 DEF TxInv, LocksExclude
<1>5. WellCalled(u) /\ WellCalled(tx[k])' /\ Statement(u) \in StatementName
  <2>1. WellCalled(u)
    BY <1>2, <1>3 DEF WellCalled, Sound
  <2>2. WellCalled(tx[k])'
    BY <1>2, <1>3 DEF WellCalled, Sound, vars
  <2>3. QED
    BY <1>1, <2>1, <2>2, StatementNamed DEF Moves
<1>6. MatchesOwned(tx[k], held[k])'
  BY <1>2, <1>3 DEF MatchesOwned, Sound
<1>7. RowsSecured(tx[k], held[k])'
  <2>1. RowsSecured(t, held[k])
    BY <1>3 DEF Sound
  <2>2. ASSUME NEW m, NEW x, Secured(t, held[k], m, x)
        PROVE  Secured(n, held'[k], m, x)
    BY <1>2, <2>2 DEF Secured
  <2>3. /\ Statement(u) = "quote" => QuoteRow(u.q) \in Target(u)
        /\ Statement(u) = "provider" => ProviderRow(u.p) \in Target(u)
        /\ Statement(u) \in {"opportunity", "leave"} => OpportunityRow(u.r, u.p) \in Target(u)
        /\ Statement(u) = "session" => SessionRow(u.r) \in Target(u)
    BY DEF Target
  <2>4. ASSUME NEW m, NEW x, u.at = m, x \in Target(u)
        PROVE  Secured(n, held'[k], m, x) /\ Covered(n, m, x)
    BY <1>2, <2>4 DEF Secured, Covered
  <2>5. ASSUME NEW m, NEW x, Covered(t, m, x)
        PROVE  Covered(n, m, x)
    BY <1>2, <2>5 DEF Covered
  <2> HIDE DEF t, n
  <2>6. u.op \in RequestFirst => Secured(n, held'[k], 1, RequestRow(u.r))
    BY <1>2, <2>1, <2>2 DEF RowsSecured
  <2>7. u.op = "withdraw" => /\ Secured(n, held'[k], 1, QuoteRow(u.q))
                             /\ u.at >= 2 => Covered(n, 2, OpportunityRow(u.r, u.p))
    BY <1>2, <1>3, <2>1, <2>2, <2>3, <2>4, <2>5 DEF RowsSecured, StatementTable
  <2>8. u.op \in Verifying => Secured(n, held'[k], 1, ProviderRow(u.p))
    BY <1>2, <2>1, <2>2 DEF RowsSecured
  <2>9. u.op \in {"approve", "reject"} =>
           /\ u.at >= 2 => Secured(n, held'[k], 2, QuoteRow(u.q))
           /\ u.at >= 3 => Secured(n, held'[k], 3, ProviderRow(u.p))
    BY <1>2, <1>3, <2>1, <2>2, <2>3, <2>4 DEF RowsSecured, StatementTable
  <2>10. /\ u.op = "setOut" /\ u.at >= 2 => Secured(n, held'[k], 2, ProviderRow(u.p))
         /\ u.op = "submit" /\ u.at >= 2 => Secured(n, held'[k], 2, OpportunityRow(u.r, u.p))
         /\ u.op = "sample" /\ u.at >= 2 => Secured(n, held'[k], 2, SessionRow(u.r))
    BY <1>2, <1>3, <2>1, <2>2, <2>3, <2>4 DEF RowsSecured, StatementTable
  <2>11. RowsSecured(n, held'[k])
    BY <1>2, <2>6, <2>7, <2>8, <2>9, <2>10 DEF RowsSecured
  <2>12. QED
    BY <2>11 DEF n
<1>8. Checked(tx[k])'
  <2>1. Checked(t)
    BY <1>3 DEF Sound
  <2>2. /\ Fit(u.p)' = Fit(u.p) /\ Open(u.r)' = Open(u.r)
        /\ NoActive(StaffQuotes(u.r))' = NoActive(StaffQuotes(u.r))
        /\ NoActive(BidsOf(u.r, u.p))' = NoActive(BidsOf(u.r, u.p))
        /\ NoActive(QuotesOf(u.r))' = NoActive(QuotesOf(u.r))
        /\ status' = status /\ quoteStatus' = quoteStatus /\ assigned' = assigned
        /\ verification' = verification /\ session' = session /\ opportunity' = opportunity
    BY <1>3 DEF vars, Fit, Open, NoActive, StaffQuotes, QuotesOf, BidsOf
  <2> HIDE DEF t, n
  <2>3. ASSUME u.op = "assign"
        PROVE  /\ u.at >= 2 => status[u.r] = "pending_dispatch"
               /\ u.at >= 3 => u.p \in Suitable[u.r]
    BY <1>2, <1>3, <2>1, <2>3 DEF Checked, StatementTable, Admits, RequestAdmits, Assignable, Eligible
  <2>4. ASSUME u.op \in {"approve", "reject", "withdraw"}
        PROVE  /\ u.at >= 3 \/ (u.op = "withdraw" /\ u.at >= 2) => quoteStatus[u.q] = "proposed"
               /\ u.op = "approve" /\ u.at >= 3 => status[u.r] = "pending_dispatch"
               /\ u.op # "withdraw" /\ u.at >= 4 => Fit(u.p)
    BY <1>2, <1>3, <2>1, <2>4 DEF Checked, StatementTable, Admits
  <2>5. ASSUME u.op = "submit"
        PROVE  /\ u.at >= 2 => status[u.r] = "pending_dispatch"
               /\ u.at >= 3 => u.p \in Open(u.r)
               /\ u.at >= 4 => NoActive(StaffQuotes(u.r)) /\ NoActive(BidsOf(u.r, u.p))
    BY <1>2, <1>3, <2>1, <2>5 DEF Checked, StatementTable, Admits, RequestAdmits
  <2>6. ASSUME u.op = "invite"
        PROVE  /\ u.at >= 2 => status[u.r] \notin {"completed", "cancelled"}
               /\ u.at >= 3 => /\ NoActive(QuotesOf(u.r))
                               /\ u.told \subseteq Suitable[u.r]
                               /\ \A p \in u.told : opportunity[u.r][p] = "none"
    <3>1. u.at \in 1 .. 3 /\ Statement(t) = IF u.at = 2 THEN "request" ELSE "choose"
      BY <1>2, <1>3, <2>6 DEF StatementTable
    <3>2. CASE u.at = 2
      BY <1>2, <2>6, <3>1, <3>2 DEF Admits, RequestAdmits
    <3>3. CASE u.at = 3
      <4>1. Statement(t) = "choose" /\ t.at >= 2
        BY <1>2, <3>1, <3>3
      <4>2. NoActive(QuotesOf(u.r)) /\ status[u.r] \notin {"completed", "cancelled"}
        BY <1>2, <2>1, <2>6, <4>1 DEF Admits, Checked
      <4>3. u.told = {p \in t.told \cap Eligible(t.r) : opportunity[t.r][p] = "none"}
        BY <1>2, <4>1 DEF Read
      <4>4. QED
        BY <1>2, <4>2, <4>3 DEF Eligible
    <3>4. QED
      BY <1>2, <3>1, <3>2, <3>3
  <2>7. ASSUME u.op \in Verifying
        PROVE  u.at >= 2 => verification[u.p] = IF u.op = "suspend" THEN "verified" ELSE "suspended"
    BY <1>2, <1>3, <2>1, <2>7 DEF Checked, StatementTable, Admits, Verifying
  <2>8. ASSUME u.op = "setOut"
        PROVE  /\ u.at >= 2 => status[u.r] = "assigned" /\ assigned[u.r] = u.p
               /\ u.at >= 3 => Fit(u.p)
    BY <1>2, <1>3, <2>1, <2>8 DEF Checked, StatementTable, Admits, RequestAdmits
  <2>9. ASSUME u.op \in {"complete", "cancel"}
        PROVE  u.at >= 2 => IF u.op = "complete" THEN status[u.r] = "in_progress"
                                                 ELSE status[u.r] \in AllowedPrevious("cancelled")
    BY <1>2, <1>3, <2>1, <2>9 DEF Checked, StatementTable, Admits, RequestAdmits
  <2>10. ASSUME u.op = "sample"
         PROVE  /\ u.at >= 2 => status[u.r] \in Tracked /\ assigned[u.r] = u.p
                /\ u.at >= 3 => session[u.r] = "active"
    <3>1. u.at \in 2 .. 3 /\ Statement(t) = IF u.at = 2 THEN "request" ELSE "session"
      BY <1>2, <1>3, <2>10 DEF StatementTable
    <3>2. Statement(t) = "request" => status[t.r] \in Tracked /\ assigned[t.r] = t.p
      BY <1>2, <2>10 DEF Admits, RequestAdmits
    <3>3. Statement(t) = "session" => session[t.r] = "active"
      BY <1>2 DEF Admits
    <3>4. t.at >= 2 => status[t.r] \in Tracked /\ assigned[t.r] = t.p
      BY <1>2, <2>1, <2>10 DEF Checked
    <3>5. QED
      BY <1>2, <3>1, <3>2, <3>3, <3>4
  <2>11. Checked(u)
    <3>1. /\ u.op = "assign" => /\ u.at >= 2 => status[u.r] = "pending_dispatch"
                                /\ u.at >= 3 => u.p \in Suitable[u.r]
          /\ u.op = "submit" => /\ u.at >= 2 => status[u.r] = "pending_dispatch"
                                /\ u.at >= 3 => u.p \in Open(u.r)
                                /\ u.at >= 4 => NoActive(StaffQuotes(u.r)) /\ NoActive(BidsOf(u.r, u.p))
      BY <2>3, <2>5
    <3>2. /\ u.op = "withdraw" /\ u.at >= 2 => quoteStatus[u.q] = "proposed"
          /\ u.op \in {"approve", "reject"} /\ u.at >= 3 => quoteStatus[u.q] = "proposed"
          /\ u.op = "approve" /\ u.at >= 3 => status[u.r] = "pending_dispatch"
          /\ u.op \in {"approve", "reject"} /\ u.at >= 4 => Fit(u.p)
      BY <2>4
    <3>3. /\ u.op = "suspend" /\ u.at >= 2 => verification[u.p] = "verified"
          /\ u.op = "reactivate" /\ u.at >= 2 => verification[u.p] = "suspended"
      BY <2>7 DEF Verifying
    <3>4. /\ u.op = "complete" /\ u.at >= 2 => status[u.r] = "in_progress"
          /\ u.op = "cancel" /\ u.at >= 2 => status[u.r] \in AllowedPrevious("cancelled")
      BY <2>9
    <3>5. /\ u.op = "setOut" => /\ u.at >= 2 => status[u.r] = "assigned" /\ assigned[u.r] = u.p
                                /\ u.at >= 3 => Fit(u.p)
          /\ u.op = "sample" => /\ u.at >= 2 => status[u.r] \in Tracked /\ assigned[u.r] = u.p
                                /\ u.at >= 3 => session[u.r] = "active"
      BY <2>8, <2>10
    <3>6. u.op = "invite" => /\ u.at >= 2 => status[u.r] \notin {"completed", "cancelled"}
                             /\ u.at >= 3 => /\ NoActive(QuotesOf(u.r))
                                             /\ u.told \subseteq Suitable[u.r]
                                             /\ \A p \in u.told : opportunity[u.r][p] = "none"
      BY <2>6
    <3>7. QED
      BY <3>1, <3>2, <3>3, <3>4, <3>5, <3>6 DEF Checked
  <2>12. QED
    BY <1>2, <2>2, <2>11 DEF Checked, t, n
<1>9. AwardExact(tx[k])'
  <2>1. /\ AwardExact(t)
        /\ Open(u.r)' = Open(u.r) /\ Open(t.r)' = Open(u.r)
        /\ \A q : Losing(t, q)' <=> Losing(u, q)
    <3>1. AwardExact(t)
      BY <1>3 DEF Sound
    <3>2. Open(u.r)' = Open(u.r) /\ Open(t.r)' = Open(u.r)
      BY <1>2, <1>3 DEF Open, vars
    <3>3. \A q : Losing(t, q)' <=> Losing(u, q)
      BY <1>2, <1>3 DEF Losing, vars
    <3>4. QED
      BY <3>1, <3>2, <3>3
  <2>2. u.op \in Awarding => u.r \in Request
    BY <1>5 DEF WellCalled, Awarding, Verifying
  <2> HIDE DEF t, n
  <2>3. ASSUME u.op \in Awarding, NEW q \in Quote
        PROVE  /\ u.at >= 4 /\ Losing(u, q) => Covered(n, 4, QuoteRow(q))
               /\ QuoteRow(q) \in u.hit => q = u.q \/ Losing(u, q)
    <3>1. Losing(t, q) <=> Losing(u, q)
      BY <1>2 DEF Losing
    <3>2. u.at = 4 /\ Losing(u, q) => QuoteRow(q) \in Target(u)
      BY <1>3, <1>5, <2>3, Targets DEF StatementTable, Awarding
    <3>3. QED
      BY <1>2, <2>1, <2>3, <3>1, <3>2 DEF AwardExact, Covered
  <2>4. ASSUME u.op \in Awarding, NEW x \in Provider
        PROVE  /\ u.at >= OpportunitiesAt(u) /\ x \in Open(u.r) =>
                    Covered(n, OpportunitiesAt(u), OpportunityRow(u.r, x))
               /\ OpportunityRow(u.r, x) \in u.hit => x \in Open(u.r)
    <3>1. OpportunitiesAt(t) = OpportunitiesAt(u) /\ OpportunitiesAt(u) \in 5 .. 6
      BY <1>2 DEF OpportunitiesAt
    <3>2. u.at = OpportunitiesAt(u) /\ x \in Open(u.r) => OpportunityRow(u.r, x) \in Target(u)
      BY <1>3, <1>5, <2>2, <2>4, Targets DEF StatementTable, Awarding, OpportunitiesAt
    <3>3. QED
      BY <1>2, <2>1, <2>4, <3>1, <3>2 DEF AwardExact, Covered
  <2>5. u.op = "approve" /\ u.at >= 6 => u.told = Open(u.r)
    <3>1. ASSUME u.op = "approve", u.at = 6
          PROVE  u.told = Open(u.r)
      <4>1. Statement(t) = "losers"
        BY <1>2, <1>3, <3>1 DEF StatementTable
      <4>2. QED
        BY <1>2, <4>1 DEF Read
    <3>2. ASSUME u.op = "approve", u.at = 7
          PROVE  u.told = Open(u.r)
      <4>1. Statement(t) = "opportunities" /\ t.at >= 6
        BY <1>2, <1>3, <3>2 DEF StatementTable
      <4>2. t.told = Open(u.r)
        BY <1>2, <2>1, <3>2, <4>1 DEF AwardExact, Awarding
      <4>3. QED
        BY <1>2, <4>1, <4>2 DEF Read
    <3>3. QED
      BY <1>2, <3>1, <3>2
  <2>6. OpportunitiesAt(t)' = OpportunitiesAt(u)
    BY <1>2 DEF OpportunitiesAt, t, n
  <2>7. QED
    BY <1>2, <2>1, <2>3, <2>4, <2>5, <2>6 DEF AwardExact, t, n
<1>10. AnswerExact(tx[k])'
  <2> DEFINE o == OpportunityRow(u.r, u.p)
  <2>1. AnswerExact(t) /\ opportunity' = opportunity /\ Open(t.r)' = Open(u.r)
    BY <1>2, <1>3 DEF Sound, Open, vars
  <2>2. u.op \in {"reject", "close"} => u.r \in Request /\ u.p \in Provider
    BY <1>5 DEF WellCalled, OnBid, OnProvider, Verifying
  <2>3. u.op = "reject" /\ u.at = 4 /\ opportunity[u.r][u.p] = "quoted" => o \in Target(u)
    BY <1>3, <1>5, <2>2, Targets DEF StatementTable
  <2>4. Covered(t, 4, o) => Covered(n, 4, o)
    BY <1>2 DEF Covered
  <2>5. u.at = 4 /\ o \in Target(u) => Covered(n, 4, o)
    BY <1>2 DEF Covered
  <2> HIDE DEF t, n
  <2>6. u.op = "reject" /\ u.at >= 4 /\ opportunity[u.r][u.p] = "quoted" => Covered(n, 4, o)
    <3>1. u.op = "reject" => u.at \in 1 .. 4
      BY <1>3 DEF StatementTable
    <3>2. QED
      BY <2>3, <2>5, <3>1
  <2>7. QED
    BY <1>2, <2>1, <2>6 DEF AnswerExact, t, n
<1>11. StopsExact(tx[k])'
  <2>1. StopsExact(t) /\ position' = position /\ \A r : Stops(t, r)' <=> Stops(u, r)
    <3>1. StopsExact(t) /\ position' = position
      BY <1>3 DEF Sound, vars
    <3>2. \A r : Stops(t, r)' <=> Stops(u, r)
      BY <1>2, <1>3 DEF Stops, vars
    <3>3. QED
      BY <3>1, <3>2
  <2>2. \A r : /\ (Stops(t, r) <=> Stops(u, r))
               /\ (Stripped(t, r) <=> Stripped(u, r))
               /\ (Stripped(n, r) <=> Stripped(u, r))
    BY <1>2 DEF Stops, Stripped
  <2> HIDE DEF t, n
  <2>3. ASSUME u.op \in Stopping
        PROVE  /\ u.at = 2 => Statement(u) = "sessions"
               /\ u.at = 3 => Statement(u) = "positions"
               /\ u.at \in 1 .. 3
    BY <1>3, <2>3 DEF StatementTable, Stopping, Verifying
  <2>4. ASSUME u.op \in Stopping, NEW r \in Request
        PROVE  /\ u.at >= 2 /\ Stops(u, r) => Covered(n, 2, SessionRow(r))
               /\ SessionRow(r) \in u.hit => Stops(u, r)
               /\ u.at >= 3 /\ position[r] /\ Stripped(u, r) => Covered(n, 3, PositionRow(r))
               /\ PositionRow(r) \in u.hit => Stripped(u, r)
    <3>1. u.at = 2 /\ Stops(u, r) => SessionRow(r) \in Target(u)
      BY <1>5, <2>3, <2>4, Targets
    <3>2. u.at = 3 /\ position[r] /\ Stripped(u, r) => PositionRow(r) \in Target(u)
      BY <1>5, <2>3, <2>4, Targets
    <3>3. u.at = 3 /\ Stops(u, r) => SessionRow(r) \in u.hit
      BY <1>2, <2>1, <2>2, <2>4 DEF StopsExact, Covered
    <3>4. SessionRow(r) \in u.hit => Stops(u, r)
      BY <1>2, <2>1, <2>2, <2>4 DEF StopsExact
    <3>5. PositionRow(r) \in u.hit => Stripped(u, r)
      BY <1>2, <2>1, <2>2, <2>4 DEF StopsExact
    <3>6. QED
      BY <1>2, <2>3, <2>4, <3>1, <3>2, <3>3, <3>4, <3>5 DEF Covered
  <2>5. ASSUME u.op \notin Stopping \cup {"sample"}, NEW r \in Request
        PROVE  SessionRow(r) \notin u.hit /\ PositionRow(r) \notin u.hit
    BY <1>2, <2>1, <2>5 DEF StopsExact
  <2>6. QED
    BY <1>2, <2>1, <2>2, <2>4, <2>5 DEF StopsExact, t, n
<1>12. QED
  BY <1>1, <1>3, <1>4, <1>5, <1>6, <1>7, <1>8, <1>9, <1>10, <1>11, OneMoves DEF Sound, Moves

-----------------------------------------------------------------------------
(* A commit changes what its transaction owns.                             *)

(* Of the requests' status and assignment, the quotes, the opportunities,  *)
(* the providers, the sessions and the positions.  An opportunity is       *)
(* changed by who owns the request, or by who withdraws the bid on it; a   *)
(* session by who owns the request, or by a suspension.                    *)
Guarantee(h) ==
  /\ \A r \in Request :
       status'[r] # status[r] \/ assigned'[r] # assigned[r] => Owns(h, RequestRow(r))
  /\ \A q \in Quote :
       /\ quoteStatus[q] # "none" /\ quoteStatus'[q] # quoteStatus[q] => Owns(h, QuoteRow(q))
       /\ quoteStatus[q] = "none" /\ quoteStatus'[q] # "none" =>
            \E r \in Request : quoteRequest'[q] = r /\ Owns(h, RequestRow(r))
  /\ \A r \in Request, p \in Provider : opportunity'[r][p] # opportunity[r][p] =>
       /\ opportunity[r][p] \in OpenOpportunity => Owns(h, OpportunityRow(r, p))
       /\ \/ Owns(h, RequestRow(r))
          \/ /\ Owns(h, OpportunityRow(r, p))
             /\ opportunity'[r][p] = "withdrawn"
             /\ \E q \in BidsOf(r, p) : quoteStatus[q] = "proposed" /\ Owns(h, QuoteRow(q))
  /\ \A p \in Provider : verification'[p] # verification[p] \/ available'[p] # available[p] =>
       Owns(h, ProviderRow(p))
  /\ \A r \in Request : session'[r] # session[r] =>
       \/ /\ Owns(h, SessionRow(r)) /\ session'[r] # "active"
          /\ \/ Owns(h, RequestRow(r))
             \/ session[r] = "active" /\ session'[r] = "provider_suspended"
       \/ /\ session[r] = "none" /\ session'[r] = "active"
          /\ Owns(h, RequestRow(r))
          /\ assigned[r] \in Provider /\ Owns(h, ProviderRow(assigned[r]))
  /\ \A r \in Request : position'[r] /\ ~position[r] =>
       Owns(h, RequestRow(r)) /\ Owns(h, SessionRow(r))

(* So what another transaction found out stays true.                       *)
LEMMA SoundSurvives ==
  ASSUME TxInv, NEW k \in Connection, NEW i \in Connection \ {k}, tx[i] # Idle,
         tx'[i] = tx[i], held'[i] = held[i], Guarantee(held[k]), HistoryStep, IInv'
  PROVE  Sound(i)'
<1> DEFINE t == tx[i]
           h == held[k]
<1>1. Sound(i) /\ StatementTable(t) /\ t \in Transaction /\ t.at \in 1 .. 7
  BY Statements DEF TxInv, LocksExclude, Transaction
<1>2. \A row : Owns(held[i], row) => ~Owns(h, row)
  BY OneOwner DEF TxInv
<1>3. WellCalled(tx[i])' /\ WellCalled(t)
  <2>1. WellCalled(t)
    BY <1>1 DEF Sound
  <2>2. t.op \in OnBid => t.q \in Quote /\ quoteRequest[t.q] \in Request
    BY <2>1 DEF WellCalled, OnBid, Verifying
  <2>3. t.op \in OnBid => quoteStatus[t.q] # "none"
    <3>1. \A q \in Quote : quoteStatus[q] = "none" => quoteRequest[q] = NoRequest
      BY DEF TxInv, LocksExclude, TypeOK, RowsExist
    <3>2. QED
      BY <2>2, <3>1, NullAssumption
  <2>4. t.op \in OnBid => quoteRequest'[t.q] = quoteRequest[t.q] /\ quoteBidder'[t.q] = quoteBidder[t.q]
    BY <2>2, <2>3 DEF HistoryStep
  <2>5. QED
    BY <2>1, <2>4 DEF WellCalled
<1>4. RowsSecured(tx[i], held[i])' /\ MatchesOwned(tx[i], held[i])'
  BY <1>1 DEF Sound, RowsSecured, MatchesOwned, Secured, Covered
<1>5. /\ t.op \in RequestFirst => t.r \in Request
      /\ t.op \in RequestFirst /\ t.at >= 2 => ~Owns(h, RequestRow(t.r))
      /\ t.op \in RequestFirst /\ t.at >= 2 =>
           status'[t.r] = status[t.r] /\ assigned'[t.r] = assigned[t.r]
  <2>1. t.op \in RequestFirst => t.r \in Request
    BY <1>3 DEF WellCalled, RequestFirst
  <2>2. t.op \in RequestFirst /\ t.at >= 2 => Owns(held[i], RequestRow(t.r))
    BY <1>1 DEF Sound, RowsSecured, Secured
  <2>3. QED
    BY <1>2, <2>1, <2>2 DEF Guarantee
<1>6. /\ t.op \in OnBid => t.q \in Quote
      /\ t.op = "withdraw" /\ t.at >= 2 => Owns(held[i], QuoteRow(t.q))
      /\ t.op \in {"approve", "reject"} /\ t.at >= 3 => Owns(held[i], QuoteRow(t.q))
      /\ (t.op = "withdraw" /\ t.at >= 2) \/ (t.op \in {"approve", "reject"} /\ t.at >= 3) =>
           (quoteStatus[t.q] = "proposed" => quoteStatus'[t.q] = "proposed")
  <2>1. t.op \in OnBid => t.q \in Quote
    BY <1>3 DEF WellCalled, OnBid
  <2>2. /\ t.op = "withdraw" /\ t.at >= 2 => Owns(held[i], QuoteRow(t.q))
        /\ t.op \in {"approve", "reject"} /\ t.at >= 3 => Owns(held[i], QuoteRow(t.q))
    <3>1. RowsSecured(t, held[i])
      BY <1>1 DEF Sound
    <3>2. QED
      BY <1>1, <3>1 DEF RowsSecured, Secured
  <2>3. \A q \in Quote : Owns(held[i], QuoteRow(q)) /\ quoteStatus[q] = "proposed"
                           => quoteStatus'[q] = "proposed"
    BY <1>2 DEF Guarantee
  <2>4. QED
    BY <2>1, <2>2, <2>3 DEF OnBid
<1>7. \A p \in Provider : Owns(held[i], ProviderRow(p)) =>
        /\ verification'[p] = verification[p] /\ available'[p] = available[p]
        /\ Fit(p)' = Fit(p)
  BY <1>2 DEF Guarantee, Fit
<1>8. ASSUME NEW r \in Request, ~Owns(h, RequestRow(r)), NEW quotes, NEW new,
             \/ quotes = StaffQuotes(r) /\ new = StaffQuotes(r)'
             \/ quotes = QuotesOf(r) /\ new = QuotesOf(r)'
             \/ \E p : quotes = BidsOf(r, p) /\ new = BidsOf(r, p)',
             NoActive(quotes)
      PROVE  \A q \in new : quoteStatus'[q] \notin ActiveQuote
  <2>1. SUFFICES ASSUME NEW q \in new, quoteStatus'[q] \in ActiveQuote
                 PROVE  FALSE
    OBVIOUS
  <2>2. q \in Quote /\ quoteRequest'[q] = r
    BY <1>8 DEF StaffQuotes, QuotesOf, BidsOf
  <2>3. quoteStatus[q] # "none"
    BY <1>8, <2>1, <2>2 DEF Guarantee, ActiveQuote
  <2>4. /\ quoteRequest[q] = quoteRequest'[q] /\ quoteBidder[q] = quoteBidder'[q]
        /\ quoteStatus[q] \notin {"none", "proposed"} => quoteStatus'[q] = quoteStatus[q]
    BY <2>2, <2>3 DEF HistoryStep
  <2>5. q \in quotes
    BY <1>8, <2>2, <2>4 DEF StaffQuotes, QuotesOf, BidsOf
  <2>6. QED
    BY <1>8, <2>1, <2>3, <2>4, <2>5 DEF NoActive, ActiveQuote
<1>9. Checked(tx[i])'
  <2>1. Checked(t) /\ RowsSecured(t, held[i])
    BY <1>1 DEF Sound
  <2>2. t.op = "assign" => /\ t.at >= 2 => status'[t.r] = "pending_dispatch"
                           /\ t.at >= 3 => t.p \in Suitable[t.r]
    BY <1>5, <2>1 DEF Checked, RequestFirst, Operations, Verifying
  <2>3. /\ t.op = "withdraw" /\ t.at >= 2 => quoteStatus'[t.q] = "proposed"
        /\ t.op \in {"approve", "reject"} /\ t.at >= 3 => quoteStatus'[t.q] = "proposed"
        /\ t.op = "approve" /\ t.at >= 3 => status'[t.r] = "pending_dispatch"
    BY <1>1, <1>5, <1>6, <2>1 DEF Checked, RequestFirst, Operations, Verifying
  <2>4. t.op \in {"approve", "reject"} /\ t.at >= 4 => Fit(t.p)'
    <3>1. t.op \in {"approve", "reject"} /\ t.at >= 4 => Owns(held[i], ProviderRow(t.p))
      BY <1>1, <2>1 DEF RowsSecured, Secured
    <3>2. t.op \in {"approve", "reject"} => t.p \in Provider
      BY <1>3 DEF WellCalled, OnBid
    <3>3. QED
      BY <1>1, <1>7, <2>1, <3>1, <3>2 DEF Checked
  <2>5. ASSUME t.op = "submit"
        PROVE  /\ t.at >= 2 => status'[t.r] = "pending_dispatch"
               /\ t.at >= 3 => t.p \in Open(t.r)'
               /\ t.at >= 4 => NoActive(StaffQuotes(t.r))' /\ NoActive(BidsOf(t.r, t.p))'
    <3>1. t.r \in Request /\ t.p \in Provider /\ t.op \in RequestFirst
      BY <1>3, <2>5 DEF WellCalled, OnProvider, Verifying, RequestFirst, Operations
    <3>2. t.at >= 2 => status'[t.r] = "pending_dispatch"
      BY <1>5, <2>1, <2>5, <3>1 DEF Checked
    <3>3. t.at >= 3 => Owns(held[i], OpportunityRow(t.r, t.p))
      BY <1>1, <2>1, <2>5 DEF RowsSecured, Secured
    <3>4. t.at >= 3 => t.p \in Open(t.r)'
      BY <1>1, <1>2, <2>1, <2>5, <3>1, <3>3 DEF Checked, Guarantee, Open
    <3>5. ASSUME t.at >= 4
          PROVE  NoActive(StaffQuotes(t.r))' /\ NoActive(BidsOf(t.r, t.p))'
      <4>1. ~Owns(h, RequestRow(t.r)) /\ NoActive(StaffQuotes(t.r)) /\ NoActive(BidsOf(t.r, t.p))
        BY <1>1, <1>5, <2>1, <2>5, <3>1, <3>5 DEF Checked
      <4>2. \A q \in StaffQuotes(t.r)' : quoteStatus'[q] \notin ActiveQuote
        BY <1>8, <3>1, <4>1
      <4>3. \A q \in BidsOf(t.r, t.p)' : quoteStatus'[q] \notin ActiveQuote
        BY <1>8, <3>1, <4>1
      <4>4. QED
        BY <4>2, <4>3 DEF NoActive
    <3>6. QED
      BY <3>2, <3>4, <3>5
  <2>6. ASSUME t.op = "invite"
        PROVE  /\ t.at >= 2 => status'[t.r] \notin {"completed", "cancelled"}
               /\ t.at >= 3 => /\ NoActive(QuotesOf(t.r))'
                               /\ t.told \subseteq Suitable[t.r]
                               /\ \A p \in t.told : opportunity'[t.r][p] = "none"
    <3>1. t.r \in Request /\ t.op \in RequestFirst
      BY <1>3, <2>6 DEF WellCalled, Verifying, RequestFirst, Operations
    <3>2. t.at >= 2 => status'[t.r] \notin {"completed", "cancelled"}
      BY <1>5, <2>1, <2>6, <3>1 DEF Checked
    <3>3. ASSUME t.at >= 3
          PROVE  /\ NoActive(QuotesOf(t.r))'
                 /\ t.told \subseteq Suitable[t.r]
                 /\ \A p \in t.told : opportunity'[t.r][p] = "none"
      <4>1. /\ ~Owns(h, RequestRow(t.r)) /\ NoActive(QuotesOf(t.r)) /\ t.told \subseteq Suitable[t.r]
            /\ \A p \in t.told : opportunity[t.r][p] = "none"
        BY <1>1, <1>5, <2>1, <2>6, <3>1, <3>3 DEF Checked
      <4>2. \A q \in QuotesOf(t.r)' : quoteStatus'[q] \notin ActiveQuote
        BY <1>8, <3>1, <4>1
      <4>3. t.told \subseteq Provider
        BY <1>1 DEF Transaction
      <4>4. ASSUME NEW p \in t.told
            PROVE  opportunity'[t.r][p] = "none"
        <5>1. \A q \in BidsOf(t.r, p) : quoteStatus[q] # "proposed"
          BY <4>1, <4>4 DEF NoActive, BidsOf, ActiveQuote
        <5>2. QED
          BY <3>1, <4>1, <4>3, <4>4, <5>1 DEF Guarantee
      <4>5. QED
        BY <4>1, <4>2, <4>4 DEF NoActive
    <3>4. QED
      BY <3>2, <3>3
  <2>7. t.op \in Verifying /\ t.at >= 2 => verification'[t.p] = verification[t.p]
    <3>1. t.op \in Verifying /\ t.at >= 2 => Owns(held[i], ProviderRow(t.p))
      BY <1>1, <2>1 DEF RowsSecured, Secured
    <3>2. t.op \in Verifying => t.p \in Provider
      BY <1>3 DEF WellCalled
    <3>3. QED
      BY <1>7, <3>1, <3>2
  <2>8. t.op = "setOut" => /\ t.at >= 2 => status'[t.r] = "assigned" /\ assigned'[t.r] = t.p
                           /\ t.at >= 3 => Fit(t.p)'
    <3>1. t.op = "setOut" => t.p \in Provider /\ t.op \in RequestFirst
      BY <1>3 DEF WellCalled, OnProvider, RequestFirst, Operations, Verifying
    <3>2. t.op = "setOut" /\ t.at >= 3 => Owns(held[i], ProviderRow(t.p))
      BY <1>1, <2>1 DEF RowsSecured, Secured
    <3>3. QED
      BY <1>5, <1>7, <2>1, <3>1, <3>2 DEF Checked
  <2>9. /\ t.op = "complete" /\ t.at >= 2 => status'[t.r] = "in_progress"
        /\ t.op = "cancel" /\ t.at >= 2 => status'[t.r] \in AllowedPrevious("cancelled")
    BY <1>5, <2>1 DEF Checked, RequestFirst, Operations, Verifying
  <2>10. t.op = "sample" => /\ t.at >= 2 => status'[t.r] \in Tracked /\ assigned'[t.r] = t.p
                            /\ t.at >= 3 => session'[t.r] = "active"
    <3>1. t.op = "sample" => t.r \in Request /\ t.op \in RequestFirst
      BY <1>3 DEF WellCalled, RequestFirst, Operations, Verifying
    <3>2. t.op = "sample" /\ t.at >= 3 => Owns(held[i], SessionRow(t.r))
      BY <1>1, <2>1 DEF RowsSecured, Secured
    <3>3. t.op = "sample" /\ t.at >= 3 => session'[t.r] = "active"
      BY <1>1, <1>2, <1>5, <2>1, <3>1, <3>2 DEF Checked, Guarantee
    <3>4. QED
      BY <1>5, <2>1, <3>1, <3>3 DEF Checked
  <2>11. /\ t.op = "suspend" /\ t.at >= 2 => verification'[t.p] = "verified"
         /\ t.op = "reactivate" /\ t.at >= 2 => verification'[t.p] = "suspended"
    BY <2>1, <2>7 DEF Checked, Verifying
  <2> HIDE DEF t
  <2>12. QED
    BY <2>2, <2>3, <2>4, <2>5, <2>6, <2>8, <2>9, <2>10, <2>11 DEF Checked, AllowedPrevious, t
<1>10. AwardExact(tx[i])'
  <2>1. AwardExact(t) /\ RowsSecured(t, held[i]) /\ MatchesOwned(t, held[i])
    BY <1>1 DEF Sound
  <2> SUFFICES ASSUME t.op \in Awarding
               PROVE  AwardExact(tx[i])'
    BY DEF AwardExact
  <2>2. t.r \in Request /\ t.op \in RequestFirst
    BY <1>3 DEF WellCalled, Verifying, Awarding, RequestFirst, Operations
  <2>3. ASSUME NEW q \in Quote
        PROVE  /\ t.at >= 4 /\ Losing(t, q)' => Covered(t, 4, QuoteRow(q))
               /\ QuoteRow(q) \in t.hit => q = t.q \/ Losing(t, q)'
    <3>1. quoteStatus[q] # "none" => /\ quoteRequest'[q] = quoteRequest[q]
                                     /\ quoteBidder'[q] = quoteBidder[q]
                                     /\ quoteStatus[q] # "proposed" =>
                                          quoteStatus'[q] = quoteStatus[q]
      BY DEF HistoryStep
    <3>2. ASSUME t.at >= 4, Losing(t, q)'
          PROVE  Covered(t, 4, QuoteRow(q))
      <4>1. quoteStatus[q] # "none"
        BY <1>1, <1>5, <2>2, <3>2 DEF Guarantee, Losing
      <4>2. Losing(t, q)
        BY <3>1, <3>2, <4>1 DEF Losing
      <4>3. QED
        BY <2>1, <3>2, <4>2 DEF AwardExact
    <3>3. ASSUME QuoteRow(q) \in t.hit, q # t.q
          PROVE  Losing(t, q)'
      <4>1. Losing(t, q) /\ Owns(held[i], QuoteRow(q))
        BY <2>1, <3>3 DEF AwardExact, MatchesOwned
      <4>2. quoteStatus'[q] = quoteStatus[q]
        BY <1>2, <4>1 DEF Guarantee, Losing
      <4>3. QED
        BY <3>1, <4>1, <4>2 DEF Losing
    <3>4. QED
      BY <3>2, <3>3
  <2>4. ASSUME NEW x \in Provider, x \in Open(t.r)', t.at >= 2
        PROVE  x \in Open(t.r)
    BY <1>5, <2>2, <2>4 DEF Guarantee, Open, OpenOpportunity
  <2>5. ASSUME NEW x \in Provider, x \in Open(t.r), OpportunityRow(t.r, x) \in t.hit
        PROVE  x \in Open(t.r)'
    <3>1. Owns(held[i], OpportunityRow(t.r, x))
      BY <2>1, <2>2, <2>5 DEF MatchesOwned
    <3>2. QED
      BY <1>2, <2>2, <2>5, <3>1 DEF Guarantee, Open
  <2>6. ASSUME t.op = "approve", t.at >= 6, NEW x \in Provider, x \in Open(t.r)
        PROVE  x \in Open(t.r)'
    <3>1. SUFFICES ASSUME opportunity'[t.r][x] # opportunity[t.r][x]
                   PROVE  FALSE
      BY <2>6 DEF Open
    <3>2. PICK q \in BidsOf(t.r, x) : quoteStatus[q] = "proposed" /\ Owns(h, QuoteRow(q))
      BY <1>1, <1>5, <2>2, <2>6, <3>1 DEF Guarantee
    <3>3. q \in Quote /\ quoteRequest[q] = t.r /\ quoteBidder[q] = x
      BY <3>2 DEF BidsOf, QuotesOf
    <3>4. q # t.q
      BY <1>1, <1>2, <1>6, <2>6, <3>2
    <3>5. Losing(t, q)
      BY <3>2, <3>3, <3>4, NullAssumption DEF Losing
    <3>6. QuoteRow(q) \in t.hit
      BY <1>1, <2>1, <2>6, <3>3, <3>5 DEF AwardExact, Awarding, Covered
    <3>7. Owns(held[i], QuoteRow(q))
      BY <2>1, <3>3, <3>6 DEF MatchesOwned
    <3>8. QED
      BY <1>2, <3>2, <3>7
  <2>7. t.op = "approve" /\ t.at >= 6 => t.told = Open(t.r)'
    <3>1. t.op = "approve" /\ t.at >= 6 => t.told = Open(t.r)
      BY <2>1 DEF AwardExact
    <3>2. t.op = "approve" /\ t.at >= 6 => \A x \in Provider : x \in Open(t.r) <=> x \in Open(t.r)'
      BY <1>1, <2>4, <2>6
    <3>3. Open(t.r) \subseteq Provider /\ Open(t.r)' \subseteq Provider
      BY DEF Open
    <3>4. QED
      BY <3>1, <3>2, <3>3
  <2>8. ASSUME NEW x \in Provider
        PROVE  /\ t.at >= OpportunitiesAt(t) /\ x \in Open(t.r)' =>
                    Covered(t, OpportunitiesAt(t), OpportunityRow(t.r, x))
               /\ OpportunityRow(t.r, x) \in t.hit => x \in Open(t.r)'
    <3>1. t.at >= OpportunitiesAt(t) => t.at >= 2
      BY <1>1 DEF OpportunitiesAt
    <3>2. /\ t.at >= OpportunitiesAt(t) /\ x \in Open(t.r) =>
                    Covered(t, OpportunitiesAt(t), OpportunityRow(t.r, x))
          /\ OpportunityRow(t.r, x) \in t.hit => x \in Open(t.r)
      BY <2>1 DEF AwardExact
    <3>3. QED
      BY <2>4, <2>5, <3>1, <3>2
  <2>9. OpportunitiesAt(t)' = OpportunitiesAt(t)
    BY DEF OpportunitiesAt
  <2>10. QED
    BY <2>3, <2>7, <2>8, <2>9 DEF AwardExact
<1>11. AnswerExact(tx[i])'
  <2> DEFINE o == OpportunityRow(t.r, t.p)
  <2>1. AnswerExact(t) /\ MatchesOwned(t, held[i])
    BY <1>1 DEF Sound
  <2>2. t.op \in {"reject", "close"} =>
          t.r \in Request /\ t.p \in Provider /\ t.op \in RequestFirst
    BY <1>3 DEF WellCalled, OnBid, OnProvider, Verifying, RequestFirst, Operations
  <2>3. t.op = "reject" /\ t.at >= 4 /\ opportunity'[t.r][t.p] = "quoted" => Covered(t, 4, o)
    BY <1>1, <1>5, <2>1, <2>2 DEF AnswerExact, Guarantee
  <2>4. t.op \in {"reject", "close"} /\ o \in t.hit /\ t.p \in Open(t.r)
          => opportunity'[t.r][t.p] = opportunity[t.r][t.p]
    BY <1>2, <2>1, <2>2 DEF MatchesOwned, Guarantee, Open
  <2>5. t.op = "reject" /\ o \in t.hit => t.p \in Open(t.r)
    BY <2>1, <2>2 DEF AnswerExact, Open, OpenOpportunity
  <2>6. t.op \in {"reject", "close"} /\ o \in t.hit =>
          opportunity'[t.r][t.p] = opportunity[t.r][t.p]
    BY <2>1, <2>4, <2>5 DEF AnswerExact
  <2>7. t.op = "close" /\ o \in t.hit => t.p \in Open(t.r)'
    BY <2>1, <2>2, <2>6 DEF AnswerExact, Open
  <2>8. QED
    BY <2>1, <2>3, <2>6, <2>7 DEF AnswerExact
<1>12. StopsExact(tx[i])'
  <2>1. StopsExact(t) /\ MatchesOwned(t, held[i]) /\ RowsSecured(t, held[i])
    BY <1>1 DEF Sound
  <2>2. \A r : Stripped(t, r)' <=> Stripped(t, r)
    BY DEF Stripped
  <2>3. t.op \in Stopping \ Verifying => t.r \in Request /\ t.op \in RequestFirst
    BY <1>3 DEF WellCalled, RequestFirst, Operations, Stopping, Verifying
  <2>4. t.op \in Verifying => /\ t.p \in Provider /\ t.r = NoRequest
                              /\ t.at >= 2 => Owns(held[i], ProviderRow(t.p))
    BY <1>1, <1>3, <2>1 DEF WellCalled, RowsSecured, Secured
  <2>5. ASSUME t.op \in Stopping, NEW r \in Request, t.at >= 2, Stops(t, r)'
        PROVE  Stops(t, r)
    <3>1. CASE t.op = "suspend"
      <4>1. assigned'[r] = t.p /\ session'[r] = "active" /\ TrackingEnabled
        BY <2>5, <3>1 DEF Stops
      <4>2. Owns(held[i], ProviderRow(t.p)) /\ t.p \in Provider
        BY <2>4, <2>5, <3>1 DEF Verifying
      <4>3. session[r] = "active"
        <5>1. SUFFICES ASSUME session[r] # "active" PROVE FALSE
          OBVIOUS
        <5>2. assigned[r] \in Provider /\ Owns(h, ProviderRow(assigned[r]))
          BY <4>1, <5>1 DEF Guarantee
        <5>3. assigned'[r] = assigned[r]
          BY <5>2, NullAssumption DEF HistoryStep
        <5>4. QED
          BY <1>2, <4>1, <4>2, <5>2, <5>3
      <4>4. assigned'[r] = assigned[r]
        BY <4>3 DEF TxInv, IInv, TrackingIsConfined, HistoryStep
      <4>5. QED
        BY <3>1, <4>1, <4>3, <4>4 DEF Stops
    <3>2. CASE t.op # "suspend"
      <4>1. r = t.r
        BY <2>5, <3>2 DEF Stops
      <4>2. t.op \notin Verifying
        BY <2>4, <4>1, NullAssumption
      <4>3. ~Owns(h, RequestRow(r))
        BY <1>5, <2>3, <2>5, <4>1, <4>2
      <4>4. session'[r] # session[r] =>
              session[r] = "active" /\ session'[r] = "provider_suspended"
        BY <4>3 DEF Guarantee
      <4>5. QED
        BY <2>5, <3>2, <4>4 DEF Stops
    <3>3. QED
      BY <3>1, <3>2
  <2>6. ASSUME t.op \in Stopping, NEW r \in Request, SessionRow(r) \in t.hit
        PROVE  Stops(t, r)'
    <3>1. Stops(t, r) /\ Owns(held[i], SessionRow(r))
      BY <2>1, <2>6 DEF StopsExact, MatchesOwned
    <3>2. session[r] # "none"
      BY <3>1 DEF Stops
    <3>3. session'[r] = session[r]
      BY <1>2, <3>1, <3>2 DEF Guarantee
    <3>4. t.op = "suspend" => assigned'[r] = assigned[r]
      <4>1. t.op = "suspend" => assigned[r] = t.p /\ t.p \in Provider
        BY <2>4, <3>1 DEF Stops, Verifying
      <4>2. QED
        BY <4>1, NullAssumption DEF HistoryStep
    <3>5. QED
      BY <3>1, <3>3, <3>4 DEF Stops
  <2>7. ASSUME t.op \in Stopping, NEW r \in Request, t.at >= 3, position'[r], Stripped(t, r)
        PROVE  position[r]
    <3>1. SUFFICES ASSUME ~position[r] PROVE FALSE
      OBVIOUS
    <3>2. Owns(h, RequestRow(r)) /\ Owns(h, SessionRow(r))
      BY <2>7, <3>1 DEF Guarantee
    <3>3. CASE t.op = "suspend"
      BY <1>2, <2>1, <2>7, <3>2, <3>3 DEF Stripped, MatchesOwned
    <3>4. CASE t.op # "suspend"
      <4>1. r = t.r
        BY <2>7, <3>4 DEF Stripped
      <4>2. t.op \notin Verifying
        BY <2>4, <4>1, NullAssumption
      <4>3. QED
        BY <1>1, <1>5, <2>3, <2>7, <3>2, <4>1, <4>2
    <3>5. QED
      BY <3>3, <3>4
  <2>8. QED
    BY <2>1, <2>2, <2>5, <2>6, <2>7 DEF StopsExact
<1>13. QED
  BY <1>3, <1>4, <1>9, <1>10, <1>11, <1>12 DEF Sound

-----------------------------------------------------------------------------
(* Each commit is an atomic transaction of ServiceRequests.                *)

(* A transaction that commits has gone through its statements.             *)
Finished(k) ==
  /\ tx[k] \in Transaction /\ tx[k].at = Len(Program(tx[k].op)) /\ tx[k].todo = {}
  /\ StatementTable(tx[k]) /\ Sound(k) /\ Admits(tx[k])
  /\ \A n, row : Secured(tx[k], held[k], n, row) => Owns(held[k], row)
  /\ \A n, row : Covered(tx[k], n, row) => row \in tx[k].hit

LEMMA Finish ==
  ASSUME TxInv, NEW k \in Connection, Commit(k)
  PROVE  Finished(k)
<1>1. /\ tx[k] \in Transaction /\ tx[k].at = Len(Program(tx[k].op)) /\ tx[k].todo = {}
      /\ tx[k].at <= Len(Program(tx[k].op)) /\ Sound(k) /\ Admits(tx[k])
  BY DEF Commit, Ready, TxInv, LocksExclude
<1>2. StatementTable(tx[k])
  BY <1>1, Statements
<1>3. QED
  BY <1>1, <1>2 DEF Finished, Secured, Covered

(* An assignment or an invitation, whatever the providers have become since *)
(* they were read.                                                          *)
Chosen(k) ==
  LET t == tx[k]
  IN  /\ t.r \in Request
      /\ \/ t.op = "assign" /\ t.p \in Suitable[t.r] /\ Assign(t.r, t.p)
         \/ t.op = "invite" /\ t.told \subseteq Suitable[t.r] /\ InviteFound(t.r, t.told)

LEMMA ChosenIsStale ==
  ASSUME NEW k \in Connection, Chosen(k)
  PROVE  StaleNext
BY SuitableAssumption DEF Chosen, StaleNext

(* What a commit has to be: a step of ServiceRequests, or none, that       *)
(* changes only what the transaction owns.                                 *)
Atomically(k) == [Next \/ Chosen(k)]_vars /\ Guarantee(held[k])

(* An award closes what is open and decides what is undecided.             *)
LEMMA AwardFacts ==
  ASSUME TxInv, NEW k \in Connection, Commit(k), tx[k].op \in Awarding
  PROVE  LET t == tx[k]
             won == IF t.op = "approve" THEN {t.q} ELSE {}
         IN  /\ t.r \in Request /\ t.p \in Provider /\ status[t.r] = "pending_dispatch"
             /\ Owns(held[k], RequestRow(t.r))
             /\ t.op = "approve" => /\ t.q \in Quote /\ quoteStatus[t.q] = "proposed"
                                    /\ quoteRequest[t.q] = t.r /\ quoteBidder[t.q] = t.p
                                    /\ Owns(held[k], QuoteRow(t.q)) /\ Fit(t.p)
                                    /\ t.r \notin Ownerless
             /\ t.op = "assign" => t.p \in Suitable[t.r]
             /\ \A q \in Quote : Losing(t, q) => Owns(held[k], QuoteRow(q))
             /\ \A x \in Open(t.r) : Owns(held[k], OpportunityRow(t.r, x))
             /\ Award(t.r, t.p) /\ DecideBids(t.r, won)
             /\ \A q \in Quote : quoteStatus'[q] # quoteStatus[q] => q \in won \/ Losing(t, q)
             /\ payment' = [q \in Quote |->
                  IF q \in won /\ payment[q] = "none" THEN "cash_due" ELSE payment[q]]
             /\ UNCHANGED <<providerVars, quoteRequest, quoteBidder, trackingVars>>
<1> DEFINE t == tx[k]
           won == IF t.op = "approve" THEN {t.q} ELSE {}
<1>1. Finished(k)
  BY Finish
<1>2. /\ WellCalled(t) /\ RowsSecured(t, held[k]) /\ MatchesOwned(t, held[k]) /\ Checked(t)
      /\ AwardExact(t) /\ StatementTable(t)
  BY <1>1 DEF Finished, Sound
<1>3. CommitAward(t)
  BY DEF Commit, Awarding, CommitAward, CommitEndOfBid, CommitSubmit, CommitInvite,
         CommitVerification, CommitStatus, CommitStop, CommitSample
<1>4. /\ \A n, row : Secured(t, held[k], n, row) => Owns(held[k], row)
      /\ \A n, row : Covered(t, n, row) => row \in t.hit
      /\ t.at = IF t.op = "assign" THEN 6 ELSE 7
  BY <1>1, <1>2 DEF Finished, StatementTable, Awarding
<1> HIDE DEF t
<1>5. /\ t.r \in Request /\ t.p \in Provider /\ status[t.r] = "pending_dispatch"
      /\ Owns(held[k], RequestRow(t.r))
      /\ t.op = "approve" => /\ t.q \in Quote /\ quoteStatus[t.q] = "proposed"
                             /\ quoteRequest[t.q] = t.r /\ quoteBidder[t.q] = t.p
                             /\ Owns(held[k], QuoteRow(t.q)) /\ Fit(t.p)
                             /\ t.r \notin Ownerless
      /\ t.op = "assign" => t.p \in Suitable[t.r] /\ t.q = NoQuote
  BY <1>2, <1>4 DEF WellCalled, RowsSecured, Checked, Awarding, OnBid, OnProvider, Verifying,
                    RequestFirst, Operations, t
<1>6. ASSUME NEW q \in Quote
      PROVE  q \notin won => (QuoteRow(q) \in t.hit <=> Losing(t, q))
  <2>1. q \notin won => q # t.q
    BY <1>5, NobodyAssumption DEF Awarding, t
  <2>2. Losing(t, q) => QuoteRow(q) \in t.hit
    BY <1>2, <1>4 DEF AwardExact, Awarding, t
  <2>3. QuoteRow(q) \in t.hit => q = t.q \/ Losing(t, q)
    BY <1>2 DEF AwardExact, t
  <2>4. QED
    BY <2>1, <2>2, <2>3
<1>7. ASSUME NEW x \in Provider
      PROVE  OpportunityRow(t.r, x) \in t.hit <=> x \in Open(t.r)
  BY <1>2, <1>4 DEF AwardExact, Awarding, OpportunitiesAt, t
<1>8. {x \in Provider : OpportunityRow(t.r, x) \in t.hit} = Open(t.r)
  BY <1>7 DEF Open
<1>9. t.op = "approve" => t.told = Open(t.r)
  BY <1>2, <1>4 DEF AwardExact, Awarding, t
<1>10. Award(t.r, t.p)
  BY <1>3, <1>8, <1>9 DEF CommitAward, Award
<1>11. /\ quoteStatus' = [q \in Quote |->
            IF q \in won THEN "approved"
            ELSE IF QuoteRow(q) \in t.hit THEN "rejected" ELSE quoteStatus[q]]
       /\ payment' = [q \in Quote |->
            IF q \in won /\ payment[q] = "none" THEN "cash_due" ELSE payment[q]]
       /\ UNCHANGED <<providerVars, quoteRequest, quoteBidder, trackingVars>>
  BY <1>3 DEF CommitAward
<1> HIDE DEF won
<1>12. \A q \in Quote : Losing(t, q) <=> q \in QuotesOf(t.r) \ StaffQuotes(t.r)
                                          /\ quoteStatus[q] = "proposed" /\ q # t.q
  BY DEF Losing, QuotesOf, StaffQuotes
<1>13. \A q \in Quote : q \notin won => q # t.q
  BY <1>5, NobodyAssumption DEF Awarding, t, won
<1>14. DecideBids(t.r, won)
  BY <1>6, <1>11, <1>12, <1>13 DEF DecideBids
<1>15. \A q \in Quote : quoteStatus'[q] # quoteStatus[q] => q \in won \/ Losing(t, q)
  BY <1>6, <1>11
<1>16. /\ \A q \in Quote : Losing(t, q) => Owns(held[k], QuoteRow(q))
       /\ \A x \in Open(t.r) : Owns(held[k], OpportunityRow(t.r, x))
  <2>1. ASSUME NEW q \in Quote, Losing(t, q)
        PROVE  Owns(held[k], QuoteRow(q))
    BY <1>2, <1>4, <2>1 DEF MatchesOwned, AwardExact, Awarding, t
  <2>2. ASSUME NEW x \in Open(t.r)
        PROVE  Owns(held[k], OpportunityRow(t.r, x))
    BY <1>2, <1>5, <1>7, <2>2 DEF MatchesOwned, Open
  <2>3. QED
    BY <2>1, <2>2
<1>17. QED
  BY <1>5, <1>10, <1>11, <1>14, <1>15, <1>16 DEF t, won

LEMMA AwardCommit ==
  ASSUME TxInv, NEW k \in Connection, Commit(k), tx[k].op \in Awarding
  PROVE  Atomically(k)
<1> DEFINE t == tx[k]
           h == held[k]
           won == IF t.op = "approve" THEN {t.q} ELSE {}
<1>1. /\ t.r \in Request /\ t.p \in Provider /\ status[t.r] = "pending_dispatch"
      /\ Owns(h, RequestRow(t.r))
      /\ t.op = "approve" => /\ t.q \in Quote /\ quoteStatus[t.q] = "proposed"
                             /\ quoteRequest[t.q] = t.r /\ quoteBidder[t.q] = t.p
                             /\ Owns(h, QuoteRow(t.q)) /\ Fit(t.p)
                             /\ t.r \notin Ownerless
      /\ t.op = "assign" => t.p \in Suitable[t.r]
      /\ \A q \in Quote : Losing(t, q) => Owns(h, QuoteRow(q))
      /\ \A x \in Open(t.r) : Owns(h, OpportunityRow(t.r, x))
      /\ Award(t.r, t.p) /\ DecideBids(t.r, won)
      /\ \A q \in Quote : quoteStatus'[q] # quoteStatus[q] => q \in won \/ Losing(t, q)
      /\ payment' = [q \in Quote |->
           IF q \in won /\ payment[q] = "none" THEN "cash_due" ELSE payment[q]]
      /\ UNCHANGED <<providerVars, quoteRequest, quoteBidder, trackingVars>>
  BY AwardFacts
<1>2. TypeOK /\ t.op \in Awarding
  BY DEF TxInv, LocksExclude
<1> HIDE DEF t, h
<1>3. ASSUME t.op = "assign" PROVE Next \/ Chosen(k)
  <2>1. payment' = payment
    BY <1>1, <1>2, <1>3 DEF TypeOK
  <2>2. Assign(t.r, t.p)
    BY <1>1, <1>3, <2>1 DEF Assign
  <2>3. QED
    BY <1>1, <1>3, <2>2 DEF Chosen, t
<1>4. ASSUME t.op = "approve" PROVE Next \/ Chosen(k)
  <2>1. CreateCashPayment(t.q)
    BY <1>1, <1>2, <1>4 DEF TypeOK, CreateCashPayment
  <2>2. won = {t.q} /\ quoteBidder[t.q] # NoProvider
    BY <1>1, <1>4, NullAssumption
  <2> HIDE DEF won
  <2>3. ApproveProviderQuote(t.q)
    BY <1>1, <1>4, <2>1, <2>2 DEF ApproveProviderQuote, Decidable
  <2>4. QED
    BY <1>1, <1>4, <2>3 DEF Next, CustomerNext
<1>5. Next \/ Chosen(k)
  BY <1>2, <1>3, <1>4 DEF Awarding
<1>6. /\ \A r \in Request : r # t.r =>
           /\ status'[r] = status[r] /\ assigned'[r] = assigned[r]
           /\ opportunity'[r] = opportunity[r]
      /\ \A x \in Provider : x \notin Open(t.r) => opportunity'[t.r][x] = opportunity[t.r][x]
      /\ UNCHANGED <<verification, available, session, position>>
  BY <1>1, <1>2 DEF Award, TypeOK, providerVars, trackingVars
<1>7. \A q \in Quote : quoteStatus'[q] # quoteStatus[q] =>
        quoteStatus[q] = "proposed" /\ Owns(h, QuoteRow(q))
  BY <1>1 DEF Losing
<1>8. Guarantee(h)
  <2>1. \A r \in Request, p \in Provider : opportunity'[r][p] # opportunity[r][p] =>
          r = t.r /\ p \in Open(t.r)
    BY <1>6
  <2>2. QED
    BY <1>1, <1>6, <1>7, <2>1 DEF Guarantee
<1>9. QED
  BY <1>5, <1>8 DEF Atomically, h

(* A bid is rejected or withdrawn, or an opportunity closed.               *)
LEMMA EndOfBidCommit ==
  ASSUME TxInv, NEW k \in Connection, Commit(k), tx[k].op \in {"reject", "withdraw", "close"}
  PROVE  Atomically(k)
<1> DEFINE t == tx[k]
           h == held[k]
           o == OpportunityRow(t.r, t.p)
<1>1. Finished(k)
  BY Finish
<1>2. /\ WellCalled(t) /\ RowsSecured(t, h) /\ MatchesOwned(t, h) /\ Checked(t)
      /\ AnswerExact(t) /\ StatementTable(t) /\ TypeOK /\ \A r \in Request : status[r] # "none"
  BY <1>1 DEF Finished, Sound, TxInv, LocksExclude
<1>3. CommitEndOfBid(t)
  BY DEF Commit, CommitAward, CommitEndOfBid, CommitSubmit, CommitInvite,
         CommitVerification, CommitStatus, CommitStop, CommitSample
<1>4. /\ \A n, row : Secured(t, h, n, row) => Owns(h, row)
      /\ \A n, row : Covered(t, n, row) => row \in t.hit
      /\ t.op \in {"reject", "withdraw", "close"}
      /\ t.at = CASE t.op = "reject" -> 4 [] t.op = "withdraw" -> 3 [] t.op = "close" -> 2
  BY <1>1, <1>2 DEF Finished, StatementTable
<1> HIDE DEF t, h
<1>5. t.r \in Request /\ t.p \in Provider
  BY <1>2, <1>4 DEF WellCalled, OnBid, OnProvider, Verifying
<1>6. t.op \in OnBid => /\ t.q \in Quote /\ quoteRequest[t.q] = t.r /\ quoteBidder[t.q] = t.p
                        /\ quoteStatus[t.q] = "proposed" /\ Owns(h, QuoteRow(t.q))
  BY <1>2, <1>4 DEF WellCalled, OnBid, Checked, RowsSecured
<1>7. /\ t.op = "reject" => Fit(t.p) /\ t.r \notin Ownerless
      /\ t.op \in {"reject", "close"} => Owns(h, RequestRow(t.r))
      /\ t.op = "withdraw" => o \in t.hit
      /\ t.op = "reject" => (o \in t.hit <=> opportunity[t.r][t.p] = "quoted")
      /\ t.op = "close" /\ o \in t.hit => t.p \in Open(t.r)
      /\ o \in t.hit => Owns(h, o)
  BY <1>2, <1>4, <1>5 DEF WellCalled, Checked, RowsSecured, RequestFirst, Operations, Verifying,
                          AnswerExact, MatchesOwned
<1>8. UNCHANGED <<providerVars, dispatchVars, quoteRequest, quoteBidder, payment,
                     trackingVars, outboxVars>>
  BY <1>3 DEF CommitEndOfBid
<1>9. t.op # "close" => quoteStatus' = [quoteStatus EXCEPT ![t.q] =
                                           IF t.op = "reject" THEN "rejected" ELSE "withdrawn"]
  BY <1>2, <1>3, <1>4 DEF CommitEndOfBid, TypeOK
<1>10. t.op = "close" => UNCHANGED quoteStatus
  BY <1>2, <1>3, <1>4, NobodyAssumption DEF CommitEndOfBid, TypeOK, WellCalled, OnBid
<1>11. IF o \in t.hit
         THEN SetOpportunity(t.r, t.p, CASE t.op = "reject" -> "rejected"
                                         [] t.op = "withdraw" -> "withdrawn"
                                         [] t.op = "close" -> "closed")
         ELSE UNCHANGED opportunity
  BY <1>3 DEF CommitEndOfBid
<1> HIDE DEF o
<1>12. ASSUME t.op = "reject" PROVE [Next \/ Chosen(k)]_vars
  <2>1. RejectQuote(t.q)
    BY <1>5, <1>6, <1>7, <1>8, <1>9, <1>11, <1>12, NullAssumption DEF RejectQuote, Decidable, OnBid
  <2>2. QED
    BY <1>6, <1>12, <2>1 DEF Next, CustomerNext, OnBid
<1>13. ASSUME t.op = "withdraw" PROVE [Next \/ Chosen(k)]_vars
  <2>1. WithdrawProviderQuote(t.q)
    BY <1>5, <1>6, <1>7, <1>8, <1>9, <1>11, <1>13, NullAssumption DEF WithdrawProviderQuote, OnBid
  <2>2. QED
    BY <1>6, <1>13, <2>1 DEF Next, BidderNext, OnBid
<1>14. ASSUME t.op = "close" PROVE [Next \/ Chosen(k)]_vars
  <2>1. CASE o \in t.hit
    <3>1. CloseProviderOpportunity(t.r, t.p)
      BY <1>2, <1>5, <1>7, <1>8, <1>10, <1>11, <1>14, <2>1 DEF CloseProviderOpportunity, quoteVars
    <3>2. QED
      BY <1>5, <3>1 DEF Next, StaffNext
  <2>2. CASE o \notin t.hit
    BY <1>8, <1>10, <1>11, <1>14, <2>2
    DEF vars, providerVars, dispatchVars, trackingVars, outboxVars
  <2>3. QED
    BY <2>1, <2>2
<1>15. [Next \/ Chosen(k)]_vars
  BY <1>4, <1>12, <1>13, <1>14
<1>16. Guarantee(h)
  <2>1. \A r \in Request, p \in Provider : opportunity'[r][p] # opportunity[r][p] =>
          /\ r = t.r /\ p = t.p /\ o \in t.hit
          /\ t.op = "withdraw" => opportunity'[r][p] = "withdrawn"
    BY <1>2, <1>5, <1>11 DEF SetOpportunity, TypeOK
  <2>2. \A q \in Quote : quoteStatus'[q] # quoteStatus[q] => t.op \in OnBid /\ q = t.q
    BY <1>2, <1>4, <1>9, <1>10 DEF TypeOK, OnBid
  <2>3. t.op = "withdraw" => t.q \in BidsOf(t.r, t.p)
    BY <1>6 DEF BidsOf, QuotesOf, OnBid
  <2>4. \A r \in Request, p \in Provider : opportunity'[r][p] # opportunity[r][p] =>
          /\ Owns(h, OpportunityRow(r, p))
          /\ \/ Owns(h, RequestRow(r))
             \/ /\ opportunity'[r][p] = "withdrawn"
                /\ \E q \in BidsOf(r, p) : quoteStatus[q] = "proposed" /\ Owns(h, QuoteRow(q))
    BY <1>4, <1>6, <1>7, <2>1, <2>3 DEF OnBid, o
  <2>5. UNCHANGED <<verification, available, status, assigned, session, position>>
    BY <1>8 DEF providerVars, dispatchVars, trackingVars
  <2>6. \A q \in Quote : quoteStatus'[q] # quoteStatus[q] =>
          quoteStatus[q] = "proposed" /\ Owns(h, QuoteRow(q))
    BY <1>6, <2>2
  <2>7. QED
    BY <2>4, <2>5, <2>6 DEF Guarantee
<1>17. QED
  BY <1>15, <1>16 DEF Atomically, h

(* A bid is submitted.                                                     *)
LEMMA SubmitCommit ==
  ASSUME TxInv, NEW k \in Connection, Commit(k), tx[k].op = "submit"
  PROVE  Atomically(k)
<1> DEFINE t == tx[k]
           h == held[k]
<1>1. Finished(k)
  BY Finish
<1>2. WellCalled(t) /\ RowsSecured(t, h) /\ Checked(t) /\ StatementTable(t) /\ TypeOK
  BY <1>1 DEF Finished, Sound, TxInv, LocksExclude
<1>3. CommitSubmit(t) /\ t.op = "submit"
  BY DEF Commit, CommitAward, CommitEndOfBid, CommitSubmit, CommitInvite,
         CommitVerification, CommitStatus, CommitStop, CommitSample
<1>4. (\A n, row : Secured(t, h, n, row) => Owns(h, row)) /\ t.at = 4
  BY <1>1, <1>2, <1>3 DEF Finished, StatementTable
<1> HIDE DEF t, h
<1>5. /\ t.r \in Request /\ t.p \in Provider /\ t.q \in Quote
      /\ status[t.r] = "pending_dispatch" /\ t.p \in Open(t.r)
      /\ NoActive(StaffQuotes(t.r)) /\ NoActive(BidsOf(t.r, t.p))
      /\ Owns(h, RequestRow(t.r)) /\ Owns(h, OpportunityRow(t.r, t.p))
  BY <1>2, <1>3, <1>4 DEF WellCalled, Checked, RowsSecured, OnBid, OnProvider, Verifying,
                          RequestFirst, Operations
<1>6. SubmitProviderQuote(t.r, t.p, t.q)
  BY <1>3, <1>5 DEF CommitSubmit, SubmitProviderQuote
<1>7. [Next \/ Chosen(k)]_vars
  BY <1>5, <1>6 DEF Next, BidderNext
<1>8. Guarantee(h)
  <2>1. \A r \in Request, p \in Provider : opportunity'[r][p] # opportunity[r][p] =>
          r = t.r /\ p = t.p
    BY <1>2, <1>3, <1>5 DEF CommitSubmit, SetOpportunity, TypeOK
  <2>2. /\ \A q \in Quote : quoteStatus'[q] # quoteStatus[q] => q = t.q
        /\ quoteStatus[t.q] = "none" /\ quoteRequest'[t.q] = t.r
    BY <1>2, <1>3, <1>5 DEF CommitSubmit, InsertQuote, TypeOK
  <2>3. UNCHANGED <<verification, available, status, assigned, session, position>>
    BY <1>3 DEF CommitSubmit, providerVars, dispatchVars, trackingVars
  <2>4. QED
    BY <1>5, <2>1, <2>2, <2>3 DEF Guarantee
<1>9. QED
  BY <1>7, <1>8 DEF Atomically, h

(* Providers are invited.                                                  *)
LEMMA InviteCommit ==
  ASSUME TxInv, NEW k \in Connection, Commit(k), tx[k].op = "invite"
  PROVE  Atomically(k)
<1> DEFINE t == tx[k]
           h == held[k]
<1>1. Finished(k)
  BY Finish
<1>2. /\ WellCalled(t) /\ RowsSecured(t, h) /\ Checked(t) /\ StatementTable(t) /\ TypeOK
      /\ t.told \subseteq Provider /\ \A r \in Request : status[r] # "none"
  BY <1>1 DEF Finished, Sound, TxInv, LocksExclude, Transaction
<1>3. CommitInvite(t) /\ t.op = "invite"
  BY DEF Commit, CommitAward, CommitEndOfBid, CommitSubmit, CommitInvite,
         CommitVerification, CommitStatus, CommitStop, CommitSample
<1>4. (\A n, row : Secured(t, h, n, row) => Owns(h, row)) /\ t.at = 3
  BY <1>1, <1>2, <1>3 DEF Finished, StatementTable
<1> HIDE DEF t, h
<1>5. /\ t.r \in Request
      /\ status[t.r] \notin {"completed", "cancelled"} /\ NoActive(QuotesOf(t.r))
      /\ t.told \subseteq Suitable[t.r] /\ \A p \in t.told : opportunity[t.r][p] = "none"
      /\ Owns(h, RequestRow(t.r))
  BY <1>2, <1>3, <1>4 DEF WellCalled, Checked, RowsSecured, Verifying, RequestFirst, Operations
<1>6. {p \in t.told : opportunity[t.r][p] = "none"} = t.told
  BY <1>5
<1>7. InviteFound(t.r, t.told)
  BY <1>2, <1>3, <1>5, <1>6 DEF CommitInvite, InviteFound
<1>8. [Next \/ Chosen(k)]_vars
  BY <1>3, <1>5, <1>7 DEF Chosen, t
<1>9. Guarantee(h)
  <2>1. \A r \in Request, p \in Provider : opportunity'[r][p] # opportunity[r][p] =>
          r = t.r /\ opportunity[r][p] = "none"
    BY <1>2, <1>3, <1>5 DEF CommitInvite, Invite, TypeOK
  <2>2. UNCHANGED <<verification, available, status, assigned, quoteStatus, session, position>>
    BY <1>3 DEF CommitInvite, providerVars, dispatchVars, quoteVars, trackingVars
  <2>3. QED
    BY <1>5, <2>1, <2>2 DEF Guarantee, OpenOpportunity
<1>10. QED
  BY <1>8, <1>9 DEF Atomically, h

(* The sessions and positions it matched are those the code stops.         *)
LEMMA StopFacts ==
  ASSUME TxInv, NEW k \in Connection, Commit(k), tx[k].op \in Stopping
  PROVE  /\ \A r \in Request :
              /\ SessionRow(r) \in tx[k].hit <=> Stops(tx[k], r)
              /\ SessionRow(r) \in tx[k].hit => Owns(held[k], SessionRow(r))
              /\ PositionRow(r) \in tx[k].hit => Stripped(tx[k], r)
              /\ position[r] /\ Stripped(tx[k], r) => PositionRow(r) \in tx[k].hit
         /\ tx[k].at = 3
<1>1. Finished(k)
  BY Finish
<1>2. StopsExact(tx[k]) /\ MatchesOwned(tx[k], held[k]) /\ StatementTable(tx[k])
  BY <1>1 DEF Finished, Sound
<1>3. tx[k].at = 3
  BY <1>1, <1>2 DEF Finished, StatementTable, Stopping, Verifying
<1>4. QED
  BY <1>1, <1>2, <1>3 DEF Finished, StopsExact, MatchesOwned

(* A provider is suspended or reactivated.                                 *)
LEMMA VerificationCommit ==
  ASSUME TxInv, NEW k \in Connection, Commit(k), tx[k].op \in Verifying
  PROVE  Atomically(k)
<1> DEFINE t == tx[k]
           h == held[k]
           stopped == {r \in Request : assigned[r] = t.p /\ session[r] = "active"
                                        /\ t.op = "suspend" /\ TrackingEnabled}
<1>1. Finished(k)
  BY Finish
<1>2. WellCalled(t) /\ RowsSecured(t, h) /\ Checked(t) /\ TypeOK
  BY <1>1 DEF Finished, Sound, TxInv, LocksExclude
<1>3. CommitVerification(t) /\ t.op \in Verifying
  BY DEF Commit, Verifying, CommitAward, CommitEndOfBid, CommitSubmit, CommitInvite,
         CommitVerification, CommitStatus, CommitStop, CommitSample
<1>4. /\ \A r \in Request :
              /\ SessionRow(r) \in t.hit <=> Stops(t, r)
              /\ SessionRow(r) \in t.hit => Owns(h, SessionRow(r))
              /\ PositionRow(r) \in t.hit => Stripped(t, r)
              /\ position[r] /\ Stripped(t, r) => PositionRow(r) \in t.hit
      /\ t.at = 3
  BY StopFacts DEF Stopping, Verifying
<1>5. \A n, row : Secured(t, h, n, row) => Owns(h, row)
  BY <1>1 DEF Finished
<1> HIDE DEF t, h
<1>6. /\ t.p \in Provider /\ t.r = NoRequest /\ Owns(h, ProviderRow(t.p))
      /\ verification[t.p] = IF t.op = "suspend" THEN "verified" ELSE "suspended"
  BY <1>2, <1>3, <1>4, <1>5 DEF WellCalled, Checked, RowsSecured, Verifying
<1>7. ASSUME NEW r \in Request
      PROVE  /\ SessionRow(r) \in t.hit <=> r \in stopped
             /\ r \in stopped /\ position[r] => PositionRow(r) \in t.hit
             /\ PositionRow(r) \in t.hit => r \in stopped
  <2>1. r # t.r
    BY <1>6, NullAssumption
  <2>2. SessionRow(r) \in t.hit <=> r \in stopped
    BY <1>3, <1>4, <2>1 DEF Stops, Verifying
  <2>3. Stripped(t, r) <=> SessionRow(r) \in t.hit
    BY <1>3, <1>4, <2>1, <2>2 DEF Stripped, Verifying
  <2>4. QED
    BY <1>4, <2>2, <2>3
<1> HIDE DEF stopped
<1>8. /\ session' = [r \in Request |->
           IF r \in stopped THEN "provider_suspended" ELSE session[r]]
      /\ position' = [r \in Request |-> IF r \in stopped THEN FALSE ELSE position[r]]
  BY <1>2, <1>3, <1>7 DEF CommitVerification, Stopped, TypeOK
<1>9. /\ verification' = [verification EXCEPT ![t.p] =
           IF t.op = "suspend" THEN "suspended" ELSE "verified"]
      /\ available' = [available EXCEPT ![t.p] = (t.op = "reactivate")]
      /\ UNCHANGED <<dispatchVars, opportunity, quoteVars, payment, outboxVars>>
  BY <1>3 DEF CommitVerification
<1>10. ASSUME t.op = "suspend"
       PROVE  SuspendPilotProvider(t.p)
  BY <1>6, <1>8, <1>9, <1>10
  DEF SuspendPilotProvider, UpdatePilotProviderVerification, stopped
<1>11. ASSUME t.op = "reactivate"
       PROVE  ReactivatePilotProvider(t.p)
  BY <1>6, <1>8, <1>9, <1>11
  DEF ReactivatePilotProvider, UpdatePilotProviderVerification, stopped
<1>12. [Next \/ Chosen(k)]_vars
  <2>1. ProviderNext
    BY <1>3, <1>6, <1>10, <1>11 DEF ProviderNext, Verifying
  <2>2. QED
    BY <2>1 DEF Next
<1>13. Guarantee(h)
  <2>1. \A r \in Request : session'[r] # session[r] =>
          Owns(h, SessionRow(r)) /\ session[r] = "active" /\ session'[r] = "provider_suspended"
    BY <1>4, <1>7, <1>8 DEF stopped
  <2>2. \A r \in Request : position'[r] => position[r]
    BY <1>8
  <2>3. \A p \in Provider : verification'[p] # verification[p] \/ available'[p] # available[p] =>
          p = t.p
    BY <1>2, <1>9 DEF TypeOK
  <2>4. UNCHANGED <<status, assigned, opportunity, quoteStatus>>
    BY <1>9 DEF dispatchVars, quoteVars
  <2>5. QED
    BY <1>6, <2>1, <2>2, <2>3, <2>4 DEF Guarantee
<1>14. QED
  BY <1>12, <1>13 DEF Atomically, h

(* An ending of the request, or the operations stop.                       *)
LEMMA StopsTracking ==
  ASSUME TxInv, NEW k \in Connection, Commit(k), tx[k].op \in {"complete", "cancel", "stop"},
         NEW reason, Stopped(tx[k], reason), reason # "active",
         tx[k].op = "stop" => reason = "operations_emergency",
         tx[k].op # "stop" => reason \in {"completed", "cancelled"}
  PROVE  /\ tx[k].r \in Request /\ Owns(held[k], RequestRow(tx[k].r))
         /\ StopTracking(tx[k].r, reason)
         /\ \A r \in Request : session'[r] # session[r] =>
              /\ Owns(held[k], SessionRow(r)) /\ session'[r] # "active"
              /\ Owns(held[k], RequestRow(r))
         /\ \A r \in Request : position'[r] => position[r]
<1> DEFINE t == tx[k]
           h == held[k]
<1>1. Finished(k)
  BY Finish
<1>2. WellCalled(t) /\ RowsSecured(t, h) /\ TypeOK
  BY <1>1 DEF Finished, Sound, TxInv, LocksExclude
<1>3. /\ \A r \in Request :
              /\ SessionRow(r) \in t.hit <=> Stops(t, r)
              /\ SessionRow(r) \in t.hit => Owns(h, SessionRow(r))
              /\ PositionRow(r) \in t.hit => Stripped(t, r)
              /\ position[r] /\ Stripped(t, r) => PositionRow(r) \in t.hit
      /\ t.at = 3
  BY StopFacts DEF Stopping
<1>4. \A n, row : Secured(t, h, n, row) => Owns(h, row)
  BY <1>1 DEF Finished
<1>5. t.r \in Request /\ Owns(h, RequestRow(t.r))
  BY <1>2, <1>4 DEF WellCalled, RowsSecured, RequestFirst, Operations, Verifying
<1> DEFINE stops(r) == /\ r = t.r
                       /\ \/ session[r] = "active"
                          \/ /\ reason \in {"completed", "cancelled"}
                             /\ session[r] \in {"provider_suspended", "operations_emergency"}
<1>6. \A r \in Request : Stops(t, r) <=> stops(r)
  BY DEF Stops
<1>7. \A r \in Request : Stripped(t, r) <=> r = t.r
  BY DEF Stripped
<1>8. /\ session' = [r \in Request |-> IF SessionRow(r) \in t.hit THEN reason ELSE session[r]]
      /\ position' = [r \in Request |-> IF PositionRow(r) \in t.hit THEN FALSE ELSE position[r]]
  BY DEF Stopped
<1> HIDE DEF t, h
<1>9. StopTracking(t.r, reason)
  <2>1. session' = [session EXCEPT ![t.r] =
       IF @ = "active" \/ /\ reason \in {"completed", "cancelled"}
                          /\ @ \in {"provider_suspended", "operations_emergency"}
         THEN reason ELSE @]
    BY <1>2, <1>3, <1>5, <1>6, <1>8 DEF TypeOK
  <2>2. position' = [position EXCEPT ![t.r] = FALSE]
    BY <1>2, <1>3, <1>5, <1>7, <1>8 DEF TypeOK
  <2>3. QED
    BY <2>1, <2>2 DEF StopTracking
<1>10. \A r \in Request : session'[r] # session[r] =>
              /\ Owns(h, SessionRow(r)) /\ session'[r] # "active" /\ Owns(h, RequestRow(r))
  BY <1>3, <1>5, <1>6, <1>8
<1>11. \A r \in Request : position'[r] => position[r]
  BY <1>8
<1>12. QED
  BY <1>5, <1>9, <1>10, <1>11 DEF t, h

LEMMA EndingCommit ==
  ASSUME TxInv, NEW k \in Connection, Commit(k), tx[k].op \in {"complete", "cancel"}
  PROVE  Atomically(k)
<1> DEFINE t == tx[k]
           h == held[k]
           new == IF t.op = "complete" THEN "completed" ELSE "cancelled"
<1>1. Finished(k)
  BY Finish
<1>2. Checked(t) /\ TypeOK
  BY <1>1 DEF Finished, Sound, TxInv, LocksExclude
<1>3. CommitStatus(t) /\ t.op \in {"complete", "cancel"}
  BY DEF Commit, CommitAward, CommitEndOfBid, CommitSubmit, CommitInvite,
         CommitVerification, CommitStatus, CommitStop, CommitSample
<1>4. Stopped(t, new)
  BY <1>3 DEF CommitStatus
<1>5. /\ t.r \in Request /\ Owns(h, RequestRow(t.r)) /\ StopTracking(t.r, new)
      /\ \A r \in Request : session'[r] # session[r] =>
           /\ Owns(h, SessionRow(r)) /\ session'[r] # "active"
           /\ Owns(h, RequestRow(r))
      /\ \A r \in Request : position'[r] => position[r]
  BY <1>3, <1>4, StopsTracking
<1>6. t.at = 3
  BY <1>3, StopFacts DEF Stopping
<1> HIDE DEF t, h
<1>7. status[t.r] \in AllowedPrevious(new)
  BY <1>2, <1>3, <1>6 DEF Checked, AllowedPrevious
<1>8. /\ status' = [status EXCEPT ![t.r] = new]
      /\ Enqueue({Key("status_updated", t.r, new)})
      /\ UNCHANGED <<providerVars, assigned, opportunity, quoteVars, payment>>
  BY <1>3 DEF CommitStatus
<1>9. UpdateStatus(t.r, new)
  BY <1>5, <1>7, <1>8 DEF UpdateStatus, SetStatus
<1>10. [Next \/ Chosen(k)]_vars
  <2>1. StaffNext
    BY <1>5, <1>9 DEF StaffNext, NewStatus
  <2>2. QED
    BY <2>1 DEF Next
<1>11. Guarantee(h)
  <2>1. \A r \in Request : status'[r] # status[r] => r = t.r
    BY <1>2, <1>8 DEF TypeOK
  <2>2. UNCHANGED <<verification, available, assigned, opportunity, quoteStatus>>
    BY <1>8 DEF providerVars, quoteVars
  <2>3. QED
    BY <1>5, <2>1, <2>2 DEF Guarantee
<1>12. QED
  BY <1>10, <1>11 DEF Atomically, h

LEMMA StopCommit ==
  ASSUME TxInv, NEW k \in Connection, Commit(k), tx[k].op = "stop"
  PROVE  Atomically(k)
<1> DEFINE t == tx[k]
           h == held[k]
<1>1. CommitStop(t) /\ t.op = "stop"
  BY DEF Commit, CommitAward, CommitEndOfBid, CommitSubmit, CommitInvite,
         CommitVerification, CommitStatus, CommitStop, CommitSample
<1>2. /\ t.r \in Request /\ Owns(h, RequestRow(t.r)) /\ StopTracking(t.r, "operations_emergency")
      /\ \A r \in Request : session'[r] # session[r] =>
           /\ Owns(h, SessionRow(r)) /\ session'[r] # "active"
           /\ Owns(h, RequestRow(r))
      /\ \A r \in Request : position'[r] => position[r]
  BY <1>1, StopsTracking DEF CommitStop
<1>3. TrackingEnabled /\ status[t.r] # "none"
  <2>1. WellCalled(t)
    BY Finish DEF Finished, Sound
  <2>2. QED
    BY <1>1, <1>2, <2>1 DEF WellCalled, TxInv
<1> HIDE DEF t, h
<1>4. UNCHANGED <<providerVars, dispatchVars, opportunity, quoteVars, payment, outboxVars>>
  BY <1>1 DEF CommitStop
<1>5. StopProviderTrackingForOperations(t.r)
  BY <1>2, <1>3, <1>4 DEF StopProviderTrackingForOperations
<1>6. [Next \/ Chosen(k)]_vars
  BY <1>2, <1>5 DEF Next, StaffNext
<1>7. Guarantee(h)
  <2>1. UNCHANGED <<verification, available, status, assigned, opportunity, quoteStatus>>
    BY <1>4 DEF providerVars, dispatchVars, quoteVars
  <2>2. QED
    BY <1>2, <2>1 DEF Guarantee
<1>8. QED
  BY <1>6, <1>7 DEF Atomically, h

(* The provider sets out, or the work starts.                              *)
LEMMA WayCommit ==
  ASSUME TxInv, NEW k \in Connection, Commit(k), tx[k].op \in {"setOut", "work"}
  PROVE  Atomically(k)
<1> DEFINE t == tx[k]
           h == held[k]
           new == IF t.op = "setOut" THEN "on_the_way" ELSE "in_progress"
<1>1. Finished(k)
  BY Finish
<1>2. /\ WellCalled(t) /\ RowsSecured(t, h) /\ Checked(t) /\ StatementTable(t) /\ TypeOK
      /\ StopsExact(t) /\ Admits(t)
  BY <1>1 DEF Finished, Sound, TxInv, LocksExclude
<1>3. CommitStatus(t) /\ t.op \in {"setOut", "work"}
  BY DEF Commit, CommitAward, CommitEndOfBid, CommitSubmit, CommitInvite,
         CommitVerification, CommitStatus, CommitStop, CommitSample
<1>4. /\ \A n, row : Secured(t, h, n, row) => Owns(h, row)
      /\ t.at = IF t.op = "setOut" /\ TrackingEnabled THEN 3 ELSE 1
  BY <1>1, <1>2, <1>3 DEF Finished, StatementTable
<1> HIDE DEF t, h
<1>5. t.r \in Request /\ Owns(h, RequestRow(t.r)) /\ (t.op = "setOut" => t.p \in Provider)
  BY <1>2, <1>3, <1>4 DEF WellCalled, RowsSecured, OnProvider, Verifying, RequestFirst, Operations
<1>6. t.at = 1 => RequestAdmits(t)
  BY <1>2, <1>3 DEF StatementTable, Admits
<1>7. t.op = "setOut" => status[t.r] = "assigned" /\ assigned[t.r] = t.p
  BY <1>2, <1>4, <1>6 DEF RequestAdmits, Checked
<1>8. t.op = "work" => status[t.r] = "on_the_way" /\ ServiceMayStart(t.r)
  BY <1>4, <1>6 DEF RequestAdmits
<1>9. t.op = "setOut" /\ TrackingEnabled =>
        /\ Fit(t.p) /\ Owns(h, ProviderRow(t.p)) /\ session[t.r] \in {"none", "active"}
  BY <1>2, <1>4 DEF Checked, RowsSecured, StatementTable, Admits
<1>10. /\ status' = [status EXCEPT ![t.r] = new]
       /\ Enqueue({Key("status_updated", t.r, new)})
       /\ UNCHANGED <<providerVars, assigned, opportunity, quoteVars, payment>>
  BY <1>3 DEF CommitStatus
<1>11. IF t.op = "setOut" /\ TrackingEnabled THEN StartTracking(t.r)
                                             ELSE UNCHANGED trackingVars
  <2>1. CASE t.op = "setOut" /\ TrackingEnabled
    BY <1>3, <1>9, <2>1 DEF CommitStatus, StartTracking
  <2>2. CASE ~(t.op = "setOut" /\ TrackingEnabled)
    <3>1. \A r \in Request : SessionRow(r) \notin t.hit /\ PositionRow(r) \notin t.hit
      BY <1>2, <1>3 DEF StopsExact, Stopping, Verifying
    <3>2. Stopped(t, new)
      BY <1>3, <2>2 DEF CommitStatus
    <3>3. session' = session /\ position' = position
      BY <1>2, <3>1, <3>2 DEF Stopped, TypeOK
    <3>4. QED
      BY <2>2, <3>3 DEF trackingVars
  <2>3. QED
    BY <2>1, <2>2
<1>12. SetStatus(t.r, new)
  BY <1>3, <1>7, <1>8, <1>10 DEF SetStatus, AllowedPrevious
<1>13. [Next \/ Chosen(k)]_vars
  <2>1. ASSUME t.op = "setOut"
        PROVE  BidderNext
    <3>1. UpdateStatusForProvider(t.r, t.p, new)
      BY <1>7, <1>9, <1>11, <1>12, <2>1 DEF UpdateStatusForProvider
    <3>2. QED
      BY <1>5, <2>1, <3>1 DEF BidderNext, NewStatus
  <2>2. ASSUME t.op = "work"
        PROVE  StaffNext
    <3>1. UpdateStatus(t.r, new)
      BY <1>11, <1>12, <2>2 DEF UpdateStatus
    <3>2. QED
      BY <1>5, <2>2, <3>1 DEF StaffNext, NewStatus
  <2>3. QED
    BY <1>3, <2>1, <2>2 DEF Next
<1>14. Guarantee(h)
  <2>1. \A r \in Request : status'[r] # status[r] => r = t.r
    BY <1>2, <1>10 DEF TypeOK
  <2>2. UNCHANGED <<verification, available, assigned, opportunity, quoteStatus, position>>
    BY <1>10, <1>11 DEF providerVars, quoteVars, trackingVars, StartTracking
  <2>3. \A r \in Request : session'[r] # session[r] =>
          /\ r = t.r /\ session[r] = "none" /\ session'[r] = "active"
          /\ assigned[r] \in Provider /\ Owns(h, ProviderRow(assigned[r]))
    BY <1>2, <1>5, <1>7, <1>9, <1>11 DEF StartTracking, trackingVars, TypeOK
  <2>4. QED
    BY <1>5, <2>1, <2>2, <2>3 DEF Guarantee
<1>15. QED
  BY <1>13, <1>14 DEF Atomically, h

(* A location sample is accepted.                                          *)
LEMMA SampleCommit ==
  ASSUME TxInv, NEW k \in Connection, Commit(k), tx[k].op = "sample"
  PROVE  Atomically(k)
<1> DEFINE t == tx[k]
           h == held[k]
<1>1. Finished(k)
  BY Finish
<1>2. WellCalled(t) /\ RowsSecured(t, h) /\ Checked(t) /\ StatementTable(t) /\ TypeOK
  BY <1>1 DEF Finished, Sound, TxInv, LocksExclude
<1>3. CommitSample(t) /\ t.op = "sample"
  BY DEF Commit, CommitAward, CommitEndOfBid, CommitSubmit, CommitInvite,
         CommitVerification, CommitStatus, CommitStop, CommitSample
<1>4. (\A n, row : Secured(t, h, n, row) => Owns(h, row)) /\ t.at = 3
  BY <1>1, <1>2, <1>3 DEF Finished, StatementTable
<1> HIDE DEF t, h
<1>5. /\ t.r \in Request /\ t.p \in Provider /\ TrackingEnabled
      /\ status[t.r] \in Tracked /\ assigned[t.r] = t.p /\ session[t.r] = "active"
      /\ Owns(h, RequestRow(t.r)) /\ Owns(h, SessionRow(t.r))
  BY <1>2, <1>3, <1>4 DEF WellCalled, Checked, RowsSecured, OnBid, OnProvider, Verifying,
                          RequestFirst, Operations
<1>6. SubmitProviderLocationSample(t.r)
  BY <1>3, <1>5, NullAssumption DEF CommitSample, SubmitProviderLocationSample
<1>7. [Next \/ Chosen(k)]_vars
  BY <1>5, <1>6 DEF Next, BidderNext
<1>8. Guarantee(h)
  <2>1. \A r \in Request : position'[r] # position[r] => r = t.r
    BY <1>2, <1>3, <1>5 DEF CommitSample, TypeOK
  <2>2. UNCHANGED <<verification, available, status, assigned, opportunity, quoteStatus, session>>
    BY <1>3 DEF CommitSample, providerVars, dispatchVars, quoteVars
  <2>3. QED
    BY <1>5, <2>1, <2>2 DEF Guarantee
<1>9. QED
  BY <1>7, <1>8 DEF Atomically, h

(* All the commits.                                                        *)
LEMMA CommitIsAtomic ==
  ASSUME TxInv, NEW k \in Connection, Commit(k)
  PROVE  Atomically(k)
<1>1. tx[k].op \in Operations
  BY Finish DEF Finished, Transaction
<1>2. QED
  BY <1>1, AwardCommit, EndOfBidCommit, SubmitCommit, InviteCommit, VerificationCommit,
     EndingCommit, StopCommit, WayCommit, SampleCommit DEF Operations, Awarding, Verifying

LEMMA CommitInv ==
  ASSUME TxInv, NEW k \in Connection, Commit(k), UNCHANGED plan
  PROVE  TxInv'
<1>1. [Next \/ StaleNext]_vars /\ Guarantee(held[k])
  BY CommitIsAtomic, ChosenIsStale DEF Atomically
<1>2. IInv'
  BY <1>1, NextInv DEF TxInv
<1>3. CASE Next \/ StaleNext
  <2>1. HistoryStep
    BY <1>3, StepKeepsHistory DEF TxInv
  <2>2. \A r \in Request : status'[r] # "none"
    BY <2>1 DEF HistoryStep, TxInv
  <2>3. /\ tx'[k] = Idle /\ held'[k] = {}
        /\ \A i \in Connection \ {k} : tx'[i] = tx[i] /\ held'[i] = held[i]
        /\ tx' \in [Connection -> Transaction \cup {Idle}]
        /\ held' \in [Connection -> SUBSET (Row \X Mode)]
    BY DEF Commit, End, TxInv, LocksExclude
  <2>4. LocksExclude'
    BY <1>2, <2>3 DEF TxInv, LocksExclude, IInv
  <2>5. ASSUME NEW i \in Connection, tx'[i] # Idle
        PROVE  Sound(i)'
    BY <1>1, <1>2, <2>1, <2>3, <2>5, SoundSurvives
  <2>6. QED
    BY <1>2, <2>2, <2>4, <2>5 DEF TxInv
<1>4. CASE UNCHANGED vars
  <2>1. End(k)
    BY DEF Commit
  <2>2. QED
    BY <1>4, <2>1, EndInv
<1>5. QED
  BY <1>1, <1>3, <1>4

-----------------------------------------------------------------------------
(* The keys in the outbox at first.                                        *)
FirstKey(k) ==
  \/ \E x \in Request \ Ownerless : k = Key("request_created", x, NoProvider)
  \/ \E x \in Request : \E p \in Suitable[x] : k = Key("opportunity_invited", x, p)
  \/ \E x \in Request : /\ plan.assigned[x] # NoProvider
                        /\ k = Key("provider_assigned", x, plan.assigned[x])
  \/ \E x \in Request \ Ownerless : /\ plan.assigned[x] # NoProvider
                                    /\ k = Key("assignment_confirmed", x, NoProvider)
  \/ \E x \in Request : /\ plan.assigned[x] # NoProvider
                        /\ \E p \in Suitable[x] \ {plan.assigned[x]} :
                             k = Key("opportunity_closed", x, p)
  \/ \E q \in Quote : /\ plan.bidOn[q] \notin {NoRequest} \cup Ownerless
                      /\ k = Key("quote_received", plan.bidOn[q], q)

LEMMA FirstOutbox ==
  ASSUME TxInit
  PROVE  IF OutboxEnabled THEN \A k : k \in outbox <=> FirstKey(k) ELSE outbox = {}
<1> DEFINE A == UNION {{Key("request_created", r, NoProvider)}
                      \cup {Key("opportunity_invited", r, p) : p \in Suitable[r]} : r \in Request}
           B == UNION {{Key("provider_assigned", r, plan.assigned[r]),
                    Key("assignment_confirmed", r, NoProvider)}
                   \cup {Key("opportunity_closed", r, p) :
                            p \in Suitable[r] \ {plan.assigned[r]}} :
                   r \in {x \in Request : plan.assigned[x] # NoProvider}}
           C == {Key("quote_received", plan.bidOn[q], q) :
                   q \in {x \in Quote : plan.bidOn[x] # NoRequest}}
<1>1. outbox = IF ~OutboxEnabled THEN {} ELSE {k \in A \cup B \cup C : HasRecipient(k)}
  BY DEF TxInit
<1>2. \A k : k \in A <=>
     \/ \E x \in Request : k = Key("request_created", x, NoProvider)
     \/ \E x \in Request : \E p \in Suitable[x] : k = Key("opportunity_invited", x, p)
  OBVIOUS
<1>3. ASSUME NEW k
      PROVE  k \in B <=>
     \/ \E x \in Request : /\ plan.assigned[x] # NoProvider
                           /\ k = Key("provider_assigned", x, plan.assigned[x])
     \/ \E x \in Request : /\ plan.assigned[x] # NoProvider
                           /\ k = Key("assignment_confirmed", x, NoProvider)
     \/ \E x \in Request : /\ plan.assigned[x] # NoProvider
                           /\ \E p \in Suitable[x] \ {plan.assigned[x]} :
                                k = Key("opportunity_closed", x, p)
  OBVIOUS
<1>4. \A k : k \in C <=>
     \E q \in Quote : /\ plan.bidOn[q] # NoRequest
                      /\ k = Key("quote_received", plan.bidOn[q], q)
  OBVIOUS
<1> HIDE DEF A, B, C
<1>5. ASSUME NEW k
      PROVE  k \in A \cup B \cup C /\ HasRecipient(k) <=> FirstKey(k)
  <2>1. ASSUME k \in A
        PROVE  HasRecipient(k) <=>
                 \/ \E x \in Request \ Ownerless : k = Key("request_created", x, NoProvider)
                 \/ \E x \in Request : \E p \in Suitable[x] :
                      k = Key("opportunity_invited", x, p)
    BY <1>2, <2>1, Addressed DEF ToCustomer, Key
  <2>2. ASSUME k \in B
        PROVE  HasRecipient(k) <=>
                 \/ \E x \in Request : /\ plan.assigned[x] # NoProvider
                                       /\ k = Key("provider_assigned", x, plan.assigned[x])
                 \/ \E x \in Request \ Ownerless :
                      /\ plan.assigned[x] # NoProvider
                      /\ k = Key("assignment_confirmed", x, NoProvider)
                 \/ \E x \in Request : /\ plan.assigned[x] # NoProvider
                                       /\ \E p \in Suitable[x] \ {plan.assigned[x]} :
                                            k = Key("opportunity_closed", x, p)
    BY <1>3, <2>2, Addressed DEF ToCustomer, Key
  <2>3. ASSUME k \in C
        PROVE  HasRecipient(k) <=> \E q \in Quote :
                 /\ plan.bidOn[q] \notin {NoRequest} \cup Ownerless
                 /\ k = Key("quote_received", plan.bidOn[q], q)
    BY <1>4, <2>3, Addressed DEF ToCustomer, Key
  <2>4. FirstKey(k) => k \in A \cup B \cup C
    BY <1>2, <1>3, <1>4 DEF FirstKey
  <2>5. FirstKey(k) => HasRecipient(k)
    BY Addressed DEF FirstKey, ToCustomer
  <2>6. QED
    BY <2>1, <2>2, <2>3, <2>4, <2>5 DEF FirstKey
<1>6. QED
  BY <1>1, <1>5

(* The plan in force is one an instance may start from, so the first rows  *)
(* are as the atomic transactions leave them.                              *)
LEMMA FirstRows ==
  ASSUME TxInit
  PROVE  TypeOK /\ \A r \in Request : status[r] # "none"
<1>1. /\ plan.assigned \in [Request -> Provider \cup {NoProvider}]
      /\ plan.bidOn \in [Quote -> Request \cup {NoRequest}]
      /\ plan.bidder \in [Quote -> Provider \cup {NoProvider}]
      /\ \A q \in Quote : plan.bidOn[q] = NoRequest => plan.bidder[q] = NoProvider
  BY PlansAssumption DEF TxInit
<1>2. \A r \in Request : status[r] \in {"pending_dispatch", "assigned"}
  BY DEF TxInit
<1>3. outbox \subseteq NotificationKey
  <2>1. \A r \in Request : Suitable[r] \subseteq Provider
    BY SuitableAssumption
  <2>2. ASSUME NEW k \in outbox PROVE k \in NotificationKey
    <3>1. FirstKey(k)
      BY <2>2, FirstOutbox
    <3>2. QED
      BY <1>1, <2>1, <3>1, KeyTypes DEF FirstKey
  <2>3. QED
    BY <2>2
<1>4. RowsExist
  BY <1>1, <1>2, NullAssumption DEF TxInit, RowsExist
<1>5. opportunity \in [Request -> [Provider -> OpportunityStatus]]
  BY DEF TxInit, OpportunityStatus
<1>6. QED
  BY <1>1, <1>2, <1>3, <1>4, <1>5 DEF TxInit, TypeOK, Verification, RequestStatus, QuoteStatus,
     PaymentStatus, SessionState

(* Every quote is a live bid, of a suitable provider on an open request.   *)
LEMMA FirstBids ==
  ASSUME TxInit
  PROVE  /\ \A q \in Quote : quoteStatus[q] # "none" =>
              /\ quoteStatus[q] = "proposed"
              /\ quoteRequest[q] \in Request /\ assigned[quoteRequest[q]] = NoProvider
              /\ quoteBidder[q] \in Suitable[quoteRequest[q]] /\ quoteBidder[q] \in Provider
              /\ \A other \in Quote : quoteRequest[other] = quoteRequest[q]
                                      /\ quoteBidder[other] = quoteBidder[q] => other = q
         /\ \A q \in Quote : quoteStatus[q] = "none" <=> quoteRequest[q] = NoRequest
         /\ \A r \in Request, p \in Provider :
              IF p \notin Suitable[r] THEN opportunity[r][p] = "none"
              ELSE IF assigned[r] # NoProvider THEN opportunity[r][p] = "closed"
              ELSE IF \E q \in Quote : quoteRequest[q] = r /\ quoteBidder[q] = p
                THEN opportunity[r][p] = "quoted" ELSE opportunity[r][p] = "invited"
<1>1. /\ plan.bidOn \in [Quote -> Request \cup {NoRequest}]
      /\ \A q \in Quote :
           IF plan.bidOn[q] = NoRequest THEN plan.bidder[q] = NoProvider
           ELSE /\ plan.assigned[plan.bidOn[q]] = NoProvider
                /\ plan.bidder[q] \in Suitable[plan.bidOn[q]]
                /\ \A other \in Quote \ {q} :
                     plan.bidOn[other] = plan.bidOn[q] => plan.bidder[other] # plan.bidder[q]
  BY PlansAssumption DEF TxInit
<1>2. /\ quoteRequest = plan.bidOn /\ quoteBidder = plan.bidder /\ assigned = plan.assigned
      /\ \A q \in Quote : quoteStatus[q] = IF plan.bidOn[q] = NoRequest THEN "none" ELSE "proposed"
  BY DEF TxInit
<1>3. ASSUME NEW q \in Quote, quoteStatus[q] # "none"
      PROVE  /\ quoteStatus[q] = "proposed" /\ quoteRequest[q] \in Request
             /\ quoteRequest[q] # NoRequest
    BY <1>1, <1>2, <1>3
<1>4. ASSUME NEW q \in Quote, quoteStatus[q] # "none"
      PROVE  /\ quoteStatus[q] = "proposed"
             /\ quoteRequest[q] \in Request /\ assigned[quoteRequest[q]] = NoProvider
             /\ quoteBidder[q] \in Suitable[quoteRequest[q]] /\ quoteBidder[q] \in Provider
             /\ \A other \in Quote : quoteRequest[other] = quoteRequest[q]
                                     /\ quoteBidder[other] = quoteBidder[q] => other = q
  BY <1>1, <1>2, <1>3, <1>4, SuitableAssumption
<1>5. \A q \in Quote : quoteStatus[q] = "none" <=> quoteRequest[q] = NoRequest
  BY <1>2
<1>6. ASSUME NEW r \in Request, NEW p \in Provider
      PROVE  IF p \notin Suitable[r] THEN opportunity[r][p] = "none"
              ELSE IF assigned[r] # NoProvider THEN opportunity[r][p] = "closed"
              ELSE IF \E q \in Quote : quoteRequest[q] = r /\ quoteBidder[q] = p
                THEN opportunity[r][p] = "quoted" ELSE opportunity[r][p] = "invited"
  BY DEF TxInit
<1>7. QED
  BY <1>4, <1>5, <1>6

(* What has been told is what the plan says happened before.               *)
LEMMA FirstStory ==
  ASSUME TxInit
  PROVE  OutboxTellsTheStory
<1> SUFFICES ASSUME OutboxEnabled, NEW r \in Request PROVE Told(r)
  BY DEF OutboxTellsTheStory
<1>1. TypeOK
  BY FirstRows
<1>2. /\ quoteRequest = plan.bidOn /\ assigned = plan.assigned
  BY DEF TxInit
<1>3. \A k : k \in outbox <=> FirstKey(k)
  BY FirstOutbox
<1>4. ASSUME NEW p
      PROVE  /\ Key("opportunity_invited", r, p) \in outbox <=> p \in Suitable[r]
             /\ Key("provider_assigned", r, p) \in outbox
                  <=> p = assigned[r] /\ p # NoProvider
             /\ Key("opportunity_closed", r, p) \in outbox
                  <=> p \in Suitable[r] /\ p # assigned[r] /\ assigned[r] # NoProvider
  <2>1. Key("opportunity_invited", r, p) \in outbox <=> p \in Suitable[r]
    BY <1>2, <1>3 DEF FirstKey, Key
  <2>2. Key("provider_assigned", r, p) \in outbox <=> p = assigned[r] /\ p # NoProvider
    BY <1>2, <1>3 DEF FirstKey, Key
  <2>3. Key("opportunity_closed", r, p) \in outbox
          <=> p \in Suitable[r] /\ p # assigned[r] /\ assigned[r] # NoProvider
    BY <1>2, <1>3 DEF FirstKey, Key
  <2>4. QED
    BY <2>1, <2>2, <2>3
<1>5. /\ Key("assignment_confirmed", r, NoProvider) \in outbox
           <=> r \notin Ownerless /\ assigned[r] # NoProvider
      /\ Key("request_created", r, NoProvider) \in outbox <=> r \notin Ownerless
  BY <1>2, <1>3 DEF FirstKey, Key
<1>6. ASSUME NEW q \in Quote
      PROVE  Key("quote_received", r, q) \in outbox
               <=> r \notin Ownerless /\ quoteRequest[q] = r
  BY <1>2, <1>3, NullAssumption DEF FirstKey, Key
<1>10. ASSUME NEW s
      PROVE  Key("status_updated", r, s) \notin outbox
  BY <1>2, <1>3 DEF FirstKey, Key
<1>7. status[r] \notin NewStatus /\ status[r] # "none"
  BY DEF TxInit, NewStatus
<1>8. ASSUME NEW p \in Provider
      PROVE  /\ Key("provider_assigned", r, p) \in outbox <=> assigned[r] = p
             /\ Key("opportunity_invited", r, p) \in outbox <=> opportunity[r][p] # "none"
             /\ Key("opportunity_closed", r, p) \in outbox =>
                  opportunity[r][p] = "closed" /\ assigned[r] \notin {NoProvider, p}
  <2>1. opportunity[r][p] # "none" <=> p \in Suitable[r]
    BY FirstBids
  <2>2. p \in Suitable[r] /\ assigned[r] # NoProvider => opportunity[r][p] = "closed"
    BY FirstBids
  <2>3. QED
    BY <1>4, <2>1, <2>2, NullAssumption
<1>9. QED
  BY <1>5, <1>6, <1>10, <1>7, <1>8 DEF Told

LEMMA TxInitInv ==
  ASSUME TxInit
  PROVE  TxInv
<1>1. TypeOK /\ \A r \in Request : status[r] # "none"
  BY FirstRows
<1>2. OnePriceIsOwed
  BY FirstBids DEF TxInit, OnePriceIsOwed
<1>3. FlowsNeverMix
  BY FirstBids, NullAssumption, SuitableAssumption DEF FlowsNeverMix
<1>4. OpportunityTracksBid
  <2> SUFFICES ASSUME NEW r \in Request, NEW p \in Provider
               PROVE  /\ \A q1, q2 \in BidsOf(r, p) : q1 = q2
                      /\ opportunity[r][p] \in {"none", "invited"} => BidsOf(r, p) = {}
                      /\ opportunity[r][p] = "quoted" =>
                           \E q \in BidsOf(r, p) : quoteStatus[q] = "proposed"
                      /\ \A q \in BidsOf(r, p) : quoteStatus[q] = "proposed" =>
                           opportunity[r][p] \in {"quoted", "closed"}
    BY DEF OpportunityTracksBid
  <2>1. \A q \in BidsOf(r, p) : /\ q \in Quote /\ quoteRequest[q] = r /\ quoteBidder[q] = p
                                /\ quoteStatus[q] = "proposed" /\ assigned[r] = NoProvider
                                /\ p \in Suitable[r]
    BY FirstBids, NullAssumption DEF BidsOf, QuotesOf
  <2>2. \A q \in Quote : quoteRequest[q] = r /\ quoteBidder[q] = p => q \in BidsOf(r, p)
    BY DEF BidsOf, QuotesOf
  <2>3. \A q1, q2 \in BidsOf(r, p) : q1 = q2
    BY <2>1, FirstBids
  <2>4. BidsOf(r, p) # {} => opportunity[r][p] = "quoted"
    BY <2>1, FirstBids
  <2>5. opportunity[r][p] = "quoted" => \E q \in BidsOf(r, p) : quoteStatus[q] = "proposed"
    BY <2>1, <2>2, FirstBids
  <2>6. QED
    BY <2>3, <2>4, <2>5
<1>5. AssignmentIsAuthoritative
  <2>1. \A r \in Request :
          status[r] = IF assigned[r] = NoProvider THEN "pending_dispatch" ELSE "assigned"
    BY DEF TxInit
  <2>2. \A r \in Request, p \in Provider : assigned[r] # NoProvider => opportunity[r][p] # "quoted"
    BY FirstBids
  <2>3. \A r \in Request, p \in Provider : \A q \in BidsOf(r, p) :
          quoteStatus[q] = "proposed" /\ assigned[r] = NoProvider
    BY FirstBids, NullAssumption DEF BidsOf, QuotesOf
  <2>4. QED
    BY <2>1, <2>2, <2>3 DEF AssignmentIsAuthoritative, Dispatched
<1>6. StartedWorkIsAgreed
  BY DEF TxInit, StartedWorkIsAgreed
<1>7. TrackingIsConfined /\ NoEventIsSwallowed
  BY DEF TxInit, TrackingIsConfined, NoEventIsSwallowed
<1>8. LocksExclude
  <2>1. /\ plan \in Plans /\ tx = [i \in Connection |-> Idle] /\ held = [i \in Connection |-> {}]
    BY DEF TxInit
  <2>2. QED
    BY <1>1, <2>1 DEF LocksExclude
<1>9. QED
  BY <1>1, <1>2, <1>3, <1>4, <1>5, <1>6, <1>7, <1>8, FirstStory DEF TxInit, TxInv, IInv

-----------------------------------------------------------------------------
(* The theorems.                                                           *)

LEMMA TxStepInv ==
  ASSUME TxInv, [TxNext /\ UNCHANGED plan]_<<allVars, plan>>
  PROVE  TxInv'
<1>1. CASE UNCHANGED <<allVars, plan>>
  <2>1. UNCHANGED vars /\ tx' = tx /\ held' = held /\ plan' = plan
    BY <1>1 DEF allVars, txVars
  <2>2. IInv'
    BY <2>1, NextInv DEF TxInv
  <2>3. LocksExclude'
    BY <2>1, <2>2 DEF TxInv, LocksExclude, IInv
  <2>4. ASSUME NEW i \in Connection, tx'[i] # Idle
        PROVE  Sound(i)'
    BY <2>1, <2>4, Bystander DEF TxInv
  <2>5. QED
    BY <2>1, <2>2, <2>3, <2>4 DEF TxInv, vars
<1>2. ASSUME NEW k \in Connection, UNCHANGED plan,
             \/ Begin(k) \/ Locking(k) \/ Proceed(k) \/ Commit(k)
             \/ Refuse(k) \/ Fail(k) \/ Victim(k)
      PROVE  TxInv'
  <2>1. ASSUME Locking(k) PROVE TxInv'
    BY <1>2, <2>1, LockInv DEF Locking
  <2>2. ASSUME Refuse(k) \/ Fail(k) \/ Victim(k) PROVE TxInv'
    BY <1>2, <2>2, EndInv DEF Refuse, Fail, Victim
  <2>3. QED
    BY <1>2, <2>1, <2>2, BeginInv, ProceedInv, CommitInv
<1>3. QED
  BY <1>1, <1>2 DEF TxNext

(* The inductive invariant: under every interleaving of statements and     *)
(* locks, what each transaction under way has found out is still so when   *)
(* it commits, and the committed rows satisfy the safety of the lifecycle. *)
THEOREM TxInvariance == TxSpec => []TxInv
<1>1. TxInit => TxInv
  BY TxInitInv
<1>2. TxInv /\ [TxNext /\ Observe /\ UNCHANGED plan]_<<allVars, plan, seen>> => TxInv'
  BY TxStepInv
<1>3. QED
  BY <1>1, <1>2, PTL DEF TxSpec

(* The safety of the lifecycle holds of the rows the transactions commit:  *)
(* one price per request, flows that exclude each other, bids and          *)
(* opportunities that agree, an authoritative assignment, agreed work,     *)
(* confined tracking and a faithful outbox.                                *)
THEOREM RowsStaySound == TxSpec => []IInv
<1>1. TxInv => IInv
  BY DEF TxInv
<1>2. QED
  BY <1>1, TxInvariance, PTL

(* A step of a connection changes the rows as an atomic transaction does,  *)
(* or not at all.                                                          *)
LEMMA StepIsAtomic ==
  ASSUME TxInv, NEW k \in Connection,
         \/ Begin(k) \/ Locking(k) \/ Proceed(k) \/ Commit(k)
         \/ Refuse(k) \/ Fail(k) \/ Victim(k)
  PROVE  [Next \/ (Commit(k) /\ Chosen(k))]_vars
<1>1. ASSUME Commit(k) PROVE [Next \/ (Commit(k) /\ Chosen(k))]_vars
  BY <1>1, CommitIsAtomic DEF Atomically
<1>2. ASSUME \/ Begin(k) \/ Locking(k) \/ Proceed(k)
             \/ Refuse(k) \/ Fail(k) \/ Victim(k)
      PROVE  UNCHANGED vars
  BY <1>2 DEF Begin, Locking, Lock, Proceed, Refuse, Fail, Victim
<1>3. QED
  BY <1>1, <1>2

LEMMA StepIsStale ==
  ASSUME TxInv, [TxNext /\ UNCHANGED plan]_<<allVars, plan>>
  PROVE  [Next \/ StaleNext]_vars
<1>1. CASE UNCHANGED <<allVars, plan>>
  BY <1>1 DEF allVars
<1>2. CASE TxNext
  BY <1>2, StepIsAtomic, ChosenIsStale DEF TxNext
<1>3. QED
  BY <1>1, <1>2

(* History is final under every interleaving, too.                         *)
THEOREM TxHistoryFinal == TxSpec => HistoryIsFinal
<1>1. TxInv /\ [TxNext /\ Observe /\ UNCHANGED plan]_<<allVars, plan, seen>> => [HistoryStep]_vars
  BY StepIsStale, StepKeepsHistory DEF TxInv
<1>2. QED
  BY <1>1, TxInvariance, PTL DEF TxSpec, HistoryIsFinal

-----------------------------------------------------------------------------
(* When the providers chosen were eligible.                                *)

(* Together, at a moment the transaction has seen.                         *)
ChosenAmong(t, fits) ==
  /\ t.op = "assign" /\ t.at >= 3 => \E fit \in fits : t.p \in fit
  /\ t.op = "invite" /\ t.at >= 3 => \E fit \in fits : t.told \subseteq fit

SeenInv ==
  /\ seen \in [Connection -> SUBSET SUBSET Provider]
  /\ \A i \in Connection : tx[i] # Idle => ChosenAmong(tx[i], seen[i])

(* A connection that chooses sees more as it goes, the present included.   *)
LEMMA Observed ==
  ASSUME SeenInv, Observe, NEW i \in Connection, tx'[i] # Idle,
         tx'[i].op \in {"assign", "invite"}
  PROVE  /\ seen[i] \subseteq seen'[i]
         /\ {p \in Wishes(tx'[i]) : Fit(p)'} \in seen'[i]
BY DEF Observe, SeenInv

(* What has been seen of a transaction that goes on is not forgotten.      *)
LEMMA ChoiceKept ==
  ASSUME SeenInv, Observe, NEW i \in Connection, tx[i] # Idle, tx'[i] # Idle,
         tx'[i].op = tx[i].op, tx'[i].at = tx[i].at, tx'[i].p = tx[i].p,
         tx'[i].told = tx[i].told
  PROVE  ChosenAmong(tx'[i], seen'[i])
<1>1. ChosenAmong(tx[i], seen[i])
  BY DEF SeenInv
<1>2. CASE tx[i].op \in {"assign", "invite"}
  <2>1. seen[i] \subseteq seen'[i]
    BY <1>2, Observed
  <2>2. QED
    BY <1>1, <2>1 DEF ChosenAmong
<1>3. CASE tx[i].op \notin {"assign", "invite"}
  BY <1>3 DEF ChosenAmong
<1>4. QED
  BY <1>2, <1>3

(* The statement that reads the eligible providers sees them fit.          *)
LEMMA ChoiceMade ==
  ASSUME TxInv, SeenInv, Observe, NEW k \in Connection, Proceed(k)
  PROVE  ChosenAmong(tx'[k], seen'[k])
<1> DEFINE t == tx[k]
           u == tx'[k]
<1>1. /\ t # Idle /\ t \in Transaction /\ t.at <= Len(Program(t.op)) /\ Admits(t)
      /\ tx \in [Connection -> Transaction \cup {Idle}]
      /\ UNCHANGED vars
  BY DEF Proceed, Ready, TxInv, LocksExclude
<1>2. StatementTable(t)
  BY <1>1, Statements
<1>3. /\ u # Idle /\ u.op = t.op /\ u.p = t.p /\ u.r = t.r
      /\ u.at = t.at + 1 /\ u.told = Read(t) /\ u.at <= Len(Program(t.op))
  <2>1. PICK v : Moves(k, v)
    BY Moved
  <2>2. QED
    BY <2>1 DEF Moves
<1>4. ChosenAmong(t, seen[k])
  BY <1>1 DEF SeenInv
<1>5. \A p : Fit(p)' <=> Fit(p)
  BY <1>1 DEF vars, Fit
<1>6. t.op \in {"assign", "invite"} =>
        /\ seen[k] \subseteq seen'[k]
        /\ {p \in Wishes(u) : Fit(p)} \in seen'[k]
  BY <1>3, <1>5, Observed
<1> HIDE DEF t, u
<1>7. ASSUME t.op = "assign" PROVE ChosenAmong(u, seen'[k])
  <2>1. t.at \in 1 .. 6 /\ (t.at = 2 => Statement(t) = "eligible")
    BY <1>2, <1>7 DEF StatementTable
  <2>2. CASE t.at = 2
    <3>1. t.p \in Eligible(t.r)
      BY <1>1, <2>1, <2>2 DEF Admits, Assignable
    <3>2. t.p \in {p \in Wishes(u) : Fit(p)}
      BY <1>3, <1>7, <3>1 DEF Eligible, Wishes
    <3>3. QED
      BY <1>3, <1>6, <1>7, <3>2 DEF ChosenAmong
  <2>3. CASE t.at >= 3
    BY <1>3, <1>4, <1>6, <1>7, <2>3 DEF ChosenAmong
  <2>4. CASE t.at = 1
    BY <1>3, <1>7, <2>4 DEF ChosenAmong
  <2>5. QED
    BY <2>1, <2>2, <2>3, <2>4
<1>8. ASSUME t.op = "invite" PROVE ChosenAmong(u, seen'[k])
  <2>1. /\ t.at \in 1 .. 3 /\ u.at <= 3
        /\ (t.at = 2 => Statement(t) = "choose")
    BY <1>2, <1>3, <1>8 DEF StatementTable
  <2>2. CASE t.at = 2
    <3>1. u.told \subseteq Eligible(t.r)
      BY <1>3, <2>1, <2>2 DEF Read
    <3>2. u.told \subseteq {p \in Wishes(u) : Fit(p)}
      BY <1>3, <1>8, <3>1 DEF Eligible, Wishes
    <3>3. QED
      BY <1>3, <1>6, <1>8, <3>2 DEF ChosenAmong
  <2>3. CASE t.at = 1
    BY <1>3, <1>8, <2>3 DEF ChosenAmong
  <2>4. QED
    BY <1>3, <2>1, <2>2, <2>3
<1>9. ASSUME t.op \notin {"assign", "invite"} PROVE ChosenAmong(u, seen'[k])
  BY <1>3, <1>9 DEF ChosenAmong
<1>10. QED
  BY <1>7, <1>8, <1>9 DEF u

(* Whatever a connection does, its choice stays within what it has seen.   *)
LEMMA ChoiceSeen ==
  ASSUME TxInv, SeenInv, Observe, NEW k \in Connection, tx'[k] # Idle,
         \/ Begin(k) \/ Locking(k) \/ Proceed(k) \/ Commit(k)
         \/ Refuse(k) \/ Fail(k) \/ Victim(k)
  PROVE  ChosenAmong(tx'[k], seen'[k])
<1>1. ASSUME Begin(k) PROVE ChosenAmong(tx'[k], seen'[k])
  <2>1. PICK op \in plan.operations :
          /\ op \in {"stop", "sample"} => TrackingEnabled
          /\ \E t \in Calls(op) : tx' = [tx EXCEPT ![k] = At(t, 1)]
    BY <1>1 DEF Begin
  <2>2. PICK t \in Calls(op) : tx' = [tx EXCEPT ![k] = At(t, 1)]
    BY <2>1
  <2>3. /\ t \in Transaction /\ t.op = op /\ op \in Operations /\ WellCalled(t)
    BY <2>1, CallsTyped
  <2>4. 1 <= Len(Program(t.op))
    <3>1. t.op \in Operations
      BY <2>3
    <3>2. Len(Program(t.op)) \in 1 .. 7
      BY <3>1, ProgramLength
    <3>3. \A n \in 1 .. 7 : 1 <= n
      OBVIOUS
    <3>4. QED
      BY <3>2, <3>3
  <2>5. At(t, 1).at = 1
    BY <2>3, <2>4, AtStatement
  <2>6. tx'[k].at = 1
    BY <2>2, <2>5 DEF TxInv, LocksExclude
  <2>7. QED
    BY <2>6 DEF ChosenAmong
<1>2. ASSUME Locking(k) PROVE ChosenAmong(tx'[k], seen'[k])
  <2>1. PICK row \in tx[k].todo : Lock(k, row)
    BY <1>2 DEF Locking
  <2>2. tx[k] # Idle /\ tx[k] \in Transaction /\ tx \in [Connection -> Transaction \cup {Idle}]
    BY <2>1 DEF Lock, TxInv, LocksExclude
  <2>3. /\ tx'[k].op = tx[k].op /\ tx'[k].at = tx[k].at /\ tx'[k].p = tx[k].p
        /\ tx'[k].told = tx[k].told
    BY <2>1, <2>2 DEF Lock, Transaction
  <2>4. QED
    BY <2>2, <2>3, ChoiceKept
<1>3. ASSUME Commit(k) \/ Refuse(k) \/ Fail(k) \/ Victim(k) PROVE FALSE
  BY <1>3 DEF Commit, Refuse, Fail, Victim, End, TxInv, LocksExclude
<1>4. QED
  BY <1>1, <1>2, <1>3, ChoiceMade

LEMMA SeenStep ==
  ASSUME TxInv, SeenInv, [TxNext /\ Observe /\ UNCHANGED plan]_<<allVars, plan, seen>>
  PROVE  SeenInv'
<1>1. CASE UNCHANGED <<allVars, plan, seen>>
  BY <1>1 DEF SeenInv, allVars, txVars
<1>2. ASSUME Observe, UNCHANGED plan, NEW k \in Connection,
             \/ Begin(k) \/ Locking(k) \/ Proceed(k) \/ Commit(k)
             \/ Refuse(k) \/ Fail(k) \/ Victim(k)
      PROVE  SeenInv'
  <2>1. TxInv'
    BY <1>2, TxStepInv DEF TxNext
  <2>2. ASSUME NEW i \in Connection, tx'[i] # Idle, tx'[i].op \in {"assign", "invite"}
        PROVE  Wishes(tx'[i]) \subseteq Provider
    <3>1. tx'[i] \in Transaction /\ WellCalled(tx[i])'
      BY <2>1, <2>2 DEF TxInv, LocksExclude, Sound
    <3>2. tx'[i].op = "assign" => tx'[i].p \in Provider
      BY <3>1 DEF WellCalled, OnProvider
    <3>3. QED
      BY <2>2, <3>1, <3>2 DEF Wishes, Transaction
  <2>3. seen' \in [Connection -> SUBSET SUBSET Provider]
    BY <1>2, <2>2 DEF Observe, SeenInv
  <2>4. \A i \in Connection \ {k} : tx'[i] = tx[i]
    BY <1>2 DEF Begin, Locking, Lock, Proceed, Commit, Refuse, Fail, Victim, End, TxInv,
                LocksExclude
  <2>5. ASSUME NEW i \in Connection \ {k}, tx'[i] # Idle
        PROVE  ChosenAmong(tx'[i], seen'[i])
    BY <1>2, <2>4, <2>5, ChoiceKept
  <2>6. tx'[k] # Idle => ChosenAmong(tx'[k], seen'[k])
    BY <1>2, ChoiceSeen
  <2>7. QED
    BY <2>3, <2>5, <2>6 DEF SeenInv
<1>3. QED
  BY <1>1, <1>2 DEF TxNext

(* Every assignment and invitation under way has chosen providers that were *)
(* fit together at a moment since it began.                                *)
THEOREM ChoicesSeen == TxSpec => []SeenInv
<1>1. TxInit => SeenInv
  BY DEF TxInit, SeenInv
<1>2. TxInv /\ SeenInv /\ [TxNext /\ Observe /\ UNCHANGED plan]_<<allVars, plan, seen>>
        => SeenInv'
  BY SeenStep
<1>3. QED
  BY <1>1, <1>2, TxInvariance, PTL DEF TxSpec

(* Every transaction is at a statement of its program and locked rows      *)
(* exclude one another as PostgreSQL's row lock modes do.                  *)
THEOREM TxTypes == TxSpec => []TxTypeOK
<1>1. TxInv /\ SeenInv => TxTypeOK
  BY DEF TxInv, SeenInv, TxTypeOK
<1>2. QED
  BY <1>1, TxInvariance, ChoicesSeen, PTL

(* An assignment or an invitation commits providers that were eligible     *)
(* together while it ran.                                                  *)
LEMMA ChoiceCommitted ==
  ASSUME TxInv, SeenInv, NEW k \in Connection, Commit(k), Chosen(k)
  PROVE  CommitsChoice(k)
<1> DEFINE t == tx[k]
<1>1. Finished(k) /\ tx'[k] = Idle /\ tx[k] # Idle
  BY Finish DEF Commit, Ready, End, TxInv, LocksExclude
<1>2. StatementTable(t) /\ t.at = Len(Program(t.op))
  BY <1>1 DEF Finished
<1>3. ChosenAmong(t, seen[k])
  BY <1>1 DEF SeenInv
<1> HIDE DEF t
<1>4. CASE t.op = "assign"
  <2>1. t.at = 6
    BY <1>2, <1>4 DEF StatementTable
  <2>2. PICK fit \in seen[k] : t.p \in fit
    BY <1>3, <1>4, <2>1 DEF ChosenAmong
  <2>3. t.p \in Suitable[t.r] \cap fit /\ Assign(t.r, t.p)
    BY <1>4, <2>2 DEF Chosen, t
  <2>4. QED
    BY <1>1, <1>4, <2>2, <2>3 DEF CommitsChoice, t
<1>5. CASE t.op = "invite"
  <2>1. t.at = 3
    BY <1>2, <1>5 DEF StatementTable
  <2>2. PICK fit \in seen[k] : t.told \subseteq fit
    BY <1>3, <1>5, <2>1 DEF ChosenAmong
  <2>3. t.told \in SUBSET (Suitable[t.r] \cap fit) /\ InviteFound(t.r, t.told)
    BY <1>5, <2>2 DEF Chosen, t
  <2>4. QED
    BY <1>1, <1>5, <2>2, <2>3 DEF CommitsChoice, t
<1>6. QED
  BY <1>4, <1>5 DEF Chosen, t

(* The transactions are serializable in commit order: every commit of a    *)
(* transaction that ran statement by statement beside others is one step   *)
(* of the atomic transactions, and the providers an assignment or an       *)
(* invitation chose were eligible at a moment of that transaction.         *)
THEOREM Atomicity == TxSpec => CommitsAreAtomic
<1>1. ASSUME TxInv, SeenInv, [TxNext /\ Observe /\ UNCHANGED plan]_<<allVars, plan, seen>>
      PROVE  [Next \/ \E i \in Connection : CommitsChoice(i)]_vars
  <2>1. CASE UNCHANGED <<allVars, plan, seen>>
    BY <2>1 DEF allVars
  <2>2. CASE TxNext
    BY <1>1, <2>2, StepIsAtomic, ChoiceCommitted DEF TxNext
  <2>3. QED
    BY <1>1, <2>1, <2>2
<1>2. TxInv /\ SeenInv /\ [TxNext /\ Observe /\ UNCHANGED plan]_<<allVars, plan, seen>>
        => [Next \/ \E i \in Connection : CommitsChoice(i)]_vars
  BY <1>1
<1>3. QED
  BY <1>2, TxInvariance, ChoicesSeen, PTL DEF TxSpec, CommitsAreAtomic

-----------------------------------------------------------------------------
(* Which transaction waits for which.                                      *)

(* The n-th statement has all its rows.                                    *)
Got(t, n) == t.at > n \/ (t.at = n /\ t.todo = {})

(* The rows a statement still has to lock, by its name.                    *)
Wanted(t, row) ==
  \/ Statement(t) \in {"request", "event"} /\ row = RequestRow(t.r)
  \/ Statement(t) = "quote" /\ row = QuoteRow(t.q)
  \/ Statement(t) = "bids" /\ \E q \in Quote : row = QuoteRow(q) /\ quoteRequest[q] = t.r
  \/ /\ Statement(t) \in {"opportunity", "leave", "answer", "opportunities"}
     /\ \E p \in Provider : row = OpportunityRow(t.r, p)
  \/ Statement(t) \in {"provider", "award", "bid"} /\ row = ProviderRow(t.p)
  \/ /\ Statement(t) \in {"offer", "notify"} /\ (Statement(t) = "notify" => OutboxEnabled)
     /\ \E p \in Provider : row = ProviderRow(p)
  \/ Statement(t) = "session" /\ row = SessionRow(t.r)
  \/ /\ Statement(t) = "sessions"
     /\ \E r \in Request : /\ row = SessionRow(r)
                           /\ IF t.op = "suspend" THEN assigned[r] = t.p ELSE r = t.r
  \/ /\ Statement(t) = "positions"
     /\ \E r \in Request : row = PositionRow(r) /\ Stripped(t, r)

(* The providers' rows are locked FOR UPDATE by whoever has to find a fit  *)
(* provider, and kept from it, and for a foreign key by whoever names one. *)
ProviderLocked(t, mode) ==
  IF mode = "update"
    THEN \/ t.op \in Verifying
         \/ t.op \in {"approve", "reject"} /\ Got(t, 3)
         \/ t.op = "setOut" /\ Got(t, 2)
    ELSE t.op \in {"assign", "submit", "invite"} \/ (t.op = "approve" /\ t.at = 7)

OnTracking == {"sample", "complete", "cancel", "stop"}

(* What a lock is for: rows of the transaction's own request, providers,   *)
(* and what a suspension finds of its provider's requests.                 *)
Grounded(t, h, lock) ==
  \/ lock[1] = RequestRow(t.r) /\ t.op \notin Verifying
  \/ \E q \in Quote : lock[1] = QuoteRow(q) /\ quoteRequest[q] = t.r /\ t.op \notin Verifying
  \/ \E p \in Provider : lock[1] = OpportunityRow(t.r, p) /\ t.op \notin Verifying
  \/ \E p \in Provider : lock[1] = ProviderRow(p) /\ ProviderLocked(t, lock[2])
  \/ \E r \in Request :
       /\ lock[1] = SessionRow(r)
       /\ IF t.op = "suspend" THEN assigned[r] = t.p
                              ELSE t.op \in OnTracking /\ r = t.r /\ Got(t, 2)
  \/ \E r \in Request :
       /\ lock[1] = PositionRow(r)
       /\ IF t.op = "suspend" THEN t.at = 3 /\ Owns(h, SessionRow(r))
                              ELSE t.op \in OnTracking /\ r = t.r /\ Got(t, 3)

Placed(t, h) ==
  /\ \A row \in t.todo : Wanted(t, row)
  /\ \A lock \in h : Grounded(t, h, lock)
  /\ t.at = 1 /\ t.todo # {} => h = {}

WaitInv == \A i \in Connection : tx[i] # Idle => Placed(tx[i], held[i])

LEMMA TargetsWanted ==
  ASSUME NEW t \in Transaction, t.at <= Len(Program(t.op)), WellCalled(t), NEW row \in Target(t)
  PROVE  Wanted(t, row)
<1>1. Statement(t) \in StatementName /\ t.told \subseteq Provider
  BY StatementNamed DEF Transaction
<1>2. Statement(t) \in {"opportunity", "leave"} => t.p \in Provider
  BY StatementNamed
<1> USE DEF Wanted
<1>3. CASE Statement(t) \in {"request", "event", "quote", "provider", "award", "bid", "session"}
  BY <1>3 DEF Target
<1>4. CASE Statement(t) = "bids"
  BY <1>4 DEF Target, QuotesOf
<1>5. CASE Statement(t) \in {"opportunity", "leave"}
  BY <1>2, <1>5 DEF Target
<1>6. CASE Statement(t) = "answer"
  <2>1. \E x \in {t.p} \cap IF t.op = "close" THEN Open(t.r)
                              ELSE {y \in Provider : opportunity[t.r][y] = "quoted"} :
          row = OpportunityRow(t.r, x)
    BY <1>6 DEF Target
  <2>2. QED
    BY <1>6, <2>1 DEF Open
<1>7. CASE Statement(t) = "opportunities"
  BY <1>7 DEF Target, Open
<1>8. CASE Statement(t) = "offer"
  BY <1>1, <1>8 DEF Target
<1>9. CASE Statement(t) = "notify"
  <2>1. \E x \in Provider : OutboxEnabled /\ row = ProviderRow(x)
    BY <1>9 DEF Target
  <2>2. QED
    BY <1>9, <2>1
<1>10. CASE Statement(t) = "sessions"
  <2>1. \E x \in Request : Stops(t, x) /\ row = SessionRow(x)
    BY <1>10 DEF Target
  <2>2. QED
    BY <1>10, <2>1 DEF Stops
<1>11. CASE Statement(t) = "positions"
  <2>1. \E x \in Request : Stripped(t, x) /\ row = PositionRow(x)
    BY <1>11 DEF Target, Stripped
  <2>2. QED
    BY <1>11, <2>1
<1>12. CASE Statement(t) \in {"eligible", "losers", "fresh", "choose", "start", "live"}
  BY <1>12 DEF Target
<1>13. QED
  BY <1>1, <1>3, <1>4, <1>5, <1>6, <1>7, <1>8, <1>9, <1>10, <1>11, <1>12 DEF StatementName

(* A statement of one row has none left once that row is locked.           *)
LEMMA OneRowEach ==
  ASSUME NEW t \in Transaction, t.at <= Len(Program(t.op)), WellCalled(t),
         NEW row, Wanted(t, row), NEW other, Wanted(t, other),
         \/ t.at = 1
         \/ t.at = 2 /\ t.op \in {"setOut", "sample", "complete", "cancel", "stop"}
         \/ t.at = 3 /\ t.op \in {"approve", "reject", "sample", "complete", "cancel", "stop"}
  PROVE  row = other
<1>1. StatementTable(t) /\ t.op \in Operations
  BY Statements DEF Transaction
<1>2. Statement(t) \in {"request", "quote", "provider", "session"} \/
      (Statement(t) \in {"sessions", "positions"} /\ t.op # "suspend")
  BY <1>1 DEF StatementTable, Operations, Verifying
<1>3. CASE Statement(t) \in {"request", "quote", "provider", "session"}
  BY <1>3 DEF Wanted
<1>4. CASE Statement(t) \in {"sessions", "positions"} /\ t.op # "suspend"
  BY <1>4 DEF Wanted, Stripped
<1>5. QED
  BY <1>2, <1>3, <1>4

(* What the rows of a transaction are for stays so: a quote keeps its      *)
(* request and a request its provider.                                     *)
LEMMA PlacedSurvives ==
  ASSUME TxInv, NEW i \in Connection, tx[i] # Idle, Placed(tx[i], held[i]),
         tx'[i] = tx[i], held'[i] = held[i], HistoryStep \/ UNCHANGED vars
  PROVE  Placed(tx[i], held[i])'
<1> DEFINE t == tx[i]
           h == held[i]
<1>1. /\ \A q \in Quote : quoteRequest[q] = t.r /\ t.r \in Request => quoteRequest'[q] = quoteRequest[q]
      /\ \A r \in Request : assigned[r] = t.p /\ t.p \in Provider => assigned'[r] = assigned[r]
  BY NullAssumption DEF HistoryStep, vars, TxInv, LocksExclude, TypeOK, RowsExist
<1>2. WellCalled(t) /\ StatementTable(t) /\ t.op \in Operations
  BY Statements DEF TxInv, LocksExclude, Sound, Transaction
<1>3. t.op \notin Verifying => t.r \in Request
  BY <1>2 DEF WellCalled
<1>4. t.op = "suspend" => t.p \in Provider
  BY <1>2 DEF WellCalled, Verifying
<1>5. Statement(t) = "bids" => t.op \notin Verifying
  BY <1>2 DEF StatementTable
<1> HIDE DEF t, h
<1>6. tx'[i] = t /\ held'[i] = h /\ Placed(t, h)
  BY DEF t, h
<1>7. ASSUME NEW row, Wanted(t, row) PROVE Wanted(t, row)'
  BY <1>1, <1>3, <1>4, <1>5, <1>6, <1>7 DEF Wanted, Stripped, t
<1>8. ASSUME NEW lock, Grounded(t, h, lock) PROVE Grounded(t, h, lock)'
  BY <1>1, <1>3, <1>4, <1>6, <1>8 DEF Grounded, ProviderLocked, Got, Owns, t, h
<1>9. QED
  BY <1>6, <1>7, <1>8 DEF Placed, t, h

(* Only one transaction has to be looked at.                               *)
LEMMA OnePlaced ==
  ASSUME TxInv, WaitInv, NEW k \in Connection, HistoryStep \/ UNCHANGED vars,
         \A i \in Connection \ {k} : tx'[i] = tx[i] /\ held'[i] = held[i],
         tx'[k] # Idle => Placed(tx[k], held[k])'
  PROVE  WaitInv'
<1>1. ASSUME NEW i \in Connection, i # k, tx'[i] # Idle
      PROVE  Placed(tx[i], held[i])'
  BY <1>1, PlacedSurvives DEF WaitInv
<1>2. QED
  BY <1>1 DEF WaitInv

LEMMA BeginPlaced ==
  ASSUME TxInv, WaitInv, NEW k \in Connection, Begin(k)
  PROVE  WaitInv'
<1>1. PICK op \in plan.operations :
        /\ op \in {"stop", "sample"} => TrackingEnabled
        /\ \E t \in Calls(op) : tx' = [tx EXCEPT ![k] = At(t, 1)]
  BY DEF Begin
<1>2. PICK t \in Calls(op) : tx' = [tx EXCEPT ![k] = At(t, 1)]
  BY <1>1
<1>3. /\ t \in Transaction /\ t.op = op /\ op \in Operations /\ WellCalled(t)
      /\ t.at = 1 /\ t.todo = {} /\ t.hit = {}
  BY <1>1, CallsTyped
<1>4. 1 <= Len(Program(t.op))
  <2>1. t.op \in Operations
    BY <1>3
  <2>2. Len(Program(t.op)) \in 1 .. 7
    BY <2>1, ProgramLength
  <2>3. \A length \in 1 .. 7 : 1 <= length
    OBVIOUS
  <2>4. QED
    BY <2>2, <2>3
<1> DEFINE s == At(t, 1)
<1>5. PICK u \in Transaction :
        /\ u.at = 1 /\ u.op = t.op /\ u.r = t.r /\ u.p = t.p /\ u.q = t.q /\ u.hit = {}
        /\ s \in Transaction /\ s.at = 1 /\ s.todo = Target(u)
        /\ s.op = t.op /\ s.r = t.r /\ s.p = t.p /\ s.q = t.q /\ s.hit = {}
  BY <1>3, <1>4, AtStatement
<1>6. /\ tx'[k] = s /\ held' = held /\ UNCHANGED vars /\ held[k] = {}
      /\ \A i \in Connection \ {k} : tx'[i] = tx[i]
  BY <1>2 DEF Begin, TxInv, LocksExclude
<1> HIDE DEF s
<1>7. StatementTable(u) /\ WellCalled(u)
  BY <1>3, <1>4, <1>5, Statements DEF WellCalled
<1>8. ASSUME NEW row \in Target(u)
      PROVE  Wanted(tx[k], row)'
  <2>1. Wanted(u, row)
    BY <1>4, <1>5, <1>7, TargetsWanted
  <2>2. Statement(u) \in {"request", "quote", "provider"} /\ Statement(s) = Statement(u)
    BY <1>5, <1>7 DEF StatementTable, Statement, Operations, Transaction, Verifying
  <2>3. QED
    BY <1>5, <1>6, <2>1, <2>2 DEF Wanted
<1>9. Placed(tx[k], held[k])'
  BY <1>5, <1>6, <1>8 DEF Placed
<1>10. QED
  BY <1>6, <1>9, OnePlaced

LEMMA LockPlaced ==
  ASSUME TxInv, WaitInv, NEW k \in Connection, NEW row, Lock(k, row)
  PROVE  WaitInv'
<1> DEFINE t == tx[k]
           n == tx'[k]
           h == held[k]
           g == held'[k]
           new == <<row, LockMode(t)>>
<1>1. /\ t \in Transaction /\ t.at <= Len(Program(t.op)) /\ row \in t.todo
      /\ n.op = t.op /\ n.r = t.r /\ n.p = t.p /\ n.q = t.q /\ n.at = t.at
      /\ n.todo = t.todo \ {row} /\ t.hit \subseteq n.hit /\ g = h \cup {new}
      /\ \A i \in Connection \ {k} : tx'[i] = tx[i] /\ held'[i] = held[i]
  BY Locked DEF Takes
<1>2. UNCHANGED vars /\ tx[k] # Idle
  BY DEF Lock
<1>3. Placed(t, h) /\ Sound(k)
  BY <1>2 DEF WaitInv, TxInv
<1>4. WellCalled(t) /\ MatchesOwned(t, h) /\ StatementTable(t) /\ t.op \in Operations
  BY <1>1, <1>3, Statements DEF Sound, Transaction
<1> HIDE DEF t, n, h, g
<1>5. Statement(n) = Statement(t) /\ Statement(t) \in StatementName
  BY <1>1, <1>4, StatementNamed DEF Statement
<1>6. Wanted(t, row) /\ \A other \in t.todo : Wanted(t, other)
  BY <1>1, <1>3 DEF Placed
<1>7. (* no other row is left where the statement has one *)
      (\/ t.at = 1
       \/ t.at = 2 /\ t.op \in {"setOut", "sample", "complete", "cancel", "stop"}
       \/ t.at = 3 /\ t.op \in {"approve", "reject", "sample", "complete", "cancel", "stop"})
         => n.todo = {}
  BY <1>1, <1>4, <1>6, OneRowEach
<1>8. ASSUME NEW x, Wanted(t, x) PROVE Wanted(n, x)
  BY <1>1, <1>5, <1>8 DEF Wanted, Stripped
<1>9. ASSUME NEW lock \in h PROVE Grounded(n, g, lock)
  <2>1. Grounded(t, h, lock)
    BY <1>3 DEF Placed
  <2>2. \A m : Got(t, m) => Got(n, m)
    BY <1>1 DEF Got
  <2>3. \A r : Owns(h, r) => Owns(g, r)
    BY <1>1 DEF Owns
  <2>4. \A mode : ProviderLocked(t, mode) => ProviderLocked(n, mode)
    <3>1. Got(t, 2) => Got(n, 2)
      BY <2>2
    <3>2. Got(t, 3) => Got(n, 3)
      BY <2>2
    <3>3. t.op = n.op /\ t.at = n.at
      BY <1>1
    <3>4. QED
      BY <3>1, <3>2, <3>3 DEF ProviderLocked
  <2>5. n.op = t.op /\ n.r = t.r /\ n.p = t.p /\ n.at = t.at /\ (Got(t, 2) => Got(n, 2))
        /\ (Got(t, 3) => Got(n, 3))
    BY <1>1, <2>2
  <2>6. QED
    BY <2>1, <2>3, <2>4, <2>5 DEF Grounded
<1>10. Grounded(n, g, new)
  <2>1. new[1] = row /\ new[2] = LockMode(t)
    BY DEF new
  <2> HIDE DEF new
  <2>2. CASE Statement(t) \in {"request", "event"}
    <3>1. t.op \notin Verifying
      BY <1>4, <2>2 DEF StatementTable
    <3>2. row = RequestRow(t.r)
      BY <1>6, <2>2 DEF Wanted
    <3>3. QED
      BY <1>1, <2>1, <3>1, <3>2 DEF Grounded
  <2>3. CASE Statement(t) = "quote"
    <3>1. t.q \in Quote /\ quoteRequest[t.q] = t.r /\ t.op \notin Verifying
      BY <1>4, <2>3 DEF WellCalled, StatementTable, Operations, Verifying, OnBid
    <3>2. row = QuoteRow(t.q)
      BY <1>6, <2>3 DEF Wanted
    <3>3. QED
      BY <1>1, <2>1, <3>1, <3>2 DEF Grounded
  <2>4. CASE Statement(t) = "bids"
    <3>1. t.op \notin Verifying
      BY <1>4, <2>4 DEF StatementTable, Verifying
    <3>2. QED
      BY <1>1, <1>6, <2>1, <2>4, <3>1 DEF Wanted, Grounded
  <2>5. CASE Statement(t) \in {"opportunity", "leave", "answer", "opportunities"}
    <3>1. t.op \notin Verifying
      BY <1>4, <2>5 DEF StatementTable, Verifying
    <3>2. QED
      BY <1>1, <1>6, <2>1, <2>5, <3>1 DEF Wanted, Grounded
  <2>6. CASE Statement(t) \in {"provider", "award", "bid", "offer", "notify"}
    <3>1. \E p \in Provider : row = ProviderRow(p)
      <4>1. Statement(t) \in {"provider", "award", "bid"} => t.p \in Provider
        BY <1>1, <1>4, StatementNamed
      <4>2. QED
        BY <1>6, <2>6, <4>1 DEF Wanted
    <3>2. ProviderLocked(n, LockMode(t))
      <4>1. CASE Statement(t) = "provider"
        <5>1. LockMode(t) = "update"
          BY <4>1 DEF LockMode
        <5>2. \/ t.op \in Verifying
              \/ t.op \in {"approve", "reject"} /\ t.at = 3
              \/ t.op = "setOut" /\ t.at = 2
          <6>1. CASE t.op \in {"approve", "reject"}
            BY <1>4, <4>1, <6>1 DEF StatementTable
          <6>2. CASE t.op = "setOut"
            BY <1>4, <4>1, <6>2 DEF StatementTable
          <6>3. CASE t.op \in {"assign", "submit", "withdraw", "close", "invite"}
            BY <1>4, <4>1, <6>3 DEF StatementTable
          <6>4. CASE t.op \in {"work", "sample", "complete", "cancel", "stop"}
            BY <1>4, <4>1, <6>4 DEF StatementTable
          <6>5. QED
            BY <1>4, <6>1, <6>2, <6>3, <6>4 DEF Operations, Verifying
        <5>3. QED
          BY <1>1, <1>7, <5>1, <5>2 DEF ProviderLocked, Got
      <4>2. CASE Statement(t) \in {"award", "bid", "offer", "notify"}
        <5>1. LockMode(t) = "key"
          BY <4>2 DEF LockMode
        <5>2. t.op \in {"assign", "submit", "invite"} \/ (t.op = "approve" /\ t.at = 7)
          BY <1>4, <4>2 DEF StatementTable, Operations, Verifying
        <5>3. QED
          BY <1>1, <5>1, <5>2 DEF ProviderLocked
      <4>3. QED
        BY <2>6, <4>1, <4>2
    <3>3. QED
      BY <2>1, <3>1, <3>2 DEF Grounded
  <2>7. CASE Statement(t) \in {"session", "sessions"}
    <3>1. /\ t.op = "suspend" => Statement(t) = "sessions"
          /\ t.op # "suspend" =>
               \/ t.at = 2 /\ t.op \in {"sample", "complete", "cancel", "stop"}
               \/ t.op = "reactivate" /\ Statement(t) = "sessions" /\ t.r = NoRequest
      BY <1>4, <2>7 DEF StatementTable, Operations, Verifying, WellCalled
    <3>2. \E r \in Request : /\ row = SessionRow(r)
                             /\ IF t.op = "suspend" THEN assigned[r] = t.p ELSE r = t.r
      <4>1. Statement(t) = "session" => t.r \in Request
        BY <1>1, <1>4, StatementNamed
      <4>2. QED
        BY <1>6, <2>7, <3>1, <4>1 DEF Wanted
    <3>3. t.op # "suspend" => t.op \in OnTracking /\ Got(n, 2)
      <4>1. NoRequest \notin Request
        BY NullAssumption
      <4>2. QED
        BY <1>1, <1>7, <3>1, <3>2, <4>1 DEF Got, OnTracking
    <3>4. QED
      BY <1>1, <2>1, <3>2, <3>3 DEF Grounded
  <2>8. CASE Statement(t) = "positions"
    <3>1. PICK r \in Request : row = PositionRow(r) /\ Stripped(t, r)
      BY <1>6, <2>8 DEF Wanted
    <3>2. /\ t.op = "suspend" => Owns(g, SessionRow(r))
          /\ t.op # "suspend" => r = t.r
      BY <1>1, <1>4, <3>1 DEF MatchesOwned, Stripped, Owns
    <3>3. t.at = 3 /\ (t.op # "suspend" => t.op \in OnTracking /\ Got(n, 3))
      <4>1. t.at = 3
        BY <1>4, <2>8 DEF StatementTable, Operations, Verifying
      <4>2. t.op = "reactivate" => t.r \notin Request
        BY <1>4, NullAssumption DEF WellCalled, Verifying
      <4>3. t.op # "suspend" => t.op \in {"sample", "complete", "cancel", "stop"}
        BY <1>4, <2>8, <3>2, <4>2 DEF StatementTable, Operations, Verifying
      <4>4. QED
        BY <1>1, <1>7, <4>1, <4>3 DEF Got, OnTracking
    <3>4. QED
      BY <1>1, <2>1, <3>1, <3>2, <3>3 DEF Grounded
  <2>9. CASE Statement(t) \in {"eligible", "losers", "fresh", "choose", "start", "live"}
    BY <1>6, <2>9 DEF Wanted
  <2>10. QED
    BY <1>5, <2>2, <2>3, <2>4, <2>5, <2>6, <2>7, <2>8, <2>9 DEF StatementName
<1>11. Placed(n, g)
  <2>1. \A x \in n.todo : Wanted(n, x)
    BY <1>1, <1>6, <1>8
  <2>2. \A lock \in g : Grounded(n, g, lock)
    BY <1>1, <1>9, <1>10
  <2>3. n.at = 1 => n.todo = {}
    BY <1>1, <1>7
  <2>4. QED
    BY <2>1, <2>2, <2>3 DEF Placed
<1>12. Placed(tx[k], held[k])'
  <2>1. \A q \in Quote : quoteRequest'[q] = quoteRequest[q]
    BY <1>2 DEF vars
  <2>2. assigned' = assigned
    BY <1>2 DEF vars
  <2>3. QED
    BY <1>11, <2>1, <2>2 DEF Placed, Wanted, Grounded, ProviderLocked, Got, Owns, Stripped, n, g
<1>13. QED
  BY <1>1, <1>2, <1>12, OnePlaced

LEMMA ProceedPlaced ==
  ASSUME TxInv, WaitInv, NEW k \in Connection, Proceed(k)
  PROVE  WaitInv'
<1>1. PICK u : Moves(k, u)
  BY Moved
<1> DEFINE t == tx[k]
           n == tx'[k]
           h == held[k]
<1>2. /\ t.op = u.op /\ t.r = u.r /\ t.p = u.p /\ t.q = u.q /\ t.hit = u.hit
      /\ n.op = u.op /\ n.r = u.r /\ n.p = u.p /\ n.q = u.q /\ n.hit = u.hit
      /\ n.at = u.at /\ n.todo = Target(u) /\ t.todo = {} /\ u.at = t.at + 1
      /\ t.at \in 1 .. 7 /\ u.at \in 1 .. 7 /\ u.op \in Operations
      /\ u \in Transaction /\ u.at <= Len(Program(u.op))
      /\ t \in Transaction /\ t.at < Len(Program(t.op)) /\ t.at <= Len(Program(t.op))
      /\ held'[k] = h /\ UNCHANGED vars
      /\ \A i \in Connection \ {k} : tx'[i] = tx[i] /\ held'[i] = held[i]
  <2>1. t.at \in 1 .. 7 /\ Len(Program(t.op)) \in 1 .. 7 /\ t.at < Len(Program(t.op))
    BY <1>1, ProgramLength DEF Moves, Transaction
  <2>2. t.at <= Len(Program(t.op))
    BY <2>1
  <2>3. QED
    BY <1>1, <2>1, <2>2 DEF Moves, Transaction
<1>3. Placed(t, h) /\ WellCalled(t)
  BY DEF Proceed, Ready, WaitInv, TxInv, Sound
<1> HIDE DEF t, n, h
<1>4. WellCalled(u) /\ StatementTable(t)
  BY <1>2, <1>3, Statements DEF WellCalled
<1>5. Statement(n) = Statement(u)
  BY <1>2 DEF Statement
<1>6. ASSUME NEW row \in n.todo PROVE Wanted(n, row)
  <2>1. Wanted(u, row)
    BY <1>2, <1>4, TargetsWanted
  <2>2. QED
    BY <1>2, <1>5, <2>1 DEF Wanted, Stripped
<1>7. ASSUME NEW lock \in h PROVE Grounded(n, h, lock)
  <2>1. Grounded(t, h, lock)
    BY <1>3 DEF Placed
  <2>2. /\ Got(t, 2) => Got(n, 2)
        /\ Got(t, 3) => Got(n, 3)
    BY <1>2 DEF Got
  <2>3. t.op = "approve" => t.at # 7
    BY <1>2, <1>4 DEF StatementTable
  <2>4. t.op = "suspend" => t.at # 3
    <3>1. ASSUME t.op = "suspend" PROVE t.at # 3
      <4>1. Len(Program(t.op)) = 3
        BY <1>4, <3>1 DEF StatementTable, Verifying
      <4>2. t.at < 3
        BY <1>2, <4>1
      <4>3. QED
        BY <1>2, <4>2
    <3>2. QED
      BY <3>1
  <2>5. QED
    BY <1>2, <2>1, <2>2, <2>3, <2>4 DEF Grounded, ProviderLocked
<1>8. n.at # 1
  BY <1>2
<1>9. Placed(n, h)
  BY <1>6, <1>7, <1>8 DEF Placed
<1>10. Placed(tx[k], held[k])'
  <2>1. quoteRequest' = quoteRequest /\ assigned' = assigned
    BY <1>2 DEF vars
  <2>2. held'[k] = h
    BY <1>2
  <2>3. QED
    BY <1>9, <2>1, <2>2 DEF Placed, Wanted, Grounded, ProviderLocked, Got, Owns, Stripped, n
<1>11. QED
  BY <1>2, <1>10, OnePlaced

LEMMA WaitStep ==
  ASSUME TxInv, WaitInv, [TxNext /\ UNCHANGED plan]_<<allVars, plan>>
  PROVE  WaitInv'
<1>1. HistoryStep \/ UNCHANGED vars
  BY StepIsStale, StepKeepsHistory DEF TxInv
<1>2. CASE UNCHANGED <<allVars, plan>>
  BY <1>1, <1>2, PlacedSurvives DEF allVars, txVars, WaitInv
<1>3. ASSUME NEW k \in Connection,
             \/ Begin(k) \/ Locking(k) \/ Proceed(k) \/ Commit(k)
             \/ Refuse(k) \/ Fail(k) \/ Victim(k)
      PROVE  WaitInv'
  <2>1. ASSUME Locking(k) PROVE WaitInv'
    BY <2>1, LockPlaced DEF Locking
  <2>2. ASSUME Commit(k) \/ Refuse(k) \/ Fail(k) \/ Victim(k) PROVE WaitInv'
    <3>1. tx'[k] = Idle /\ \A i \in Connection \ {k} : tx'[i] = tx[i] /\ held'[i] = held[i]
      BY <2>2 DEF Commit, Refuse, Fail, Victim, End, TxInv, LocksExclude
    <3>2. QED
      BY <1>1, <3>1, OnePlaced
  <2>3. QED
    BY <1>3, <2>1, <2>2, BeginPlaced, ProceedPlaced
<1>4. QED
  BY <1>2, <1>3 DEF TxNext

(* In a circle that contains no smaller one everybody waits and is waited  *)
(* for.                                                                    *)
LEMMA CircleMembers ==
  ASSUME NEW D \in Deadlocks, NEW j \in D
  PROVE  /\ \E m \in D : WaitsFor(j, m)
         /\ \E i \in D : WaitsFor(i, j)
<1>1. /\ D \in SUBSET Connection /\ \A i \in D : \E m \in D : WaitsFor(i, m)
      /\ \A E \in SUBSET D : Circle(E) => E = D
  BY DEF Deadlocks, Circle
<1>2. ASSUME \A i \in D : ~WaitsFor(i, j)
      PROVE  FALSE
  <2> DEFINE E == D \ {j}
  <2>1. \A i \in E : \E m \in E : WaitsFor(i, m)
    BY <1>1, <1>2
  <2>2. E # {}
    <3>1. PICK m \in D : WaitsFor(j, m)
      BY <1>1
    <3>2. m # j
      BY <3>1 DEF WaitsFor, Blocks
    <3>3. QED
      BY <3>2
  <2>3. Circle(E)
    BY <2>1, <2>2 DEF Circle
  <2>4. QED
    BY <1>1, <2>3
<1>3. QED
  BY <1>1, <1>2

(* A wait is for a row that the other has locked, each for its purpose.    *)
LEMMA Waits ==
  ASSUME TxInv, WaitInv, NEW i \in Connection, NEW j \in Connection, tx[j] # Idle, WaitsFor(i, j)
  PROVE  /\ i # j /\ tx[i] # Idle
         /\ \E row \in tx[i].todo : \E lock \in held[j] :
              /\ lock[1] = row /\ Conflict(lock[2], LockMode(tx[i]))
              /\ Wanted(tx[i], row) /\ Grounded(tx[j], held[j], lock)
<1>1. /\ i # j /\ tx[i] # Idle
      /\ \E row \in tx[i].todo : \E lock \in held[j] :
           lock[1] = row /\ Conflict(lock[2], LockMode(tx[i]))
  BY DEF WaitsFor, Blocks
<1>2. Placed(tx[i], held[i]) /\ Placed(tx[j], held[j])
  BY <1>1 DEF WaitInv
<1>3. QED
  BY <1>1, <1>2 DEF Placed

(* Withdrawals aside, the rows are locked in one order: the request, its   *)
(* quotes and opportunities, providers, sessions, positions.  Only the     *)
(* providers' rows are locked in no order, and of those who hold one from  *)
(* the others only an approval asks for more.                              *)
LEMMA OrderedLocks ==
  ASSUME TxInv, WaitInv, NEW D \in Deadlocks, \A i \in D : tx[i].op # "withdraw"
  PROVE  /\ OutboxEnabled
         /\ \A i \in D : tx[i].op = "approve" /\ Statement(tx[i]) = "notify"
         /\ \A i, j \in D : i # j => tx[i].r # tx[j].r
<1>1. D \subseteq Connection /\ D # {}
  BY DEF Deadlocks, Circle
<1>2. ASSUME NEW i \in D
      PROVE  /\ tx[i] # Idle /\ tx[i].todo # {} /\ tx[i].at \in 2 .. 7
             /\ tx[i] \in Transaction /\ tx[i].at <= Len(Program(tx[i].op))
             /\ StatementTable(tx[i]) /\ tx[i].op \in Operations \ {"withdraw"}
             /\ WellCalled(tx[i]) /\ RowsSecured(tx[i], held[i]) /\ MatchesOwned(tx[i], held[i])
             /\ held[i] \in SUBSET (Row \X Mode)
  <2>1. tx[i] # Idle /\ tx[i].todo # {}
    BY CircleMembers DEF WaitsFor
  <2>2. held[i] # {}
    BY CircleMembers DEF WaitsFor, Blocks
  <2>3. tx[i].at # 1
    BY <1>1, <2>1, <2>2 DEF WaitInv, Placed
  <2>4. tx[i] \in Transaction /\ tx[i].at <= Len(Program(tx[i].op))
        /\ held[i] \in SUBSET (Row \X Mode)
    BY <1>1, <2>1 DEF TxInv, LocksExclude
  <2>5. tx[i].at \in 1 .. 7 /\ tx[i].op \in Operations
    BY <2>4 DEF Transaction
  <2>6. QED
    BY <1>1, <2>1, <2>3, <2>4, <2>5, Statements DEF TxInv, Sound
<1>3. ASSUME NEW i \in D
      PROVE  \E j \in D : /\ j # i
               /\ \E row \in tx[i].todo : \E lock \in held[j] :
                    /\ lock[1] = row /\ Conflict(lock[2], LockMode(tx[i]))
                    /\ Wanted(tx[i], row) /\ Grounded(tx[j], held[j], lock)
  <2>1. PICK j \in D : WaitsFor(i, j)
    BY CircleMembers
  <2>2. QED
    BY <1>1, <1>2, <2>1, Waits
<1>4. ASSUME NEW i \in D, NEW j \in D, i # j
      PROVE  /\ tx[i].op \notin Verifying /\ tx[j].op \notin Verifying => tx[i].r # tx[j].r
             /\ tx[i].op \in Verifying /\ tx[j].op \in Verifying => tx[i].p # tx[j].p
  <2>1. ASSUME NEW k \in D
        PROVE  /\ tx[k].op \notin Verifying => Owns(held[k], RequestRow(tx[k].r))
               /\ tx[k].op \in Verifying => Owns(held[k], ProviderRow(tx[k].p))
    <3>1. tx[k].at # 1 /\ RowsSecured(tx[k], held[k]) /\ tx[k].op \in Operations \ {"withdraw"}
      BY <1>2
    <3>2. QED
      BY <3>1 DEF RowsSecured, Secured, RequestFirst
  <2>2. \A row : ~(Owns(held[i], row) /\ Owns(held[j], row))
    BY <1>1, <1>4, OneOwner DEF TxInv
  <2>3. QED
    BY <2>1, <2>2
(* Nobody waits for a position: one is held last, or by a suspension that  *)
(* has the session, too.                                                   *)
<1>5. ASSUME NEW i \in D, Statement(tx[i]) = "positions"
      PROVE  \E j \in D : /\ j # i /\ tx[i].op # "suspend" /\ tx[j].op = "suspend"
                          /\ Statement(tx[j]) = "positions"
  <2>1. PICK j, row, lock :
          /\ j \in D /\ row \in tx[i].todo /\ lock \in held[j]
          /\ j # i /\ lock[1] = row /\ Wanted(tx[i], row) /\ Grounded(tx[j], held[j], lock)
    BY <1>3
  <2>2. PICK r \in Request : lock[1] = PositionRow(r) /\ Stripped(tx[i], r)
    BY <1>5, <2>1 DEF Wanted
  <2>3. IF tx[j].op = "suspend" THEN tx[j].at = 3 /\ Owns(held[j], SessionRow(r))
        ELSE tx[j].op \in OnTracking /\ r = tx[j].r /\ Got(tx[j], 3)
    BY <2>1, <2>2, Rows DEF Grounded
  <2>4. tx[j].op = "suspend"
    <3>1. tx[j].op \in OnTracking => tx[j].at <= 3
      <4>1. StatementTable(tx[j])
        BY <1>2, <2>1
      <4>2. QED
        BY <4>1 DEF StatementTable, OnTracking
    <3>2. tx[j].todo # {} /\ tx[j].at \in 2 .. 7
      BY <1>2, <2>1
    <3>3. QED
      BY <2>3, <3>1, <3>2 DEF Got
  <2>5. tx[i].op # "suspend"
    <3>1. tx[i].op = "suspend" => Owns(held[i], SessionRow(r))
      BY <1>2, <2>2 DEF MatchesOwned, Stripped
    <3>2. QED
      BY <1>1, <2>1, <2>3, <2>4, <3>1, OneOwner DEF TxInv
  <2>6. Statement(tx[j]) = "positions"
    <3>1. StatementTable(tx[j])
      BY <1>2, <2>1
    <3>2. QED
      BY <2>3, <2>4, <3>1 DEF StatementTable, Verifying
  <2>7. QED
    BY <2>1, <2>4, <2>5, <2>6
<1>6. ASSUME NEW i \in D
      PROVE  Statement(tx[i]) # "positions"
  BY <1>5
(* Nor for a session: one is held by whoever asks for no more than its     *)
(* position, or by a suspension, which has the provider to itself.         *)
<1>7. ASSUME NEW i \in D, Statement(tx[i]) \in {"session", "sessions"}
      PROVE  \E j \in D : /\ j # i /\ tx[i].op # "suspend" /\ tx[j].op = "suspend"
                          /\ Statement(tx[j]) = "sessions"
  <2>1. PICK j, row, lock :
          /\ j \in D /\ row \in tx[i].todo /\ lock \in held[j]
          /\ j # i /\ lock[1] = row /\ Wanted(tx[i], row) /\ Grounded(tx[j], held[j], lock)
    BY <1>3
  <2>2. PICK r \in Request : /\ lock[1] = SessionRow(r)
                             /\ tx[i].op = "suspend" => assigned[r] = tx[i].p
    <3>1. /\ Statement(tx[i]) = "session" => tx[i].r \in Request /\ tx[i].op # "suspend"
      BY <1>2, StatementNamed DEF StatementTable, Verifying
    <3>2. QED
      BY <1>7, <2>1, <3>1 DEF Wanted
  <2>3. IF tx[j].op = "suspend" THEN assigned[r] = tx[j].p
        ELSE tx[j].op \in OnTracking /\ r = tx[j].r /\ Got(tx[j], 2)
    BY <2>1, <2>2, Rows DEF Grounded
  <2>4. tx[j].op = "suspend"
    <3>1. tx[j].op \in OnTracking => tx[j].at \in 1 .. 3 /\ (tx[j].at = 3 => Statement(tx[j]) = "positions")
      <4>1. StatementTable(tx[j])
        BY <1>2, <2>1
      <4>2. QED
        BY <4>1 DEF StatementTable, OnTracking
    <3>2. tx[j].todo # {} /\ tx[j].at \in 2 .. 7
      BY <1>2, <2>1
    <3>3. QED
      BY <1>6, <2>1, <2>3, <3>1, <3>2 DEF Got
  <2>5. tx[i].op # "suspend"
    BY <1>4, <2>1, <2>2, <2>3, <2>4 DEF Verifying
  <2>6. Statement(tx[j]) = "sessions"
    <3>1. StatementTable(tx[j]) /\ tx[j].at \in 2 .. 7
      BY <1>2, <2>1
    <3>2. Statement(tx[j]) \in {"sessions", "positions"}
      BY <2>4, <3>1 DEF StatementTable, Verifying
    <3>3. QED
      BY <1>6, <2>1, <3>2
  <2>7. QED
    BY <2>1, <2>4, <2>5, <2>6
<1>8. ASSUME NEW i \in D
      PROVE  Statement(tx[i]) \notin {"session", "sessions", "positions"}
  BY <1>6, <1>7
(* Nor for what only transactions on one request lock.                     *)
<1>9. ASSUME NEW i \in D
      PROVE  /\ tx[i].op \notin Verifying
             /\ Statement(tx[i]) \notin {"request", "event"}
  <2>1. tx[i].op \in Verifying => tx[i].at \in 2 .. 3 /\ Statement(tx[i]) \in {"sessions", "positions"}
    BY <1>2 DEF StatementTable
  <2>2. tx[i].op \notin Verifying
    BY <1>8, <2>1
  <2>3. Statement(tx[i]) \notin {"request", "event"}
    BY <1>2, <2>2 DEF StatementTable, Operations, Verifying
  <2>4. QED
    BY <2>2, <2>3
<1>10. ASSUME NEW i \in D
       PROVE  /\ Statement(tx[i]) \in {"provider", "award", "bid", "offer", "notify"}
              /\ Statement(tx[i]) = "notify" => OutboxEnabled
              /\ \E j \in D : /\ j # i
                    /\ \E mode \in Mode : ProviderLocked(tx[j], mode) /\ Conflict(mode, LockMode(tx[i]))
  <2>1. PICK j, row, lock :
          /\ j \in D /\ row \in tx[i].todo /\ lock \in held[j]
          /\ j # i /\ lock[1] = row /\ Conflict(lock[2], LockMode(tx[i]))
          /\ Wanted(tx[i], row) /\ Grounded(tx[j], held[j], lock)
    BY <1>3
  <2>2. tx[i].r # tx[j].r
    BY <1>4, <1>9, <2>1
  <2>3. /\ Statement(tx[i]) \in StatementName
        /\ Statement(tx[i]) = "quote" => tx[i].q \in Quote /\ quoteRequest[tx[i].q] = tx[i].r
    <3>1. Statement(tx[i]) = "quote" => tx[i].op \in OnBid
      BY <1>2, <1>9 DEF StatementTable, Operations, OnBid, Verifying
    <3>2. QED
      BY <1>2, <3>1, StatementNamed DEF WellCalled
  <2>4. ~ \E q \in Quote : row = QuoteRow(q) /\ quoteRequest[q] = tx[i].r
    BY <2>1, <2>2, Rows DEF Grounded
  <2>5. ~ \E p \in Provider : row = OpportunityRow(tx[i].r, p)
    BY <2>1, <2>2, Rows DEF Grounded
  <2>6. /\ Statement(tx[i]) \in {"provider", "award", "bid", "offer", "notify"}
        /\ Statement(tx[i]) = "notify" => OutboxEnabled
    BY <1>8, <1>9, <2>1, <2>3, <2>4, <2>5 DEF Wanted
  <2>7. \E p : row = ProviderRow(p)
    BY <2>1, <2>6 DEF Wanted
  <2>8. ProviderLocked(tx[j], lock[2])
    BY <2>1, <2>7, Rows DEF Grounded
  <2>9. lock[2] \in Mode
    BY <1>2, <2>1
  <2>10. QED
    BY <2>1, <2>6, <2>8, <2>9
(* Whoever waits for a provider FOR UPDATE holds none yet.                 *)
<1>11. ASSUME NEW i \in D
       PROVE  Statement(tx[i]) # "provider"
  <2>1. PICK k \in D : WaitsFor(k, i)
    BY CircleMembers
  <2>2. PICK row \in tx[k].todo, lock \in held[i] :
          lock[1] = row /\ Wanted(tx[k], row) /\ Grounded(tx[i], held[i], lock)
    BY <1>1, <1>2, <2>1, Waits
  <2>3. \E p : row = ProviderRow(p)
    BY <1>10, <2>2 DEF Wanted
  <2>4. ProviderLocked(tx[i], lock[2])
    BY <2>2, <2>3, Rows DEF Grounded
  <2>5. Statement(tx[i]) = "provider" =>
          \/ tx[i].op \in {"approve", "reject"} /\ tx[i].at = 3
          \/ tx[i].op = "setOut" /\ tx[i].at = 2
    BY <1>2, <1>9 DEF StatementTable, Operations, Verifying
  <2>6. tx[i].todo # {} /\ tx[i].at \in 2 .. 7 /\ tx[i].op \notin Verifying
    BY <1>2, <1>9
  <2>7. QED
    BY <2>4, <2>5, <2>6 DEF ProviderLocked, Got
(* So everybody waits for a foreign key's sake, for somebody who holds a   *)
(* provider FOR UPDATE.                                                    *)
<1>12. ASSUME NEW i \in D
       PROVE  tx[i].op \in {"approve", "reject", "setOut"}
  <2>1. PICK k \in D : WaitsFor(k, i)
    BY CircleMembers
  <2>2. PICK row \in tx[k].todo, lock \in held[i] :
          /\ lock[1] = row /\ Conflict(lock[2], LockMode(tx[k]))
          /\ Wanted(tx[k], row) /\ Grounded(tx[i], held[i], lock)
    BY <1>1, <1>2, <2>1, Waits
  <2>3. Statement(tx[k]) \in {"award", "bid", "offer", "notify"}
    BY <1>10, <1>11
  <2>4. LockMode(tx[k]) = "key"
    BY <2>3 DEF LockMode
  <2>5. lock[2] = "update"
    BY <2>2, <2>4 DEF Conflict
  <2>6. \E p : row = ProviderRow(p)
    BY <2>2, <2>3 DEF Wanted
  <2>7. ProviderLocked(tx[i], "update")
    BY <2>2, <2>5, <2>6, Rows DEF Grounded
  <2>8. QED
    BY <1>9, <2>7 DEF ProviderLocked
<1>13. ASSUME NEW i \in D
       PROVE  tx[i].op = "approve" /\ Statement(tx[i]) = "notify"
  <2>1. Statement(tx[i]) \in {"award", "bid", "offer", "notify"}
    BY <1>10, <1>11
  <2>2. QED
    BY <1>2, <1>12, <2>1 DEF StatementTable
<1>14. OutboxEnabled
  BY <1>1, <1>10, <1>13
<1>15. QED
  BY <1>4, <1>9, <1>13, <1>14

(* The only deadlocks there are: one involves a withdrawal, or consists of *)
(* approvals on different requests that tell each other's winners.         *)
THEOREM DeadlocksKnown == TxSpec => []OnlyKnownDeadlocks
<1>1. TxInit => WaitInv
  BY DEF TxInit, WaitInv
<1>2. TxInv /\ WaitInv /\ [TxNext /\ Observe /\ UNCHANGED plan]_<<allVars, plan, seen>> => WaitInv'
  BY WaitStep
<1>3. TxInv /\ WaitInv => OnlyKnownDeadlocks
  BY OrderedLocks DEF OnlyKnownDeadlocks
<1>4. QED
  BY <1>1, <1>2, <1>3, TxInvariance, PTL DEF TxSpec

=============================================================================
