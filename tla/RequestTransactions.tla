------------------------ MODULE RequestTransactions ------------------------
(***************************************************************************)
(* The transactions of ServiceRequests one SQL statement and one row lock  *)
(* at a time, as PostgreSQL runs them under READ COMMITTED: a statement    *)
(* finds its rows in the last committed state, locks them one by one,      *)
(* looks at each again once it has it, and what a transaction writes shows *)
(* at its commit.  Locks are kept to the end.  When transactions wait for  *)
(* one another in a circle one of them is made the victim.                 *)
(*                                                                         *)
(* The variables of ServiceRequests are the committed rows.  Transactions  *)
(* whose only contended lock is the request's row (staff quotes, cash), or *)
(* one row of one statement (availability, creation), and retention, which *)
(* skips locked rows, are not repeated here.                               *)
(***************************************************************************)
EXTENDS ServiceRequests, Naturals, Sequences

CONSTANTS
  Connection,     \* the connections of the pool, each with one transaction at a time
  NoQuote,        \* the quote of a transaction on none
  Idle,           \* a connection without a transaction
  Plans           \* what an instance starts from and which operations it runs

Operations == {"assign", "approve", "reject", "submit", "withdraw", "close", "invite",
               "suspend", "reactivate", "setOut", "work", "complete", "cancel", "stop",
               "sample"}

(* assigned: per request the provider it starts dispatched to;             *)
(* bidOn and bidder: the bids there are, per quote, at most one of each    *)
(* provider on a request, which is what SubmitProviderQuote leaves.        *)
ASSUME PlansAssumption == \A x \in Plans :
  /\ x.operations \subseteq Operations /\ x.requests \subseteq Request /\ x.quotes \subseteq Quote
  /\ x.assigned \in [Request -> Provider \cup {NoProvider}]
  /\ x.bidOn \in [Quote -> Request \cup {NoRequest}]
  /\ x.bidder \in [Quote -> Provider \cup {NoProvider}]
  /\ \A q \in Quote :
       IF x.bidOn[q] = NoRequest THEN x.bidder[q] = NoProvider
       ELSE /\ x.assigned[x.bidOn[q]] = NoProvider /\ x.bidder[q] \in Suitable[x.bidOn[q]]
            /\ \A other \in Quote \ {q} :
                 x.bidOn[other] = x.bidOn[q] => x.bidder[other] # x.bidder[q]

VARIABLES
  tx,    \* per connection: its transaction, or Idle
  held,  \* per connection: the <<row, mode>> pairs it has locked
  plan,  \* the plan in force; it never changes
  seen   \* history, per connection that chooses providers: which of them
         \* were fit, at each moment since its transaction began

txVars == <<tx, held>>
allVars == <<vars, txVars>>

-----------------------------------------------------------------------------
(* Rows and locks.                                                         *)

RequestRow(r) == <<"request", r>>
QuoteRow(q) == <<"quote", q>>
OpportunityRow(r, p) == <<"opportunity", r, p>>
ProviderRow(p) == <<"provider", p>>
SessionRow(r) == <<"session", r>>
PositionRow(r) == <<"position", r>>

Row == {RequestRow(r) : r \in Request} \cup {QuoteRow(q) : q \in Quote}
       \cup {OpportunityRow(r, p) : r \in Request, p \in Provider}
       \cup {ProviderRow(p) : p \in Provider}
       \cup {SessionRow(r) : r \in Request} \cup {PositionRow(r) : r \in Request}

(* "update": FOR UPDATE or DELETE.  "write": UPDATE of columns that no     *)
(* foreign key refers to.  "key": a foreign key's check, on the row it     *)
(* refers to.                                                              *)
Mode == {"update", "write", "key"}
Conflict(m1, m2) == "update" \in {m1, m2} \/ (m1 = "write" /\ m2 = "write")

-----------------------------------------------------------------------------
(* A transaction: what it is about, the statement it is at, the rows that  *)
(* statement still has to lock, the rows it matched so far, and the        *)
(* providers it read to offer the request to or to tell that it is gone.   *)
Transaction ==
  [op : Operations, r : Request \cup {NoRequest}, p : Provider \cup {NoProvider},
   q : Quote \cup {NoQuote}, at : 1 .. 7, todo : SUBSET Row, hit : SUBSET Row,
   told : SUBSET Provider]

ASSUME NobodyAssumption == NoQuote \notin Quote /\ Idle \notin Transaction

Call(op, r, p, q, providers) ==
  [op |-> op, r |-> r, p |-> p, q |-> q, at |-> 1, todo |-> {}, hit |-> {},
   told |-> providers]

(* The statements of each operation that lock a row another transaction    *)
(* may hold, or that decide something.                                     *)

(* Faulty: the bids are reconciled before the request is locked.           *)
AssignFromBids == <<"eligible", "award", "bids", "request", "opportunities", "notify">>
AssignProgram  == <<"request", "eligible", "award", "bids", "opportunities", "notify">>

(* Faulty: only the quote is locked.                                       *)
ApproveUnserialized ==
  <<"quote", "provider", "bids", "losers", "opportunities", "notify">>
ApproveProgram ==
  <<"request", "quote", "provider", "bids", "losers", "opportunities", "notify">>

(* Faulty: the session is looked at without its lock.                      *)
SampleUnlocked == <<"request", "live", "positions">>
SampleProgram  == <<"request", "session", "positions">>

(* Without tracking the provider is not looked at.                         *)
SetOutProgram ==
  IF TrackingEnabled THEN <<"request", "provider", "start">> ELSE <<"request">>

Program(op) ==
  CASE op = "assign"   -> AssignProgram
    [] op = "approve"  -> ApproveProgram
    [] op = "reject"   -> <<"request", "quote", "provider", "answer">>
    [] op = "submit"   -> <<"request", "opportunity", "fresh", "bid">>
    [] op = "withdraw" -> <<"quote", "leave", "event">>
    [] op = "close"    -> <<"request", "answer">>
    [] op = "invite"   -> <<"request", "choose", "offer">>
    [] op = "setOut"   -> SetOutProgram
    [] op = "work"     -> <<"request">>
    [] op = "sample"   -> SampleProgram
    [] op \in {"suspend", "reactivate"} -> <<"provider", "sessions", "positions">>
    [] op \in {"complete", "cancel", "stop"} -> <<"request", "sessions", "positions">>

Statement(t) == Program(t.op)[t.at]

Stops(t, r) ==
  IF t.op = "suspend" THEN assigned[r] = t.p /\ session[r] = "active" /\ TrackingEnabled
  ELSE /\ r = t.r
       /\ \/ session[r] = "active"
          \/ t.op # "stop" /\ session[r] \in {"provider_suspended", "operations_emergency"}

(* The rows the statement's WHERE clause names in the committed state, or  *)
(* that its foreign keys refer to.                                         *)
Target(t) ==
  LET s == Statement(t)
  IN CASE s = "request"  -> {RequestRow(t.r)}
       [] s = "event"    -> {RequestRow(t.r)}
       [] s = "quote"    -> {QuoteRow(t.q)}
       [] s = "bids"     -> {QuoteRow(q) : q \in {x \in QuotesOf(t.r) \ StaffQuotes(t.r) :
                                                    quoteStatus[x] = "proposed" /\ x # t.q}}
       [] s = "opportunity"   -> {OpportunityRow(t.r, t.p)}
       [] s = "leave"         -> {OpportunityRow(t.r, t.p)}
       [] s = "answer"        -> {OpportunityRow(t.r, p) : p \in
                                    {t.p} \cap IF t.op = "close" THEN Open(t.r)
                                      ELSE {x \in Provider : opportunity[t.r][x] = "quoted"}}
       [] s = "opportunities" -> {OpportunityRow(t.r, p) : p \in Open(t.r)}
       [] s \in {"provider", "award", "bid"} -> {ProviderRow(t.p)}
       [] s = "offer"    -> {ProviderRow(p) : p \in t.told}
       [] s = "notify"   -> {ProviderRow(p) : p \in {x \in Provider : OutboxEnabled
                               /\ (x \in t.told \/ OpportunityRow(t.r, x) \in t.hit)}}
       [] s = "session"  -> {SessionRow(t.r)}
       [] s = "sessions" -> {SessionRow(r) : r \in {x \in Request : Stops(t, x)}}
       [] s = "positions" -> {PositionRow(r) : r \in {x \in Request : position[x]
                                /\ IF t.op = "suspend" THEN SessionRow(x) \in t.hit
                                                       ELSE x = t.r}}
       [] s \in {"eligible", "losers", "fresh", "choose", "start", "live"} -> {}

LockMode(t) ==
  LET s == Statement(t)
  IN CASE s \in {"request", "quote", "provider", "opportunity", "session"} -> "update"
       [] s = "positions" /\ t.op # "sample" -> "update"
       [] s \in {"event", "award", "bid", "offer", "notify"} -> "key"
       [] OTHER -> "write"

(* Faulty: only the specialty of the provider is looked at.                *)
AssignableBySpecialty(t) == t.p \in Suitable[t.r]

Assignable(t) == t.p \in Eligible(t.r)

(* What the code requires once the statement has its rows.                 *)
RequestAdmits(t) ==
  CASE t.op \in {"assign", "submit"} -> status[t.r] = "pending_dispatch"
    [] t.op = "invite"   -> status[t.r] \notin {"completed", "cancelled"}
    [] t.op = "setOut"   -> status[t.r] = "assigned" /\ assigned[t.r] = t.p
    [] t.op = "sample"   -> status[t.r] \in Tracked /\ assigned[t.r] = t.p
    [] t.op = "work"     -> status[t.r] = "on_the_way" /\ ServiceMayStart(t.r)
    [] t.op = "complete" -> status[t.r] = "in_progress"
    [] t.op = "cancel"   -> status[t.r] \in AllowedPrevious("cancelled")
    [] OTHER -> TRUE

Admits(t) ==
  LET s == Statement(t)
  IN CASE s = "request"  -> RequestAdmits(t)
       [] s = "quote"    -> /\ quoteStatus[t.q] = "proposed"
                            /\ t.op = "approve" => status[t.r] = "pending_dispatch"
       [] s = "provider" -> CASE t.op = "suspend"    -> verification[t.p] = "verified"
                              [] t.op = "reactivate" -> verification[t.p] = "suspended"
                              [] OTHER -> Fit(t.p)
       [] s = "eligible" -> Assignable(t)
       [] s = "opportunity" -> t.p \in Open(t.r)
       [] s = "fresh"    -> NoActive(StaffQuotes(t.r)) /\ NoActive(BidsOf(t.r, t.p))
       [] s = "choose"   -> NoActive(QuotesOf(t.r))
       [] s = "start"    -> session[t.r] \in {"none", "active"}
       [] s \in {"session", "live"} -> session[t.r] = "active"
       [] OTHER -> TRUE

(* What the statement reads for later ones.                                *)
Read(t) ==
  CASE Statement(t) = "losers" -> Open(t.r)
    [] Statement(t) = "choose" -> {p \in t.told \cap Eligible(t.r) : opportunity[t.r][p] = "none"}
    [] OTHER -> t.told

-----------------------------------------------------------------------------
(* Commits: what the transaction wrote becomes the committed state.        *)

CommitAward(t) ==
  LET won == IF t.op = "approve" THEN {t.q} ELSE {}
      closed == {x \in Provider : OpportunityRow(t.r, x) \in t.hit}
      losers == IF t.op = "approve" THEN t.told ELSE closed
  IN  /\ t.op \in {"assign", "approve"}
      /\ assigned' = [assigned EXCEPT ![t.r] = t.p]
      /\ status' = [status EXCEPT ![t.r] = "assigned"]
      /\ quoteStatus' = [q \in Quote |->
           IF q \in won THEN "approved"
           ELSE IF QuoteRow(q) \in t.hit THEN "rejected" ELSE quoteStatus[q]]
      /\ payment' = [q \in Quote |->
           IF q \in won /\ payment[q] = "none" THEN "cash_due" ELSE payment[q]]
      /\ opportunity' = [opportunity EXCEPT ![t.r] =
           [x \in Provider |-> IF x \in closed THEN "closed" ELSE @[x]]]
      /\ Enqueue({Key("provider_assigned", t.r, t.p),
                  Key("assignment_confirmed", t.r, NoProvider)}
                 \cup {Key("opportunity_closed", t.r, x) : x \in losers \ {t.p}})
      /\ UNCHANGED <<providerVars, quoteRequest, quoteBidder, trackingVars>>

(* Rejection, withdrawal and closing; an opportunity that the statement    *)
(* did not match stays as it is.                                           *)
CommitEndOfBid(t) ==
  LET row == OpportunityRow(t.r, t.p)
      new == CASE t.op = "reject" -> "rejected"
               [] t.op = "withdraw" -> "withdrawn"
               [] t.op = "close" -> "closed"
  IN  /\ t.op \in {"reject", "withdraw", "close"}
      /\ quoteStatus' = [q \in Quote |-> IF q = t.q THEN new ELSE quoteStatus[q]]
      /\ IF row \in t.hit THEN SetOpportunity(t.r, t.p, new) ELSE UNCHANGED opportunity
      /\ UNCHANGED <<providerVars, dispatchVars, quoteRequest, quoteBidder, payment,
                     trackingVars, outboxVars>>

CommitSubmit(t) ==
  /\ t.op = "submit"
  /\ InsertQuote(t.q, t.r, t.p)
  /\ SetOpportunity(t.r, t.p, "quoted")
  /\ Enqueue({Key("quote_received", t.r, t.q)})
  /\ UNCHANGED <<providerVars, dispatchVars, trackingVars>>

CommitInvite(t) ==
  /\ t.op = "invite"
  /\ Invite(t.r, t.told)
  /\ UNCHANGED <<providerVars, dispatchVars, quoteVars, payment, trackingVars>>

(* The sessions it stopped and the positions it deleted.                   *)
Stopped(t, reason) ==
  /\ session' = [r \in Request |-> IF SessionRow(r) \in t.hit THEN reason ELSE session[r]]
  /\ position' = [r \in Request |-> IF PositionRow(r) \in t.hit THEN FALSE ELSE position[r]]

CommitVerification(t) ==
  /\ t.op \in {"suspend", "reactivate"}
  /\ verification' = [verification EXCEPT ![t.p] =
       IF t.op = "suspend" THEN "suspended" ELSE "verified"]
  /\ available' = [available EXCEPT ![t.p] = (t.op = "reactivate")]
  /\ Stopped(t, "provider_suspended")
  /\ UNCHANGED <<dispatchVars, opportunity, quoteVars, payment, outboxVars>>

CommitStatus(t) ==
  LET new == CASE t.op = "setOut" -> "on_the_way"
               [] t.op = "work" -> "in_progress"
               [] t.op = "complete" -> "completed"
               [] t.op = "cancel" -> "cancelled"
  IN  /\ t.op \in {"setOut", "work", "complete", "cancel"}
      /\ status' = [status EXCEPT ![t.r] = new]
      /\ Enqueue({Key("status_updated", t.r, new)})
      /\ IF t.op = "setOut" /\ TrackingEnabled
           THEN session' = [session EXCEPT ![t.r] = "active"] /\ UNCHANGED position
           ELSE Stopped(t, new)
      /\ UNCHANGED <<providerVars, assigned, opportunity, quoteVars, payment>>

CommitStop(t) ==
  /\ t.op = "stop"
  /\ Stopped(t, "operations_emergency")
  /\ UNCHANGED <<providerVars, dispatchVars, opportunity, quoteVars, payment, outboxVars>>

CommitSample(t) ==
  /\ t.op = "sample"
  /\ position' = [position EXCEPT ![t.r] = TRUE]
  /\ UNCHANGED <<providerVars, dispatchVars, opportunity, quoteVars, payment, session,
                 outboxVars>>

-----------------------------------------------------------------------------
(* What a connection does.                                                 *)

At(t, n) == LET s == [t EXCEPT !.at = n] IN [s EXCEPT !.todo = Target(s)]

(* A submitted quote takes an id nobody has taken, and a customer's answer *)
(* finds a quote of the customer's own request only.                       *)
FreshQuotes == {q \in plan.quotes : quoteStatus[q] = "none"
                             /\ \A i \in Connection : tx[i] # Idle => tx[i].q # q}

Calls(op) ==
  CASE op \in {"assign", "close", "setOut", "sample"} ->
         {Call(op, r, p, NoQuote, {}) : r \in plan.requests, p \in Provider}
    [] op \in {"approve", "reject", "withdraw"} ->
         {Call(op, quoteRequest[q], quoteBidder[q], q, {}) :
            q \in {x \in plan.quotes : /\ quoteBidder[x] # NoProvider
                                       /\ op # "withdraw" => quoteRequest[x] \notin Ownerless}}
    [] op = "submit" ->
         {Call(op, r, p, q, {}) : r \in plan.requests, p \in Provider, q \in FreshQuotes}
    [] op = "invite" ->
         {Call(op, r, NoProvider, NoQuote, providers) :
            r \in plan.requests, providers \in SUBSET Provider}
    [] op \in {"suspend", "reactivate"} ->
         {Call(op, NoRequest, p, NoQuote, {}) : p \in Provider}
    [] op \in {"work", "complete", "cancel", "stop"} ->
         {Call(op, r, NoProvider, NoQuote, {}) : r \in plan.requests}

Begin(i) ==
  /\ tx[i] = Idle
  /\ \E op \in plan.operations :
       /\ op \in {"stop", "sample"} => TrackingEnabled
       /\ \E t \in Calls(op) : tx' = [tx EXCEPT ![i] = At(t, 1)]
  /\ UNCHANGED <<vars, held>>

Blocks(j, i, row) ==
  /\ j # i
  /\ \E lock \in held[j] : lock[1] = row /\ Conflict(lock[2], LockMode(tx[i]))

(* The row is taken, and counts as matched if it still is what the         *)
(* statement looked for.                                                   *)
Lock(i, row) ==
  /\ tx[i] # Idle /\ row \in tx[i].todo
  /\ \A j \in Connection : ~Blocks(j, i, row)
  /\ held' = [held EXCEPT ![i] = @ \cup {<<row, LockMode(tx[i])>>}]
  /\ LET t == tx[i]
     IN  tx' = [tx EXCEPT ![i] = [t EXCEPT !.todo = t.todo \ {row},
                                           !.hit = t.hit \cup (Target(t) \cap {row})]]
  /\ UNCHANGED vars

Ready(i) == tx[i] # Idle /\ tx[i].todo = {}

Proceed(i) ==
  /\ Ready(i)
  /\ Admits(tx[i])
  /\ tx[i].at < Len(Program(tx[i].op))
  /\ tx' = [tx EXCEPT ![i] = At([@ EXCEPT !.told = Read(tx[i])], tx[i].at + 1)]
  /\ UNCHANGED <<vars, held>>

(* Faulty: the connection goes back to the pool without ROLLBACK or COMMIT. *)
EndHolding(i) ==
  /\ tx' = [tx EXCEPT ![i] = Idle]
  /\ UNCHANGED held

End(i) ==
  /\ tx' = [tx EXCEPT ![i] = Idle]
  /\ held' = [held EXCEPT ![i] = {}]

Commit(i) ==
  /\ Ready(i)
  /\ Admits(tx[i])
  /\ tx[i].at = Len(Program(tx[i].op))
  /\ \/ CommitAward(tx[i])
     \/ CommitEndOfBid(tx[i])
     \/ CommitSubmit(tx[i])
     \/ CommitInvite(tx[i])
     \/ CommitVerification(tx[i])
     \/ CommitStatus(tx[i])
     \/ CommitStop(tx[i])
     \/ CommitSample(tx[i])
  /\ End(i)

Refuse(i) ==
  /\ Ready(i)
  /\ ~Admits(tx[i])
  /\ End(i)
  /\ UNCHANGED vars

(* An error of the driver, a lost connection, a crash of the process.      *)
Fail(i) ==
  /\ tx[i] # Idle
  /\ End(i)
  /\ UNCHANGED vars

WaitsFor(i, j) == tx[i] # Idle /\ \E row \in tx[i].todo : Blocks(j, i, row)

(* Connections that wait for one another, and none of them for fewer.      *)
Circle(D) == D # {} /\ \A i \in D : \E j \in D : WaitsFor(i, j)
Deadlocks == {D \in SUBSET Connection :
                Circle(D) /\ \A E \in SUBSET D : Circle(E) => E = D}

(* Faulty: nobody breaks the circle.                                       *)
NoVictim(i) == FALSE /\ UNCHANGED allVars

Victim(i) ==
  /\ \E D \in Deadlocks : i \in D
  /\ End(i)
  /\ UNCHANGED vars

-----------------------------------------------------------------------------
(* A market under way: every provider is fit and was invited to every      *)
(* request it suits; some have bid, and some requests are dispatched.      *)

TxInit ==
  /\ plan \in Plans
  /\ verification = [p \in Provider |-> "verified"]
  /\ available = [p \in Provider |-> TRUE]
  /\ status = [r \in Request |->
       IF plan.assigned[r] = NoProvider THEN "pending_dispatch" ELSE "assigned"]
  /\ assigned = plan.assigned
  /\ opportunity = [r \in Request |-> [p \in Provider |->
       IF p \notin Suitable[r] THEN "none"
       ELSE IF plan.assigned[r] # NoProvider THEN "closed"
       ELSE IF \E q \in Quote : plan.bidOn[q] = r /\ plan.bidder[q] = p THEN "quoted"
       ELSE "invited"]]
  /\ quoteStatus = [q \in Quote |-> IF plan.bidOn[q] = NoRequest THEN "none" ELSE "proposed"]
  /\ quoteRequest = plan.bidOn
  /\ quoteBidder = plan.bidder
  /\ payment = [q \in Quote |-> "none"]
  /\ session = [r \in Request |-> "none"]
  /\ position = [r \in Request |-> FALSE]
  /\ outbox = IF ~OutboxEnabled THEN {} ELSE {key \in
       (UNION {{Key("request_created", r, NoProvider)}
               \cup {Key("opportunity_invited", r, p) : p \in Suitable[r]} : r \in Request})
       \cup (UNION {{Key("provider_assigned", r, plan.assigned[r]),
                     Key("assignment_confirmed", r, NoProvider)}
                    \cup {Key("opportunity_closed", r, p) :
                             p \in Suitable[r] \ {plan.assigned[r]}} :
                    r \in {x \in Request : plan.assigned[x] # NoProvider}})
       \cup {Key("quote_received", plan.bidOn[q], q) :
               q \in {x \in Quote : plan.bidOn[x] # NoRequest}} : HasRecipient(key)}
  /\ swallowed = {}
  /\ tx = [i \in Connection |-> Idle]
  /\ held = [i \in Connection |-> {}]
  /\ seen = [i \in Connection |-> {}]

Locking(i) == tx[i] # Idle /\ \E row \in tx[i].todo : Lock(i, row)

TxNext == \E i \in Connection :
  Begin(i) \/ Locking(i) \/ Proceed(i) \/ Commit(i) \/ Refuse(i) \/ Fail(i) \/ Victim(i)

(* The providers a transaction means to choose.                            *)
Wishes(t) ==
  CASE t.op = "assign" -> {t.p}
    [] t.op = "invite" -> t.told

Observe ==
  seen' = [i \in Connection |->
    IF tx'[i] # Idle /\ tx'[i].op \in {"assign", "invite"}
      THEN seen[i] \cup {{p \in Wishes(tx'[i]) : Fit(p)'}} ELSE {}]

TxSpec == TxInit /\ [][TxNext /\ Observe /\ UNCHANGED plan]_<<allVars, plan, seen>>

(* Row locks are granted in the order they were asked for, so a waiter is  *)
(* not overtaken for ever; the code issues its statements one after the    *)
(* other; the deadlock detector runs.                                      *)
Fairness == \A i \in Connection :
  /\ SF_allVars(Locking(i))
  /\ WF_allVars(Proceed(i) \/ Commit(i) \/ Refuse(i))
  /\ WF_allVars(Victim(i))

FairTxSpec == TxSpec /\ Fairness

-----------------------------------------------------------------------------
(* Transactions are at a statement of their program, and locks exclude one *)
(* another.                                                                *)
LocksExclude ==
  /\ TypeOK
  /\ plan \in Plans
  /\ tx \in [Connection -> Transaction \cup {Idle}]
  /\ held \in [Connection -> SUBSET (Row \X Mode)]
  /\ \A i \in Connection : IF tx[i] = Idle THEN held[i] = {}
                                           ELSE tx[i].at <= Len(Program(tx[i].op))
  /\ \A i, j \in Connection : i # j =>
       \A a \in held[i], b \in held[j] : a[1] = b[1] => ~Conflict(a[2], b[2])

(* The type invariant, with the exclusion of the locks.                    *)
TxTypeOK == LocksExclude /\ seen \in [Connection -> SUBSET SUBSET Provider]

(* i commits a choice among the providers it suits that were fit together  *)
(* at some moment of its transaction.                                      *)
CommitsChoice(i) ==
  \E fit \in seen[i] :
    LET found == Suitable[tx[i].r] \cap fit
    IN  /\ tx'[i] = Idle
        /\ \/ tx[i].op = "assign" /\ tx[i].p \in found /\ Assign(tx[i].r, tx[i].p)
           \/ tx[i].op = "invite" /\ \E offered \in SUBSET found : InviteFound(tx[i].r, offered)

(* The transactions are serializable: whatever statements and locks        *)
(* interleave, a commit changes the rows as one atomic transaction of      *)
(* ServiceRequests would at that moment, except that an assignment and an  *)
(* invitation may have read which providers are eligible earlier, though   *)
(* not before they began.  These are steps of RacySpec, so everything that *)
(* holds of RacySpec holds of the rows.                                    *)
CommitsAreAtomic == [][Next \/ \E i \in Connection : CommitsChoice(i)]_vars

(* decideQuote's comment (service-request.repository.ts:2795-2799): every  *)
(* request-scoped transition locks the request first, so none deadlock.    *)
NoDeadlock == Deadlocks = {}

(* All the deadlocks there are: one involves a withdrawal, whose event     *)
(* needs the request's row when it already has the quote's, or consists of *)
(* approvals on different requests, each holding its winner's row and      *)
(* needing the other's for the notification of a loser.                    *)
OnlyKnownDeadlocks ==
  \A D \in Deadlocks :
    \/ \E i \in D : tx[i].op = "withdraw"
    \/ /\ OutboxEnabled
       /\ \A i \in D : tx[i].op = "approve" /\ Statement(tx[i]) = "notify"
       /\ \A i, j \in D : i # j => tx[i].r # tx[j].r

(* Every transaction ends, by commit, refusal or as a victim.              *)
EveryTransactionEnds == \A i \in Connection : tx[i] # Idle ~> tx[i] = Idle

=============================================================================
