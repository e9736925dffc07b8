---------------------------- MODULE FcmDispatch ----------------------------
(***************************************************************************)
(* The dispatch of notification_outbox rows to FCM (fcm-dispatch.worker.ts)*)
(* by the workers of several API processes: claim under a lease, renewal,  *)
(* send outside any transaction, finalize, reclaim of expired leases.      *)
(*                                                                         *)
(* Every action is one SQL statement of a worker with the code up to the   *)
(* next one, the answer of FCM, or something that happens to the worker:   *)
(* a send without an answer, a failed statement, a crash.  Time is counted *)
(* in ticks for the leases and the renewals; the backoff of a retry ends   *)
(* some time.  The order of a batch and the error kinds are left out.      *)
(***************************************************************************)
EXTENDS Naturals, FiniteSets

CONSTANTS
  Row,         \* ids of notification_outbox rows, all to one account
  BestEffort,  \* the rows enqueued with reliability "best-effort"
  Malformed,   \* the rows whose stored payload the templates refuse
  Device,      \* the devices of that account
  Worker,      \* one per API process
  NoWorker,    \* lease_claimed_by IS NULL
  NoRow,       \* no row in a worker's hands
  Departed,    \* the worker id of a process that is gone
  BatchSize,   \* FCM_DISPATCH_BATCH_SIZE
  MaxAttempts, \* FCM_MAX_DELIVERY_ATTEMPTS
  LeaseTTL,    \* FCM_DISPATCH_LEASE_TTL_SECONDS, in ticks
  RenewEvery,  \* FCM_DISPATCH_LEASE_RENEW_INTERVAL_MS, in ticks
  RowTime,     \* the longest a worker takes from one renewal check to the next
  MaxFaults    \* bound: crashes, failed statements and device changes of a behaviour

ASSUME DispatchAssumption ==
  /\ BestEffort \subseteq Row /\ Malformed \subseteq Row
  /\ NoWorker \notin Worker /\ Departed \notin Worker /\ NoWorker # Departed
  /\ NoRow \notin Row
  /\ BatchSize \in Nat \ {0} /\ MaxAttempts \in Nat \ {0}
  /\ LeaseTTL \in Nat /\ RenewEvery \in Nat \ {0} /\ RowTime \in Nat /\ MaxFaults \in Nat

(* A row takes the send timeout of 10 s and a few statements, a renewal is *)
(* due after 30 s, a lease lasts 300 s.                                    *)
ASSUME TimingAssumption == RenewEvery + RowTime <= LeaseTTL

VARIABLES
  status,    \* notification_outbox.status, "none" before the row exists
  attempts,  \* notification_outbox.attempts
  due,       \* available_at <= NOW()
  owner,     \* notification_outbox.lease_claimed_by
  age,       \* ticks since lease_claimed_at
  active,    \* fcm_devices: those with revoked_at IS NULL
  phase,     \* per worker: what it does next; "down" without a process
  batch,     \* per worker: activeRowIds
  current,   \* per worker: the row of processClaimedRow
  seen,      \* per worker and row: the attempts it read when it claimed the row
  targets,   \* per worker: the devices it resolved
  invalid,   \* per worker: those whose token FCM refused for good
  verdict,   \* per worker: how it will finalize the row
  rerun,     \* per worker: rerunRequested
  since,     \* per worker: ticks since lastLeaseRenewalAt, up to RenewEvery
  busy,      \* per worker: ticks since the last renewal check
  received,  \* history: the <<row, device>> pairs FCM accepted
  repeated,  \* history: those it accepted twice while every outcome was known
  blurred,   \* history: rows whose outcome a worker did not get or not store
  faults     \* crashes, failed statements and device changes so far

outboxVars  == <<status, attempts, due, owner, age>>
rowVars     == <<current, targets, invalid, verdict>>
workerVars  == <<phase, batch, seen, rerun, since, busy>>
historyVars == <<received, repeated, blurred>>
vars == <<status, attempts, due, owner, age, active, phase, batch, current, seen, targets,
          invalid, verdict, rerun, since, busy, received, repeated, blurred, faults>>

Settled == {"delivered", "dead"}
Phase == {"down", "idle", "reclaim", "claim", "renew", "resolve", "send", "finalize"}
Result == {"delivered", "permanent", "transient", "config"}
Verdict == {"none", "delivered", "retry", "dead"}

Init ==
  /\ status = [n \in Row |-> "none"]
  /\ attempts = [n \in Row |-> 0]
  /\ due = [n \in Row |-> FALSE]
  /\ owner = [n \in Row |-> NoWorker]
  /\ age = [n \in Row |-> 0]
  /\ active = Device
  /\ phase = [w \in Worker |-> "idle"]
  /\ batch = [w \in Worker |-> {}]
  /\ current = [w \in Worker |-> NoRow]
  /\ seen = [w \in Worker |-> [n \in Row |-> 0]]
  /\ targets = [w \in Worker |-> {}]
  /\ invalid = [w \in Worker |-> {}]
  /\ verdict = [w \in Worker |-> "none"]
  /\ rerun = [w \in Worker |-> FALSE]
  /\ since = [w \in Worker |-> 0]
  /\ busy = [w \in Worker |-> 0]
  /\ received = {}
  /\ repeated = {}
  /\ blurred = {}
  /\ faults = 0

InBatch(w) == phase[w] \in {"renew", "resolve", "send", "finalize"}

InHand(w) ==
  /\ current[w] # NoRow <=> phase[w] \in {"resolve", "send", "finalize"}
  /\ current[w] # NoRow => current[w] \in batch[w]
  /\ batch[w] # {} <=> InBatch(w)

(* Columns hold legal values, and a worker holds a row only while it       *)
(* processes one of its batch.                                             *)
TypeOK ==
  /\ status \in [Row -> {"none", "pending", "sending"} \cup Settled]
  /\ attempts \in [Row -> 0 .. MaxAttempts]
  /\ due \in [Row -> BOOLEAN]
  /\ owner \in [Row -> Worker \cup {NoWorker, Departed}]
  /\ age \in [Row -> 0 .. LeaseTTL]
  /\ active \subseteq Device
  /\ phase \in [Worker -> Phase]
  /\ batch \in [Worker -> SUBSET Row]
  /\ current \in [Worker -> Row \cup {NoRow}]
  /\ seen \in [Worker -> [Row -> 0 .. MaxAttempts]]
  /\ targets \in [Worker -> SUBSET Device]
  /\ invalid \in [Worker -> SUBSET Device]
  /\ verdict \in [Worker -> Verdict]
  /\ rerun \in [Worker -> BOOLEAN]
  /\ since \in [Worker -> 0 .. RenewEvery]
  /\ busy \in [Worker -> 0 .. RowTime]
  /\ received \subseteq Row \X Device
  /\ repeated \subseteq received
  /\ blurred \subseteq Row
  /\ faults \in 0 .. MaxFaults
  /\ \A w \in Worker : InHand(w)

-----------------------------------------------------------------------------
(* The cycle of a worker.                                                  *)

Sending(n) == status[n] = "sending"

(* The timer, or the wake after a commit that enqueued rows.  During a     *)
(* cycle it asks for one more.                                             *)
RunCycle(w) ==
  /\ \/ /\ phase[w] = "idle"
        /\ phase' = [phase EXCEPT ![w] = "reclaim"]
        /\ UNCHANGED rerun
     \/ /\ phase[w] \notin {"idle", "down"}
        /\ rerun' = [rerun EXCEPT ![w] = TRUE]
        /\ UNCHANGED phase
  /\ UNCHANGED <<outboxVars, active, batch, rowVars, seen, since, busy, historyVars, faults>>

(* The cycle is over; the rows it still had stay as they are.              *)
EndCycle(w) ==
  /\ phase' = [phase EXCEPT ![w] = IF rerun[w] THEN "reclaim" ELSE "idle"]
  /\ rerun' = [rerun EXCEPT ![w] = FALSE]
  /\ batch' = [batch EXCEPT ![w] = {}]
  /\ since' = [since EXCEPT ![w] = 0]
  /\ busy' = [busy EXCEPT ![w] = 0]
  /\ seen' = [seen EXCEPT ![w] = [n \in Row |-> 0]]

Expired == {n \in Row : Sending(n) /\ age[n] >= LeaseTTL}

Release(rows) ==
  /\ status' = [n \in Row |-> IF n \in rows THEN "pending" ELSE status[n]]
  /\ due' = [n \in Row |-> n \in rows \/ due[n]]
  /\ owner' = [n \in Row |-> IF n \in rows THEN NoWorker ELSE owner[n]]
  /\ age' = [n \in Row |-> IF n \in rows THEN 0 ELSE age[n]]

(* Faulty: every lease of another worker is taken for stale.               *)
ReclaimAll(w) ==
  /\ phase[w] = "reclaim"
  /\ Release({n \in Row : Sending(n) /\ owner[n] # w})
  /\ phase' = [phase EXCEPT ![w] = "claim"]
  /\ UNCHANGED <<attempts, active, batch, rowVars, seen, rerun, since, busy, historyVars, faults>>

(* Faulty: a worker reclaims only what it claimed itself.                  *)
ReclaimOwn(w) ==
  /\ phase[w] = "reclaim"
  /\ Release({n \in Expired : owner[n] = w})
  /\ phase' = [phase EXCEPT ![w] = "claim"]
  /\ UNCHANGED <<attempts, active, batch, rowVars, seen, rerun, since, busy, historyVars, faults>>

(* Faulty: the reclaim counts as a failed attempt.                         *)
ReclaimCounted(w) ==
  /\ phase[w] = "reclaim"
  /\ Release(Expired)
  /\ attempts' = [n \in Row |->
       IF n \in Expired /\ attempts[n] < MaxAttempts THEN attempts[n] + 1 ELSE attempts[n]]
  /\ phase' = [phase EXCEPT ![w] = "claim"]
  /\ UNCHANGED <<active, batch, rowVars, seen, rerun, since, busy, historyVars, faults>>

ReclaimStale(w) ==
  /\ phase[w] = "reclaim"
  /\ Release(Expired)
  /\ phase' = [phase EXCEPT ![w] = "claim"]
  /\ UNCHANGED <<attempts, active, batch, rowVars, seen, rerun, since, busy, historyVars, faults>>

Claimable == {n \in Row : status[n] = "pending" /\ due[n]}

(* SKIP LOCKED: concurrent claims take different rows, as if one after the *)
(* other.                                                                  *)
ClaimBatch(w) ==
  /\ phase[w] = "claim"
  /\ IF Claimable = {}
       THEN EndCycle(w) /\ UNCHANGED outboxVars
       ELSE \E rows \in SUBSET Claimable :
         /\ IF Cardinality(Claimable) <= BatchSize THEN rows = Claimable
                                                   ELSE Cardinality(rows) = BatchSize
         /\ status' = [n \in Row |-> IF n \in rows THEN "sending" ELSE status[n]]
         /\ due' = [n \in Row |-> due[n] /\ n \notin rows]
         /\ owner' = [n \in Row |-> IF n \in rows THEN w ELSE owner[n]]
         /\ age' = [n \in Row |-> IF n \in rows THEN 0 ELSE age[n]]
         /\ batch' = [batch EXCEPT ![w] = rows]
         /\ seen' = [seen EXCEPT ![w] =
              [n \in Row |-> IF n \in rows THEN attempts[n] ELSE 0]]
         /\ phase' = [phase EXCEPT ![w] = "renew"]
         /\ since' = [since EXCEPT ![w] = RenewEvery]
         /\ busy' = [busy EXCEPT ![w] = 0]
         /\ UNCHANGED <<attempts, rerun>>
  /\ UNCHANGED <<active, rowVars, historyVars, faults>>

(* Faulty: the leases of the rows still to come are not renewed.           *)
TakeRow(w) ==
  /\ phase[w] = "renew"
  /\ \E n \in batch[w] : current' = [current EXCEPT ![w] = n]
  /\ phase' = [phase EXCEPT ![w] = "resolve"]
  /\ busy' = [busy EXCEPT ![w] = 0]
  /\ UNCHANGED <<outboxVars, active, batch, targets, invalid, verdict, seen, rerun, since,
                 historyVars, faults>>

(* Before every row: the leases of the batch, if it is time; then the row. *)
RenewLeasesIfDue(w) ==
  /\ phase[w] = "renew"
  /\ IF since[w] >= RenewEvery
       THEN /\ age' = [n \in Row |->
                 IF n \in batch[w] /\ Sending(n) /\ owner[n] = w THEN 0 ELSE age[n]]
            /\ since' = [since EXCEPT ![w] = 0]
       ELSE UNCHANGED <<age, since>>
  /\ \E n \in batch[w] : current' = [current EXCEPT ![w] = n]
  /\ phase' = [phase EXCEPT ![w] = "resolve"]
  /\ busy' = [busy EXCEPT ![w] = 0]
  /\ UNCHANGED <<status, attempts, due, owner, active, batch, targets, invalid, verdict, seen,
                 rerun, historyVars, faults>>

-----------------------------------------------------------------------------
(* The row a worker processes.                                             *)

Decide(w, v) ==
  /\ verdict' = [verdict EXCEPT ![w] = v]
  /\ phase' = [phase EXCEPT ![w] = "finalize"]

(* No device counts as delivered, even of a payload nobody could read.     *)
ResolveActiveDevices(w) ==
  /\ phase[w] = "resolve"
  /\ targets' = [targets EXCEPT ![w] = active]
  /\ IF active = {} THEN Decide(w, "delivered")
     ELSE IF current[w] \in Malformed THEN Decide(w, "dead")
     ELSE phase' = [phase EXCEPT ![w] = "send"] /\ UNCHANGED verdict
  /\ UNCHANGED <<outboxVars, active, batch, current, invalid, seen, rerun, since, busy,
                 historyVars, faults>>

Accept(n, devices) ==
  /\ received' = received \cup {<<n, d>> : d \in devices}
  /\ repeated' = repeated \cup {<<n, d>> : d \in {x \in devices :
                                    <<n, x>> \in received /\ n \notin blurred}}

Having(result, r) == {d \in DOMAIN result : result[d] = r}

(* Faulty: one transient failure makes the whole send one.                 *)
VerdictRetryFirst(result) ==
  IF Having(result, "config") # {} THEN "dead"
  ELSE IF Having(result, "transient") # {} THEN "retry"
  ELSE "delivered"

(* One device that accepted is enough, and so is none that ever could.     *)
VerdictOf(result) ==
  IF Having(result, "config") # {} THEN "dead"
  ELSE IF Having(result, "delivered") # {} THEN "delivered"
  ELSE IF Having(result, "transient") = {} THEN "delivered"
  ELSE "retry"

(* Any error not known to be permanent is transient, those of the network  *)
(* too, after which a device may have the message all the same.            *)
Answer(w) ==
  /\ phase[w] = "send"
  /\ \E result \in [targets[w] -> Result] : \E lost \in SUBSET Having(result, "transient") :
       /\ Accept(current[w], Having(result, "delivered") \cup lost)
       /\ blurred' = IF lost = {} THEN blurred ELSE blurred \cup {current[w]}
       /\ invalid' = [invalid EXCEPT ![w] = Having(result, "permanent")]
       /\ Decide(w, VerdictOf(result))
  /\ UNCHANGED <<outboxVars, active, batch, current, targets, seen, rerun, since, busy, faults>>

(* FCM refuses the batch as a whole: a quota, or the configuration.        *)
BatchRefused(w) ==
  /\ phase[w] = "send"
  /\ \E v \in {"retry", "dead"} : Decide(w, v)
  /\ UNCHANGED <<outboxVars, active, batch, current, targets, invalid, seen, rerun, since,
                 busy, historyVars, faults>>

(* The send timeout, or an error of the network: the worker cannot know    *)
(* which devices got the message, or will from the call it left behind.    *)
NoAnswer(w) ==
  /\ phase[w] = "send"
  /\ \E devices \in SUBSET targets[w] : Accept(current[w], devices)
  /\ blurred' = blurred \cup {current[w]}
  /\ Decide(w, "retry")
  /\ UNCHANGED <<outboxVars, active, batch, current, targets, invalid, seen, rerun, since,
                 busy, faults>>

(* The row leaves the active set, whatever became of it.                   *)
NextRow(w) ==
  /\ current' = [current EXCEPT ![w] = NoRow]
  /\ targets' = [targets EXCEPT ![w] = {}]
  /\ invalid' = [invalid EXCEPT ![w] = {}]
  /\ verdict' = [verdict EXCEPT ![w] = "none"]
  /\ IF batch[w] = {current[w]}
       THEN EndCycle(w)
       ELSE /\ batch' = [batch EXCEPT ![w] = @ \ {current[w]}]
            /\ phase' = [phase EXCEPT ![w] = "renew"]
            /\ UNCHANGED <<rerun, since, busy, seen>>

(* What the finalizing UPDATE writes; it names the row and nothing else.   *)
Finalized(n, new, count) ==
  /\ status' = [status EXCEPT ![n] = new]
  /\ attempts' = [attempts EXCEPT ![n] = count]
  /\ due' = [due EXCEPT ![n] = FALSE]
  /\ owner' = [owner EXCEPT ![n] = NoWorker]
  /\ age' = [age EXCEPT ![n] = 0]

(* Faulty: the attempt that reaches the limit is retried.                  *)
FinalizeLate(w) ==
  LET n == current[w]
      attempt == seen[w][n] + 1
  IN  /\ phase[w] = "finalize"
      /\ active' = active \ invalid[w]
      /\ \/ verdict[w] = "delivered" /\ Finalized(n, "delivered", attempts[n])
         \/ verdict[w] = "retry" /\ attempt <= MaxAttempts /\ Finalized(n, "pending", attempt)
         \/ /\ verdict[w] = "dead" \/ (verdict[w] = "retry" /\ attempt > MaxAttempts)
            /\ Finalized(n, "dead", attempt)
      /\ NextRow(w)
      /\ UNCHANGED <<historyVars, faults>>

(* The tokens FCM refused are revoked, then the row is written.            *)
Finalize(w) ==
  LET n == current[w]
      attempt == seen[w][n] + 1
  IN  /\ phase[w] = "finalize"
      /\ active' = active \ invalid[w]
      /\ \/ verdict[w] = "delivered" /\ Finalized(n, "delivered", attempts[n])
         \/ verdict[w] = "retry" /\ attempt < MaxAttempts /\ Finalized(n, "pending", attempt)
         \/ /\ verdict[w] = "dead" \/ (verdict[w] = "retry" /\ attempt >= MaxAttempts)
            /\ Finalized(n, "dead", attempt)
      /\ NextRow(w)
      /\ UNCHANGED <<historyVars, faults>>

-----------------------------------------------------------------------------
(* Faults.  A statement that took effect and whose answer was lost is one  *)
(* that succeeds and then the failure of the next.                         *)

(* A statement for the row fails: the row stays leased, the cycle goes on. *)
RowFails(w) ==
  /\ phase[w] \in {"resolve", "finalize"}
  /\ faults < MaxFaults
  /\ faults' = faults + 1
  /\ \E revoked \in SUBSET invalid[w] : active' = active \ revoked
  /\ blurred' = IF phase[w] = "finalize" THEN blurred \cup {current[w]} ELSE blurred
  /\ NextRow(w)
  /\ UNCHANGED <<outboxVars, received, repeated>>

(* A statement of the cycle fails: the cycle ends, its rows stay leased.   *)
CycleFails(w) ==
  /\ phase[w] \in {"reclaim", "claim", "renew"}
  /\ faults < MaxFaults
  /\ faults' = faults + 1
  /\ EndCycle(w)
  /\ UNCHANGED <<outboxVars, active, rowVars, historyVars>>

(* The process dies, or stops without waiting for the cycle.  A new one    *)
(* has a new worker id.                                                    *)
Crash(w) ==
  /\ phase[w] # "down"
  /\ faults < MaxFaults
  /\ faults' = faults + 1
  /\ phase' = [phase EXCEPT ![w] = "down"]
  /\ batch' = [batch EXCEPT ![w] = {}]
  /\ seen' = [seen EXCEPT ![w] = [n \in Row |-> 0]]
  /\ rerun' = [rerun EXCEPT ![w] = FALSE]
  /\ since' = [since EXCEPT ![w] = 0]
  /\ busy' = [busy EXCEPT ![w] = 0]
  /\ current' = [current EXCEPT ![w] = NoRow]
  /\ targets' = [targets EXCEPT ![w] = {}]
  /\ invalid' = [invalid EXCEPT ![w] = {}]
  /\ verdict' = [verdict EXCEPT ![w] = "none"]
  /\ owner' = [n \in Row |-> IF owner[n] = w THEN Departed ELSE owner[n]]
  /\ \E revoked \in SUBSET invalid[w] : active' = active \ revoked
  /\ IF phase[w] = "send"
       THEN \E devices \in SUBSET targets[w] : Accept(current[w], devices)
       ELSE UNCHANGED <<received, repeated>>
  /\ blurred' = IF phase[w] \in {"send", "finalize"} THEN blurred \cup {current[w]} ELSE blurred
  /\ UNCHANGED <<status, attempts, due, age>>

Restart(w) ==
  /\ phase[w] = "down"
  /\ phase' = [phase EXCEPT ![w] = "idle"]
  /\ UNCHANGED <<outboxVars, active, batch, rowVars, seen, rerun, since, busy, historyVars, faults>>

-----------------------------------------------------------------------------
(* Around the workers.                                                     *)

Enqueue(n) ==
  /\ status[n] = "none"
  /\ status' = [status EXCEPT ![n] = "pending"]
  /\ attempts' = [attempts EXCEPT ![n] = IF n \in BestEffort THEN MaxAttempts - 1 ELSE 0]
  /\ due' = [due EXCEPT ![n] = TRUE]
  /\ UNCHANGED <<owner, age, active, workerVars, rowVars, historyVars, faults>>

BackoffEnds(n) ==
  /\ status[n] = "pending" /\ ~due[n]
  /\ due' = [due EXCEPT ![n] = TRUE]
  /\ UNCHANGED <<status, attempts, owner, age, active, workerVars, rowVars, historyVars, faults>>

(* The account's apps register and revoke devices.                         *)
DevicesChange(d) ==
  /\ faults < MaxFaults
  /\ faults' = faults + 1
  /\ active' = IF d \in active THEN active \ {d} ELSE active \cup {d}
  /\ UNCHANGED <<outboxVars, workerVars, rowVars, historyVars>>

(* Time passes; no worker exceeds the time its row may take.               *)
Tick ==
  /\ \A w \in Worker : InBatch(w) => busy[w] < RowTime
  /\ age' = [n \in Row |-> IF Sending(n) /\ age[n] < LeaseTTL THEN age[n] + 1 ELSE age[n]]
  /\ busy' = [w \in Worker |-> IF InBatch(w) THEN busy[w] + 1 ELSE busy[w]]
  /\ since' = [w \in Worker |->
       IF InBatch(w) /\ since[w] < RenewEvery THEN since[w] + 1 ELSE since[w]]
  /\ UNCHANGED <<status, attempts, due, owner, active, phase, batch, rowVars, seen, rerun,
                 historyVars, faults>>

-----------------------------------------------------------------------------
Work(w) ==
  \/ ReclaimStale(w) \/ ClaimBatch(w) \/ RenewLeasesIfDue(w) \/ ResolveActiveDevices(w)
  \/ Answer(w) \/ BatchRefused(w) \/ NoAnswer(w) \/ Finalize(w)

Next ==
  \/ \E w \in Worker :
       RunCycle(w) \/ Work(w) \/ RowFails(w) \/ CycleFails(w) \/ Crash(w) \/ Restart(w)
  \/ \E n \in Row : Enqueue(n) \/ BackoffEnds(n)
  \/ \E d \in Device : DevicesChange(d)
  \/ Tick

Spec == Init /\ [][Next]_vars

(* The timer fires, a process is restarted, a worker's next statement or   *)
(* the end of its send comes, and time goes on.                            *)
Fairness ==
  /\ \A w \in Worker : WF_vars(RunCycle(w)) /\ WF_vars(Work(w)) /\ WF_vars(Restart(w))
  /\ \A n \in Row : WF_vars(BackoffEnds(n))
  /\ WF_vars(Tick)

FairSpec == Spec /\ Fairness

-----------------------------------------------------------------------------
(* tickOnce's comment (fcm-dispatch.worker.ts:286-290): while a worker     *)
(* works through its batch the leases of the rows still in it do not age   *)
(* past the TTL, so none of them is reclaimed or claimed by another.       *)
LeasesAreHeld ==
  \A w \in Worker : \A n \in batch[w] :
    status[n] = "sending" /\ owner[n] = w /\ age[n] < LeaseTTL

(* A row that was delivered or given up stays so, although the finalizing  *)
(* UPDATE checks neither the status nor the lease.                         *)
SettledIsFinal ==
  [][\A n \in Row : status[n] \in Settled =>
       status'[n] = status[n] /\ attempts'[n] = attempts[n]]_vars

(* A row comes back for another attempt either because its lease ran out,  *)
(* and then nothing is counted, or after a failed attempt that is counted  *)
(* and below the limit.                                                    *)
RetriesAreCounted ==
  [][\A n \in Row : status[n] = "sending" /\ status'[n] = "pending" =>
       \/ age[n] = LeaseTTL /\ attempts'[n] = attempts[n]
       \/ /\ age[n] < LeaseTTL
          /\ attempts'[n] = attempts[n] + 1
          /\ attempts'[n] < MaxAttempts]_vars

(* A device gets a message twice only if a worker did not learn, or could  *)
(* not store, what became of a send; answers that arrive never cause it,   *)
(* nor do two workers (the partial-success policy of processClaimedRow).   *)
DuplicatesAreExplained == repeated = {}

(* processClaimedRow's comment (fcm-dispatch.worker.ts:427-430): a retry   *)
(* occurs only when no device accepted the message.                        *)
RetryOnlyUnaccepted ==
  [][\A n \in Row : status[n] = "sending" /\ status'[n] = "pending"
                    /\ attempts'[n] # attempts[n]
       => \A d \in Device : <<n, d>> \notin received']_vars

(* Every enqueued row is delivered or given up in the end.                 *)
EveryRowSettles == \A n \in Row : status[n] = "pending" ~> status[n] \in Settled

=============================================================================
