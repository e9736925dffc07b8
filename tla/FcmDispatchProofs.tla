------------------------- MODULE FcmDispatchProofs -------------------------
(***************************************************************************)
(* What FcmDispatch keeps for any number of rows, devices and workers and  *)
(* for any times that satisfy TimingAssumption.                            *)
(***************************************************************************)
EXTENDS FcmDispatch, FiniteSetTheorems, TLAPS

(* A row in a worker's batch is leased to it and has not changed since.    *)
Held ==
  \A w \in Worker : \A n \in batch[w] :
    status[n] = "sending" /\ owner[n] = w /\ seen[w][n] = attempts[n]

(* Until a renewal is due the leases are as old as the last one; once it   *)
(* is, they grow older by the time since the last check at most.           *)
Timed ==
  \A w \in Worker : \A n \in batch[w] :
    /\ since[w] < RenewEvery => age[n] <= since[w]
    /\ age[n] + 1 <= RenewEvery + busy[w]

(* Rows still to be sent have an attempt left.                             *)
Counted == \A n \in Row : status[n] \in {"pending", "sending"} => attempts[n] < MaxAttempts

(* The worker that holds n has an answer that ends the row.                *)
AboutToSettle(n) ==
  \E w \in Worker : current[w] = n /\ phase[w] = "finalize" /\ verdict[w] \in {"delivered", "dead"}

(* A row that a device accepted, and no outcome of which was lost, is      *)
(* settled or about to be.                                                 *)
Known ==
  /\ repeated = {}
  /\ \A n \in Row, d \in Device : <<n, d>> \in received /\ n \notin blurred =>
       status[n] \in Settled \/ AboutToSettle(n)

IInv == TypeOK /\ Held /\ Timed /\ Counted /\ Known

-----------------------------------------------------------------------------
(* The lease of a row in a batch has not run out, and the row is in one    *)
(* batch only.                                                             *)

LEMMA FreshLeases ==
  ASSUME IInv
  PROVE  LeasesAreHeld
BY DispatchAssumption, TimingAssumption DEF IInv, TypeOK, Held, Timed, LeasesAreHeld

LEMMA OneHolder ==
  ASSUME IInv, NEW v \in Worker, NEW w \in Worker, NEW n \in batch[v] \cap batch[w]
  PROVE  v = w
BY DEF IInv, Held

-----------------------------------------------------------------------------
(* TypeOK in two parts: what the workers hold, and the tables.             *)
WorkersOK ==
  /\ phase \in [Worker -> Phase]
  /\ batch \in [Worker -> SUBSET Row]
  /\ current \in [Worker -> Row \cup {NoRow}]
  /\ seen \in [Worker -> [Row -> 0 .. MaxAttempts]]
  /\ targets \in [Worker -> SUBSET Device]
  /\ invalid \in [Worker -> SUBSET Device]
  /\ verdict \in [Worker -> Verdict]
  /\ rerun \in [Worker -> BOOLEAN]
  /\ since \in [Worker -> 0 .. RenewEvery]
  /\ busy \in [Worker -> 0 .. RowTime]
  /\ \A w \in Worker : InHand(w)

OutboxOK ==
  /\ status \in [Row -> {"none", "pending", "sending"} \cup Settled]
  /\ attempts \in [Row -> 0 .. MaxAttempts]
  /\ due \in [Row -> BOOLEAN]
  /\ owner \in [Row -> Worker \cup {NoWorker, Departed}]
  /\ age \in [Row -> 0 .. LeaseTTL]

RestOK ==
  /\ active \subseteq Device
  /\ received \subseteq Row \X Device
  /\ repeated \subseteq received
  /\ blurred \subseteq Row
  /\ faults \in 0 .. MaxFaults

LEMMA TypeParts == TypeOK <=> WorkersOK /\ OutboxOK /\ RestOK
BY DEF TypeOK, WorkersOK, OutboxOK, RestOK

(* No worker has a row more than before, and it knows of those it has what *)
(* it knew.                                                                *)
Kept ==
  \A v \in Worker : \A n \in batch'[v] :
    /\ n \in batch[v]
    /\ since'[v] = since[v] /\ busy'[v] = busy[v] /\ seen'[v][n] = seen[v][n]

LEMMA LeasesKept ==
  ASSUME IInv, Kept,
         \A v \in Worker : \A n \in batch'[v] :
           status'[n] = status[n] /\ owner'[n] = owner[n] /\ attempts'[n] = attempts[n]
           /\ age'[n] = age[n]
  PROVE  Held' /\ Timed'
BY DEF IInv, Held, Timed, Kept

LEMMA KnownKept ==
  ASSUME IInv, UNCHANGED <<received, repeated>>, blurred \subseteq blurred',
         \A n \in Row : status[n] \in Settled => status'[n] \in Settled,
         \A n \in Row : AboutToSettle(n) =>
           AboutToSettle(n)' \/ status'[n] \in Settled \/ n \in blurred'
  PROVE  Known'
BY DEF IInv, Known

LEMMA KnownBlurred ==
  ASSUME IInv, repeated' = {}, blurred \subseteq blurred',
         \A n \in Row, d \in Device : <<n, d>> \in received' =>
           <<n, d>> \in received \/ n \in blurred',
         \A n \in Row : status[n] \in Settled => status'[n] \in Settled,
         \A n \in Row : AboutToSettle(n) =>
           AboutToSettle(n)' \/ status'[n] \in Settled \/ n \in blurred'
  PROVE  Known'
BY DEF IInv, Known

(* The end of a cycle.                                                     *)
LEMMA CycleEnds ==
  ASSUME IInv, NEW w \in Worker, phase[w] # "down", EndCycle(w),
         UNCHANGED rowVars \/ NextRow(w),
         phase[w] \in {"claim", "reclaim", "renew"} \/ NextRow(w)
  PROVE  WorkersOK' /\ Kept
<1>1. /\ phase' \in [Worker -> Phase] /\ batch' \in [Worker -> SUBSET Row]
      /\ rerun' \in [Worker -> BOOLEAN] /\ since' \in [Worker -> 0 .. RenewEvery]
      /\ busy' \in [Worker -> 0 .. RowTime] /\ seen' \in [Worker -> [Row -> 0 .. MaxAttempts]]
  BY DispatchAssumption DEF IInv, TypeOK, EndCycle, Phase
<1>2. /\ current' \in [Worker -> Row \cup {NoRow}] /\ targets' \in [Worker -> SUBSET Device]
      /\ invalid' \in [Worker -> SUBSET Device] /\ verdict' \in [Worker -> Verdict]
  BY DEF IInv, TypeOK, NextRow, rowVars, Verdict
<1>3. current'[w] = NoRow /\ \A v \in Worker : v # w => current'[v] = current[v]
  BY DispatchAssumption DEF IInv, TypeOK, NextRow, rowVars, InHand
<1>4. batch'[w] = {} /\ phase'[w] \in {"reclaim", "idle"}
  BY DEF IInv, TypeOK, EndCycle
<1>5. \A v \in Worker : v # w => batch'[v] = batch[v] /\ phase'[v] = phase[v]
        /\ since'[v] = since[v] /\ busy'[v] = busy[v] /\ seen'[v] = seen[v]
  BY DEF IInv, TypeOK, EndCycle
<1>6. \A v \in Worker : InHand(v)'
  BY <1>3, <1>4, <1>5 DEF IInv, TypeOK, InHand, InBatch
<1> QED
  BY <1>1, <1>2, <1>4, <1>5, <1>6 DEF WorkersOK, Kept

(* The end of a row.                                                       *)
LEMMA RowEnds ==
  ASSUME IInv, NEW w \in Worker, current[w] # NoRow, NextRow(w)
  PROVE  /\ WorkersOK' /\ Kept
         /\ \A v \in Worker : current[w] \notin batch'[v]
         /\ \A v \in Worker : v # w => UNCHANGED <<phase[v], current[v], verdict[v]>>
<1>0. current[w] \in batch[w] /\ phase[w] # "down"
  BY DEF IInv, TypeOK, InHand
<1>1. \A v \in Worker : v # w => UNCHANGED <<phase[v], current[v], verdict[v], batch[v]>>
  BY DEF IInv, TypeOK, NextRow, EndCycle
<1>2. current[w] \notin batch'[w]
  BY DEF IInv, TypeOK, NextRow, EndCycle
<1>3. \A v \in Worker : current[w] \notin batch'[v]
  BY <1>0, <1>1, <1>2, OneHolder
<1>4. CASE batch[w] = {current[w]}
  <2>1. EndCycle(w)
    BY <1>4 DEF NextRow
  <2> QED
    BY <1>0, <1>1, <1>3, <2>1, CycleEnds
<1>5. CASE batch[w] # {current[w]}
  <2>1. /\ batch' = [batch EXCEPT ![w] = @ \ {current[w]}]
        /\ phase' = [phase EXCEPT ![w] = "renew"]
        /\ UNCHANGED <<rerun, since, busy, seen>>
    BY <1>5 DEF NextRow
  <2>2. /\ current' \in [Worker -> Row \cup {NoRow}] /\ targets' \in [Worker -> SUBSET Device]
        /\ invalid' \in [Worker -> SUBSET Device] /\ verdict' \in [Worker -> Verdict]
    BY DEF IInv, TypeOK, NextRow, Verdict
  <2>3. /\ phase' \in [Worker -> Phase] /\ batch' \in [Worker -> SUBSET Row]
        /\ rerun' \in [Worker -> BOOLEAN] /\ since' \in [Worker -> 0 .. RenewEvery]
        /\ busy' \in [Worker -> 0 .. RowTime] /\ seen' \in [Worker -> [Row -> 0 .. MaxAttempts]]
    BY <2>1 DEF IInv, TypeOK, Phase
  <2>4. current'[w] = NoRow /\ phase'[w] = "renew" /\ batch'[w] # {}
    BY <1>0, <1>5, <2>1 DEF IInv, TypeOK, NextRow
  <2>5. \A v \in Worker : InHand(v)'
    BY <1>1, <2>4 DEF IInv, TypeOK, InHand, InBatch
  <2>6. Kept
    BY <2>1 DEF Kept, IInv, TypeOK
  <2> QED
    BY <1>1, <1>3, <2>2, <2>3, <2>5, <2>6 DEF WorkersOK
<1> QED
  BY <1>4, <1>5

-----------------------------------------------------------------------------
LEMMA Initially ==
  ASSUME Init
  PROVE  IInv
<1>1. TypeOK
  BY DispatchAssumption DEF Init, TypeOK, InHand, InBatch, Phase, Verdict
<1> QED
  BY <1>1 DEF Init, IInv, Held, Timed, Counted, Known

(* The steps between cycles.                                               *)
LEMMA RunCycleStep ==
  ASSUME IInv, NEW w \in Worker, RunCycle(w)
  PROVE  IInv'
<1> USE DispatchAssumption DEF RunCycle, outboxVars, rowVars, historyVars
<1>1. TypeOK'
  BY DEF IInv, TypeOK, InHand, InBatch, Phase
<1>2. Held' /\ Timed'
  BY DEF IInv, TypeOK, Held, Timed
<1>3. Counted' /\ Known'
  BY DEF IInv, TypeOK, Counted, Known, AboutToSettle
<1> QED
  BY <1>1, <1>2, <1>3 DEF IInv

LEMMA ReclaimStep ==
  ASSUME IInv, NEW w \in Worker, ReclaimStale(w)
  PROVE  IInv'
<1> USE DispatchAssumption DEF ReclaimStale, Release, Expired, Sending, rowVars, historyVars
<1>1. \A v \in Worker : batch[v] \cap Expired = {}
  BY FreshLeases DEF LeasesAreHeld, IInv, TypeOK
<1>2. TypeOK'
  <2>1. due' \in [Row -> BOOLEAN]
    BY DEF IInv, TypeOK
  <2>2. status' \in [Row -> {"none", "pending", "sending"} \cup Settled]
    BY DEF IInv, TypeOK
  <2>3. /\ owner' \in [Row -> Worker \cup {NoWorker, Departed}]
        /\ age' \in [Row -> 0 .. LeaseTTL]
    BY DEF IInv, TypeOK
  <2> QED
    BY <2>1, <2>2, <2>3 DEF IInv, TypeOK, InHand, InBatch, Phase
<1>3. Held' /\ Timed'
  <2>1. \A v \in Worker : \A n \in batch'[v] : n \in Row /\ n \in batch[v] /\ n \notin Expired
    BY <1>1 DEF IInv, TypeOK
  <2>2. \A v \in Worker : \A n \in batch'[v] :
          status'[n] = status[n] /\ owner'[n] = owner[n] /\ age'[n] = age[n]
    BY <2>1
  <2> QED
    BY <2>1, <2>2 DEF IInv, Held, Timed
<1>4. Counted' /\ Known'
  BY DEF IInv, TypeOK, Counted, Known, AboutToSettle, Settled
<1> QED
  BY <1>2, <1>3, <1>4 DEF IInv

LEMMA ClaimStep ==
  ASSUME IInv, NEW w \in Worker, ClaimBatch(w)
  PROVE  IInv'
<1> USE DispatchAssumption DEF ClaimBatch, rowVars, historyVars
<1>1. CASE Claimable = {}
  <2>1. /\ phase[w] = "claim" /\ EndCycle(w)
        /\ UNCHANGED <<outboxVars, active, rowVars, historyVars, faults>>
    BY <1>1
  <2> HIDE DEF ClaimBatch
  <2>2. WorkersOK' /\ Kept
    BY <2>1, CycleEnds
  <2>3. OutboxOK' /\ RestOK'
    BY <2>1 DEF IInv, TypeOK, OutboxOK, RestOK, outboxVars
  <2>4. Held' /\ Timed'
    BY <2>1, <2>2, LeasesKept DEF outboxVars
  <2>5. \A n \in Row : AboutToSettle(n) => AboutToSettle(n)'
    BY <2>1 DEF IInv, TypeOK, AboutToSettle, EndCycle
  <2>6. Counted' /\ Known'
    BY <2>1, <2>5, KnownKept DEF IInv, Counted, outboxVars
  <2> QED
    BY <2>2, <2>3, <2>4, <2>6, TypeParts DEF IInv, TypeOK, WorkersOK, OutboxOK, RestOK
<1>2. CASE Claimable # {}
  <2>1. PICK rows \in SUBSET Claimable :
          /\ rows # {}
          /\ status' = [n \in Row |-> IF n \in rows THEN "sending" ELSE status[n]]
          /\ due' = [n \in Row |-> due[n] /\ n \notin rows]
          /\ owner' = [n \in Row |-> IF n \in rows THEN w ELSE owner[n]]
          /\ age' = [n \in Row |-> IF n \in rows THEN 0 ELSE age[n]]
          /\ batch' = [batch EXCEPT ![w] = rows]
          /\ seen' = [seen EXCEPT ![w] =
               [n \in Row |-> IF n \in rows THEN attempts[n] ELSE 0]]
          /\ phase' = [phase EXCEPT ![w] = "renew"]
          /\ since' = [since EXCEPT ![w] = RenewEvery]
          /\ busy' = [busy EXCEPT ![w] = 0]
          /\ UNCHANGED <<attempts, rerun>>
    <3>1. \A rows \in SUBSET Claimable : Cardinality(rows) = BatchSize => rows # {}
      BY FS_EmptySet
    <3> QED
      BY <1>2, <3>1
  <2>2. \A n \in rows : n \in Row /\ status[n] = "pending"
    BY DEF Claimable
  <2>3. \A v \in Worker : batch[v] \cap rows = {}
    BY <2>2 DEF IInv, Held
  <2>4. TypeOK'
    BY <2>1, <2>2 DEF IInv, TypeOK, InHand, InBatch, Phase
  <2>5. Held' /\ Timed'
    BY <2>1, <2>2, <2>3 DEF IInv, TypeOK, Held, Timed
  <2>6. Counted' /\ Known'
    BY <2>1, <2>2 DEF IInv, TypeOK, Counted, Known, AboutToSettle, Settled
  <2> QED
    BY <2>4, <2>5, <2>6 DEF IInv
<1> QED
  BY <1>1, <1>2

LEMMA RenewStep ==
  ASSUME IInv, NEW w \in Worker, RenewLeasesIfDue(w)
  PROVE  IInv'
<1> USE DispatchAssumption DEF RenewLeasesIfDue, Sending, historyVars
<1>1. TypeOK'
  <2>1. age' \in [Row -> 0 .. LeaseTTL] /\ since' \in [Worker -> 0 .. RenewEvery]
    <3>1. CASE since[w] >= RenewEvery
      <4>1. /\ age' = [n \in Row |->
                 IF n \in batch[w] /\ Sending(n) /\ owner[n] = w THEN 0 ELSE age[n]]
            /\ since' = [since EXCEPT ![w] = 0]
        BY <3>1
      <4> HIDE DEF RenewLeasesIfDue, Sending
      <4> QED
        BY <4>1 DEF IInv, TypeOK
    <3>2. CASE ~(since[w] >= RenewEvery)
      BY <3>2 DEF IInv, TypeOK
    <3> QED
      BY <3>1, <3>2
  <2>2. \A v \in Worker : InHand(v)'
    BY DEF IInv, TypeOK, InHand, InBatch
  <2>3. phase' \in [Worker -> Phase] /\ current' \in [Worker -> Row \cup {NoRow}]
        /\ busy' \in [Worker -> 0 .. RowTime]
    BY DEF IInv, TypeOK, Phase
  <2>4. UNCHANGED <<status, attempts, due, owner, active, batch, targets, invalid, verdict, seen,
                    rerun, historyVars, faults>>
    OBVIOUS
  <2> HIDE DEF RenewLeasesIfDue
  <2>5. WorkersOK'
    BY <2>1, <2>2, <2>3, <2>4 DEF IInv, TypeOK, WorkersOK
  <2>6. OutboxOK' /\ RestOK'
    BY <2>1, <2>4 DEF IInv, TypeOK, OutboxOK, RestOK
  <2> QED
    BY <2>5, <2>6 DEF TypeOK, WorkersOK, OutboxOK, RestOK
<1>2. Held'
  BY DEF IInv, TypeOK, Held
<1>3. Timed'
  <2>1. CASE since[w] >= RenewEvery
    BY <2>1 DEF IInv, TypeOK, Held, Timed
  <2>2. CASE since[w] < RenewEvery
    BY <2>2 DEF IInv, TypeOK, Held, Timed
  <2> QED
    BY <2>1, <2>2 DEF IInv, TypeOK
<1>4. Counted' /\ Known'
  BY DEF IInv, TypeOK, Counted, Known, AboutToSettle, Settled
<1> QED
  BY <1>1, <1>2, <1>3, <1>4 DEF IInv

-----------------------------------------------------------------------------
(* The steps of a row that leave it with its worker.                       *)
LEMMA ResolveStep ==
  ASSUME IInv, NEW w \in Worker, ResolveActiveDevices(w)
  PROVE  IInv'
<1>1. /\ phase[w] = "resolve" /\ targets' = [targets EXCEPT ![w] = active]
      /\ \E p \in {"send", "finalize"}, v \in Verdict :
           phase' = [phase EXCEPT ![w] = p] /\ verdict' = [verdict EXCEPT ![w] = v]
      /\ UNCHANGED <<outboxVars, active, batch, current, invalid, seen, rerun, since, busy,
                     historyVars, faults>>
  BY DEF ResolveActiveDevices, Decide, Verdict, IInv, TypeOK
<1>2. WorkersOK'
  BY <1>1 DEF IInv, TypeOK, WorkersOK, InHand, InBatch, Phase
<1>3. OutboxOK' /\ RestOK' /\ Kept
  BY <1>1 DEF IInv, TypeOK, OutboxOK, RestOK, Kept, outboxVars, historyVars
<1>4. Held' /\ Timed'
  BY <1>1, <1>3, LeasesKept DEF outboxVars
<1>5. \A n \in Row : AboutToSettle(n) => AboutToSettle(n)'
  BY <1>1 DEF IInv, TypeOK, AboutToSettle
<1>6. Counted' /\ Known'
  BY <1>1, <1>5, KnownKept DEF IInv, Counted, outboxVars, historyVars
<1> QED
  BY <1>2, <1>3, <1>4, <1>6, TypeParts DEF IInv, TypeOK, WorkersOK, OutboxOK, RestOK

(* While it is sent, a row that is not blurred is not known to any device. *)
LEMMA NotYetReceived ==
  ASSUME IInv, NEW w \in Worker, phase[w] = "send", current[w] \notin blurred
  PROVE  \A d \in Device : <<current[w], d>> \notin received
<1>1. current[w] \in batch[w] /\ current[w] \in Row
  BY DispatchAssumption DEF IInv, TypeOK, InHand
<1>2. status[current[w]] \notin Settled
  BY <1>1 DEF IInv, Held, Settled
<1>3. ~AboutToSettle(current[w])
  <2>1. \A v \in Worker : current[v] = current[w] => v = w
    BY <1>1, DispatchAssumption, OneHolder DEF IInv, TypeOK, InHand
  <2> QED
    BY <2>1 DEF AboutToSettle
<1> QED
  BY <1>1, <1>2, <1>3 DEF IInv, Known

(* What FCM accepts of such a row is no repetition.                        *)
LEMMA Accepting ==
  ASSUME IInv, NEW w \in Worker, phase[w] = "send", NEW devices \in SUBSET targets[w],
         Accept(current[w], devices)
  PROVE  /\ received' \subseteq Row \X Device
         /\ repeated' = {}
         /\ \A n \in Row, d \in Device : <<n, d>> \in received' =>
              <<n, d>> \in received \/ (n = current[w] /\ d \in devices)
<1>1. current[w] \in Row /\ devices \subseteq Device
  BY DispatchAssumption DEF IInv, TypeOK, InHand
<1>2. received' \subseteq Row \X Device
  BY <1>1 DEF IInv, TypeOK, Accept
<1>3. {x \in devices : <<current[w], x>> \in received /\ current[w] \notin blurred} = {}
  BY <1>1, NotYetReceived
<1>4. repeated' = {}
  BY <1>3 DEF IInv, Known, Accept
<1>5. ASSUME NEW n \in Row, NEW d \in Device, <<n, d>> \in received', <<n, d>> \notin received
      PROVE  n = current[w] /\ d \in devices
  BY <1>5 DEF Accept
<1> QED
  BY <1>2, <1>4, <1>5

LEMMA AnswerStep ==
  ASSUME IInv, NEW w \in Worker, Answer(w)
  PROVE  IInv'
<1>1. PICK result \in [targets[w] -> Result] : \E lost \in SUBSET Having(result, "transient") :
        /\ Accept(current[w], Having(result, "delivered") \cup lost)
        /\ blurred' = IF lost = {} THEN blurred ELSE blurred \cup {current[w]}
        /\ invalid' = [invalid EXCEPT ![w] = Having(result, "permanent")]
        /\ Decide(w, VerdictOf(result))
  BY DEF Answer
<1>2. PICK lost \in SUBSET Having(result, "transient") :
        /\ Accept(current[w], Having(result, "delivered") \cup lost)
        /\ blurred' = IF lost = {} THEN blurred ELSE blurred \cup {current[w]}
  BY <1>1
<1>3. /\ phase[w] = "send"
      /\ UNCHANGED <<outboxVars, active, batch, current, targets, seen, rerun, since, busy,
                     faults>>
  BY DEF Answer
<1>4. /\ VerdictOf(result) \in Verdict
      /\ Having(result, "delivered") # {} => VerdictOf(result) \in {"delivered", "dead"}
  BY DEF VerdictOf, Verdict
<1>5. \A r : Having(result, r) \subseteq targets[w]
  BY DEF Having
<1>6. /\ phase' = [phase EXCEPT ![w] = "finalize"]
      /\ verdict' = [verdict EXCEPT ![w] = VerdictOf(result)]
  BY <1>1 DEF Decide
<1>7. /\ received' \subseteq Row \X Device
      /\ repeated' = {}
      /\ blurred \subseteq blurred' /\ blurred' \subseteq Row
      /\ \A n \in Row, d \in Device : <<n, d>> \in received' =>
           \/ <<n, d>> \in received \/ n \in blurred'
           \/ n = current[w] /\ d \in Having(result, "delivered")
  <2>1. Having(result, "delivered") \cup lost \in SUBSET targets[w]
    BY <1>5
  <2>2. current[w] \in Row
    BY <1>3, DispatchAssumption DEF IInv, TypeOK, InHand
  <2>3. blurred \subseteq blurred' /\ blurred' \subseteq Row /\ (lost # {} => current[w] \in blurred')
    BY <1>2, <2>2 DEF IInv, TypeOK
  <2> QED
    BY <1>2, <1>3, <2>1, <2>3, Accepting
<1>8. WorkersOK'
  BY <1>1, <1>3, <1>4, <1>5, <1>6 DEF IInv, TypeOK, WorkersOK, InHand, InBatch, Phase
<1>9. OutboxOK' /\ RestOK' /\ Kept
  BY <1>3, <1>7 DEF IInv, TypeOK, OutboxOK, RestOK, Kept, outboxVars
<1>10. Held' /\ Timed'
  BY <1>3, <1>9, LeasesKept DEF outboxVars
<1>11. Counted' /\ Known'
  <2>1. \A n \in Row : AboutToSettle(n) => AboutToSettle(n)'
    BY <1>3, <1>6 DEF IInv, TypeOK, AboutToSettle
  <2>2. Having(result, "delivered") # {} => AboutToSettle(current[w])'
    BY <1>3, <1>4, <1>6 DEF IInv, TypeOK, AboutToSettle
  <2> QED
    BY <1>3, <1>7, <2>1, <2>2 DEF IInv, Counted, Known, outboxVars
<1> QED
  BY <1>8, <1>9, <1>10, <1>11, TypeParts DEF IInv, TypeOK, WorkersOK, OutboxOK, RestOK

LEMMA BatchRefusedStep ==
  ASSUME IInv, NEW w \in Worker, BatchRefused(w)
  PROVE  IInv'
<1>1. /\ phase[w] = "send" /\ phase' = [phase EXCEPT ![w] = "finalize"]
      /\ \E v \in Verdict : verdict' = [verdict EXCEPT ![w] = v]
      /\ UNCHANGED <<outboxVars, active, batch, current, targets, invalid, seen, rerun, since,
                     busy, historyVars, faults>>
  BY DEF BatchRefused, Decide, Verdict
<1>2. WorkersOK'
  BY <1>1 DEF IInv, TypeOK, WorkersOK, InHand, InBatch, Phase
<1>3. OutboxOK' /\ RestOK' /\ Kept
  BY <1>1 DEF IInv, TypeOK, OutboxOK, RestOK, Kept, outboxVars, historyVars
<1>4. Held' /\ Timed'
  BY <1>1, <1>3, LeasesKept DEF outboxVars
<1>5. \A n \in Row : AboutToSettle(n) => AboutToSettle(n)'
  BY <1>1 DEF IInv, TypeOK, AboutToSettle
<1>6. Counted' /\ Known'
  BY <1>1, <1>5, KnownKept DEF IInv, Counted, outboxVars, historyVars
<1> QED
  BY <1>2, <1>3, <1>4, <1>6, TypeParts DEF IInv, TypeOK, WorkersOK, OutboxOK, RestOK

LEMMA NoAnswerStep ==
  ASSUME IInv, NEW w \in Worker, NoAnswer(w)
  PROVE  IInv'
<1>1. /\ phase[w] = "send" /\ phase' = [phase EXCEPT ![w] = "finalize"]
      /\ verdict' = [verdict EXCEPT ![w] = "retry"]
      /\ blurred' = blurred \cup {current[w]}
      /\ UNCHANGED <<outboxVars, active, batch, current, targets, invalid, seen, rerun, since,
                     busy, faults>>
  BY DEF NoAnswer, Decide
<1>2. PICK devices \in SUBSET targets[w] : Accept(current[w], devices)
  BY DEF NoAnswer
<1>3. /\ received' \subseteq Row \X Device /\ repeated' = {}
      /\ \A n \in Row, d \in Device : <<n, d>> \in received' =>
           <<n, d>> \in received \/ (n = current[w] /\ d \in devices)
  BY <1>1, <1>2, Accepting
<1>4. WorkersOK'
  BY <1>1 DEF IInv, TypeOK, WorkersOK, InHand, InBatch, Phase, Verdict
<1>5. OutboxOK' /\ RestOK' /\ Kept
  <2>1. current[w] \in Row
    BY <1>1, DispatchAssumption DEF IInv, TypeOK, InHand
  <2> QED
    BY <1>1, <1>3, <2>1 DEF IInv, TypeOK, OutboxOK, RestOK, Kept, outboxVars
<1>6. Held' /\ Timed'
  BY <1>1, <1>5, LeasesKept DEF outboxVars
<1>7. Counted' /\ Known'
  <2>1. \A n \in Row : AboutToSettle(n) => AboutToSettle(n)'
    BY <1>1 DEF IInv, TypeOK, AboutToSettle
  <2>2. Known'
    BY <1>1, <1>3, <2>1, KnownBlurred DEF outboxVars
  <2> QED
    BY <1>1, <2>2 DEF IInv, Counted, outboxVars
<1> QED
  BY <1>4, <1>5, <1>6, <1>7, TypeParts DEF IInv, TypeOK, WorkersOK, OutboxOK, RestOK

-----------------------------------------------------------------------------
(* The steps that end a row or a cycle.                                    *)

(* What the finalizing UPDATE writes, and when.                            *)
LEMMA Finalizing ==
  ASSUME IInv, NEW w \in Worker, Finalize(w)
  PROVE  /\ phase[w] = "finalize" /\ current[w] \in batch[w] /\ current[w] \in Row
         /\ status[current[w]] = "sending" /\ owner[current[w]] = w
         /\ \E new \in {"delivered", "pending", "dead"}, count \in 0 .. MaxAttempts :
              /\ Finalized(current[w], new, count)
              /\ new = "pending" => /\ verdict[w] = "retry" /\ count < MaxAttempts
                                    /\ count = attempts[current[w]] + 1
<1> USE DispatchAssumption
<1>1. phase[w] = "finalize" /\ current[w] \in batch[w] /\ current[w] \in Row
  BY DEF Finalize, IInv, TypeOK, InHand
<1>2. /\ status[current[w]] = "sending" /\ owner[current[w]] = w
      /\ seen[w][current[w]] = attempts[current[w]]
      /\ attempts[current[w]] \in 0 .. MaxAttempts /\ attempts[current[w]] < MaxAttempts
  BY <1>1 DEF IInv, TypeOK, Held, Counted
<1>3. CASE verdict[w] = "delivered" /\ Finalized(current[w], "delivered", attempts[current[w]])
  BY <1>1, <1>2, <1>3
<1>4. CASE /\ verdict[w] = "retry" /\ seen[w][current[w]] + 1 < MaxAttempts
           /\ Finalized(current[w], "pending", seen[w][current[w]] + 1)
  <2>1. attempts[current[w]] + 1 \in 0 .. MaxAttempts /\ attempts[current[w]] + 1 < MaxAttempts
    BY <1>2, <1>4
  <2> QED
    BY <1>1, <1>2, <1>4, <2>1
<1>5. CASE Finalized(current[w], "dead", seen[w][current[w]] + 1)
  <2>1. attempts[current[w]] + 1 \in 0 .. MaxAttempts
    BY <1>2
  <2> QED
    BY <1>1, <1>2, <1>5, <2>1
<1> QED
  BY <1>3, <1>4, <1>5 DEF Finalize

LEMMA FinalizeStep ==
  ASSUME IInv, NEW w \in Worker, Finalize(w)
  PROVE  IInv'
<1>1. /\ phase[w] = "finalize" /\ current[w] \in batch[w] /\ current[w] \in Row
      /\ status[current[w]] = "sending" /\ current[w] # NoRow
  BY Finalizing, DispatchAssumption
<1>2. PICK new \in {"delivered", "pending", "dead"}, count \in 0 .. MaxAttempts :
        /\ Finalized(current[w], new, count)
        /\ new = "pending" => verdict[w] = "retry" /\ count < MaxAttempts
  BY Finalizing
<1>3. active' = active \ invalid[w] /\ NextRow(w) /\ UNCHANGED <<historyVars, faults>>
  BY DEF Finalize
<1>4. /\ WorkersOK' /\ Kept
      /\ \A v \in Worker : current[w] \notin batch'[v]
      /\ \A v \in Worker : v # w => UNCHANGED <<phase[v], current[v], verdict[v]>>
  BY <1>1, <1>3, RowEnds
<1>5. \A n \in Row : n # current[w] =>
        UNCHANGED <<status[n], attempts[n], owner[n], age[n]>>
  BY <1>2 DEF Finalized, IInv, TypeOK
<1>6. status'[current[w]] = new /\ attempts'[current[w]] = count
  BY <1>1, <1>2 DEF Finalized, IInv, TypeOK
<1>7. OutboxOK'
  BY <1>1, <1>2, DispatchAssumption DEF Finalized, IInv, TypeOK, OutboxOK, Settled
<1>8. RestOK'
  BY <1>3 DEF IInv, TypeOK, RestOK, historyVars
<1>9. Held' /\ Timed'
  <2>1. \A v \in Worker : \A n \in batch'[v] : n \in Row /\ n # current[w]
    BY <1>4 DEF Kept, IInv, TypeOK
  <2> QED
    BY <1>4, <1>5, <2>1, LeasesKept
<1>10. Counted'
  <2>1. ASSUME NEW n \in Row, status'[n] \in {"pending", "sending"}
        PROVE  attempts'[n] < MaxAttempts
    <3>1. CASE n = current[w]
      BY <1>2, <1>6, <2>1, <3>1
    <3>2. CASE n # current[w]
      BY <1>5, <2>1, <3>2 DEF IInv, Counted
    <3> QED
      BY <3>1, <3>2
  <2> QED
    BY <2>1 DEF Counted
<1>11. Known'
  <2>1. \A n \in Row : status[n] \in Settled => status'[n] \in Settled
    BY <1>1, <1>5 DEF Settled
  <2>2. ASSUME NEW n \in Row, AboutToSettle(n)
        PROVE  AboutToSettle(n)' \/ status'[n] \in Settled
    <3>1. PICK v \in Worker : /\ current[v] = n /\ phase[v] = "finalize"
                              /\ verdict[v] \in {"delivered", "dead"}
      BY <2>2 DEF AboutToSettle
    <3>2. CASE v = w
      BY <1>2, <1>6, <3>1, <3>2 DEF Settled
    <3>3. CASE v # w
      BY <1>4, <3>1, <3>3 DEF AboutToSettle
    <3> QED
      BY <3>2, <3>3
  <2> QED
    BY <1>3, <2>1, <2>2, KnownKept DEF historyVars
<1> QED
  BY <1>4, <1>7, <1>8, <1>9, <1>10, <1>11, TypeParts
     DEF IInv, TypeOK, WorkersOK, OutboxOK, RestOK

LEMMA RowFailsStep ==
  ASSUME IInv, NEW w \in Worker, RowFails(w)
  PROVE  IInv'
<1>1. /\ phase[w] \in {"resolve", "finalize"} /\ NextRow(w)
      /\ active' \subseteq active /\ faults' = faults + 1 /\ faults < MaxFaults
      /\ blurred' = IF phase[w] = "finalize" THEN blurred \cup {current[w]} ELSE blurred
      /\ UNCHANGED <<outboxVars, received, repeated>>
  BY DEF RowFails
<1>2. current[w] \in Row /\ current[w] # NoRow
  BY <1>1, DispatchAssumption DEF IInv, TypeOK, InHand
<1>3. /\ WorkersOK' /\ Kept
      /\ \A v \in Worker : v # w => UNCHANGED <<phase[v], current[v], verdict[v]>>
  BY <1>1, <1>2, RowEnds
<1>4. OutboxOK' /\ RestOK'
  <2>1. blurred' \subseteq Row /\ blurred \subseteq blurred'
    BY <1>1, <1>2 DEF IInv, TypeOK
  <2>2. faults' \in 0 .. MaxFaults
    BY <1>1, DispatchAssumption DEF IInv, TypeOK
  <2> QED
    BY <1>1, <2>1, <2>2 DEF IInv, TypeOK, OutboxOK, RestOK, outboxVars
<1>5. Held' /\ Timed'
  BY <1>1, <1>3, LeasesKept DEF outboxVars
<1>6. Known'
  <2>1. ASSUME NEW n \in Row, AboutToSettle(n)
        PROVE  AboutToSettle(n)' \/ n \in blurred'
    <3>1. PICK v \in Worker : /\ current[v] = n /\ phase[v] = "finalize"
                              /\ verdict[v] \in {"delivered", "dead"}
      BY <2>1 DEF AboutToSettle
    <3>2. CASE v = w
      BY <1>1, <3>1, <3>2
    <3>3. CASE v # w
      BY <1>3, <3>1, <3>3 DEF AboutToSettle
    <3> QED
      BY <3>2, <3>3
  <2>2. blurred \subseteq blurred'
    BY <1>1
  <2> QED
    BY <1>1, <2>1, <2>2, KnownKept DEF outboxVars
<1> QED
  BY <1>1, <1>3, <1>4, <1>5, <1>6, TypeParts
     DEF IInv, TypeOK, WorkersOK, OutboxOK, RestOK, Counted, outboxVars

LEMMA CycleFailsStep ==
  ASSUME IInv, NEW w \in Worker, CycleFails(w)
  PROVE  IInv'
<1>1. /\ phase[w] \in {"reclaim", "claim", "renew"} /\ EndCycle(w)
      /\ faults' = faults + 1 /\ faults < MaxFaults
      /\ UNCHANGED <<outboxVars, active, rowVars, historyVars>>
  BY DEF CycleFails
<1>2. WorkersOK' /\ Kept
  BY <1>1, CycleEnds
<1>3. OutboxOK' /\ RestOK'
  <2>1. faults' \in 0 .. MaxFaults
    BY <1>1, DispatchAssumption DEF IInv, TypeOK
  <2> QED
    BY <1>1, <2>1 DEF IInv, TypeOK, OutboxOK, RestOK, outboxVars, historyVars
<1>4. Held' /\ Timed'
  BY <1>1, <1>2, LeasesKept DEF outboxVars
<1>5. \A n \in Row : AboutToSettle(n) => AboutToSettle(n)'
  BY <1>1 DEF IInv, TypeOK, AboutToSettle, EndCycle, rowVars
<1>6. Counted' /\ Known'
  BY <1>1, <1>5, KnownKept DEF IInv, Counted, outboxVars, historyVars
<1> QED
  BY <1>2, <1>3, <1>4, <1>6, TypeParts DEF IInv, TypeOK, WorkersOK, OutboxOK, RestOK

LEMMA CrashStep ==
  ASSUME IInv, NEW w \in Worker, Crash(w)
  PROVE  IInv'
<1> USE DispatchAssumption
<1>1. /\ phase' = [phase EXCEPT ![w] = "down"]
      /\ batch' = [batch EXCEPT ![w] = {}]
      /\ seen' = [seen EXCEPT ![w] = [n \in Row |-> 0]]
      /\ rerun' = [rerun EXCEPT ![w] = FALSE]
      /\ since' = [since EXCEPT ![w] = 0]
      /\ busy' = [busy EXCEPT ![w] = 0]
      /\ current' = [current EXCEPT ![w] = NoRow]
      /\ targets' = [targets EXCEPT ![w] = {}]
      /\ invalid' = [invalid EXCEPT ![w] = {}]
      /\ verdict' = [verdict EXCEPT ![w] = "none"]
  BY DEF Crash
<1>2. /\ owner' = [n \in Row |-> IF owner[n] = w THEN Departed ELSE owner[n]]
      /\ active' \subseteq active /\ faults' = faults + 1 /\ faults < MaxFaults
      /\ UNCHANGED <<status, attempts, due, age>>
  BY DEF Crash
<1>3. blurred' = IF phase[w] \in {"send", "finalize"} THEN blurred \cup {current[w]} ELSE blurred
  BY DEF Crash
<1>4. IF phase[w] = "send"
        THEN \E devices \in SUBSET targets[w] : Accept(current[w], devices)
        ELSE UNCHANGED <<received, repeated>>
  BY DEF Crash
<1>5. WorkersOK'
  <2>1. \A v \in Worker : InHand(v)'
    BY <1>1 DEF IInv, TypeOK, InHand, InBatch
  <2> QED
    BY <1>1, <2>1 DEF IInv, TypeOK, WorkersOK, Phase, Verdict
<1>6. Kept
  BY <1>1 DEF IInv, TypeOK, Kept
<1>7. Held' /\ Timed'
  <2>1. ASSUME NEW v \in Worker, NEW n \in batch'[v]
        PROVE  status'[n] = status[n] /\ owner'[n] = owner[n] /\ attempts'[n] = attempts[n]
               /\ age'[n] = age[n]
    <3>1. v # w /\ n \in batch[v] /\ n \in Row
      BY <1>1, <2>1 DEF IInv, TypeOK
    <3>2. owner[n] = v
      BY <3>1 DEF IInv, Held
    <3> QED
      BY <1>2, <3>1, <3>2
  <2> QED
    BY <1>6, <2>1, LeasesKept
<1>8. OutboxOK'
  BY <1>2 DEF IInv, TypeOK, OutboxOK
<1>9. /\ received' \subseteq Row \X Device /\ repeated' = {}
      /\ \A n \in Row, d \in Device : <<n, d>> \in received' =>
           <<n, d>> \in received \/ (n = current[w] /\ phase[w] = "send")
  <2>1. CASE phase[w] = "send"
    BY <1>4, <2>1, Accepting
  <2>2. CASE phase[w] # "send"
    BY <1>4, <2>2 DEF IInv, TypeOK, Known
  <2> QED
    BY <2>1, <2>2
<1>10. RestOK'
  <2>1. blurred' \subseteq Row
    BY <1>3 DEF IInv, TypeOK, InHand
  <2>2. faults' \in 0 .. MaxFaults
    BY <1>2 DEF IInv, TypeOK
  <2> QED
    BY <1>2, <1>9, <2>1, <2>2 DEF IInv, TypeOK, RestOK
<1>11. Known'
  <2>1. \A n \in Row : AboutToSettle(n) => AboutToSettle(n)' \/ n \in blurred'
    <3>1. ASSUME NEW n \in Row, NEW v \in Worker, current[v] = n, phase[v] = "finalize",
                 verdict[v] \in {"delivered", "dead"}
          PROVE  AboutToSettle(n)' \/ n \in blurred'
      <4>1. CASE v = w
        BY <1>3, <3>1, <4>1
      <4>2. CASE v # w
        BY <1>1, <3>1, <4>2 DEF AboutToSettle, IInv, TypeOK
      <4> QED
        BY <4>1, <4>2
    <3> QED
      BY <3>1 DEF AboutToSettle
  <2>2. /\ blurred \subseteq blurred'
        /\ \A n \in Row, d \in Device : <<n, d>> \in received' =>
             <<n, d>> \in received \/ n \in blurred'
    BY <1>3, <1>9
  <2> QED
    BY <1>2, <1>9, <2>1, <2>2, KnownBlurred
<1> QED
  BY <1>2, <1>5, <1>7, <1>8, <1>10, <1>11, TypeParts
     DEF IInv, TypeOK, WorkersOK, OutboxOK, RestOK, Counted

LEMMA RestartStep ==
  ASSUME IInv, NEW w \in Worker, Restart(w)
  PROVE  IInv'
<1>1. /\ phase[w] = "down" /\ phase' = [phase EXCEPT ![w] = "idle"]
      /\ UNCHANGED <<outboxVars, active, batch, rowVars, seen, rerun, since, busy,
                     historyVars, faults>>
  BY DEF Restart
<1>2. WorkersOK'
  BY <1>1 DEF IInv, TypeOK, WorkersOK, InHand, InBatch, Phase, rowVars
<1>3. OutboxOK' /\ RestOK' /\ Kept
  BY <1>1 DEF IInv, TypeOK, OutboxOK, RestOK, Kept, outboxVars, historyVars
<1>4. Held' /\ Timed'
  BY <1>1, <1>3, LeasesKept DEF outboxVars
<1>5. \A n \in Row : AboutToSettle(n) => AboutToSettle(n)'
  BY <1>1 DEF IInv, TypeOK, AboutToSettle, rowVars
<1>6. Counted' /\ Known'
  BY <1>1, <1>5, KnownKept DEF IInv, Counted, outboxVars, historyVars
<1> QED
  BY <1>2, <1>3, <1>4, <1>6, TypeParts DEF IInv, TypeOK, WorkersOK, OutboxOK, RestOK

-----------------------------------------------------------------------------
(* The steps around the workers.                                           *)
LEMMA EnqueueStep ==
  ASSUME IInv, NEW n \in Row, Enqueue(n)
  PROVE  IInv'
<1> USE DispatchAssumption
<1>1. /\ status[n] = "none" /\ status' = [status EXCEPT ![n] = "pending"]
      /\ attempts' = [attempts EXCEPT ![n] = IF n \in BestEffort THEN MaxAttempts - 1 ELSE 0]
      /\ due' = [due EXCEPT ![n] = TRUE]
      /\ UNCHANGED <<owner, age, active, workerVars, rowVars, historyVars, faults>>
  BY DEF Enqueue
<1>2. attempts'[n] \in 0 .. MaxAttempts /\ attempts'[n] < MaxAttempts
  BY <1>1 DEF IInv, TypeOK
<1>3. \A m \in Row : m # n => status'[m] = status[m] /\ attempts'[m] = attempts[m]
  BY <1>1 DEF IInv, TypeOK
<1>4. OutboxOK' /\ RestOK'
  <2>1. attempts' \in [Row -> 0 .. MaxAttempts]
    <3>1. IF n \in BestEffort THEN MaxAttempts - 1 \in 0 .. MaxAttempts ELSE 0 \in 0 .. MaxAttempts
      OBVIOUS
    <3> QED
      BY <1>1, <3>1 DEF IInv, TypeOK
  <2> QED
    BY <1>1, <2>1 DEF IInv, TypeOK, OutboxOK, RestOK, historyVars
<1>5. WorkersOK' /\ Kept
  BY <1>1 DEF IInv, TypeOK, WorkersOK, InHand, InBatch, Kept, workerVars, rowVars
<1>6. Held' /\ Timed'
  <2>1. \A v \in Worker : \A m \in batch'[v] : m \in Row /\ m # n
    BY <1>1, <1>5 DEF IInv, TypeOK, Held, Kept
  <2> QED
    BY <1>1, <1>3, <1>5, <2>1, LeasesKept
<1>7. Counted' /\ Known'
  <2>1. \A m \in Row : status[m] \in Settled => status'[m] \in Settled
    BY <1>1, <1>3 DEF Settled
  <2>2. \A m \in Row : AboutToSettle(m) => AboutToSettle(m)'
    BY <1>1 DEF AboutToSettle, workerVars, rowVars
  <2>3. blurred \subseteq blurred' /\ UNCHANGED <<received, repeated>>
    BY <1>1 DEF historyVars
  <2>4. Known'
    BY <2>1, <2>2, <2>3, KnownKept
  <2> QED
    BY <1>2, <1>3, <2>4 DEF IInv, Counted
<1> QED
  BY <1>4, <1>5, <1>6, <1>7, TypeParts DEF IInv, TypeOK, WorkersOK, OutboxOK, RestOK

(* Steps that only touch the clock of the backoff or the devices, and steps*)
(* that leave everything as it is.                                         *)
LEMMA QuietStep ==
  ASSUME IInv,
         \/ \E n \in Row : BackoffEnds(n)
         \/ \E d \in Device : DevicesChange(d)
         \/ UNCHANGED vars
  PROVE  IInv'
<1>1. UNCHANGED <<status, attempts, owner, age, workerVars, rowVars, historyVars>>
  BY DEF BackoffEnds, DevicesChange, vars, outboxVars, workerVars, rowVars, historyVars
<1>2. due' \in [Row -> BOOLEAN] /\ active' \subseteq Device /\ faults' \in 0 .. MaxFaults
  <2>1. ASSUME NEW n \in Row, BackoffEnds(n)
        PROVE  due' \in [Row -> BOOLEAN] /\ UNCHANGED <<active, faults>>
    BY <2>1 DEF BackoffEnds, IInv, TypeOK
  <2>2. ASSUME NEW d \in Device, DevicesChange(d)
        PROVE  due' = due /\ active' \subseteq Device /\ faults' \in 0 .. MaxFaults
    BY <2>2, DispatchAssumption DEF DevicesChange, outboxVars, IInv, TypeOK
  <2>3. CASE UNCHANGED vars
    BY <2>3 DEF vars, IInv, TypeOK
  <2> QED
    BY <2>1, <2>2, <2>3 DEF IInv, TypeOK
<1>3. WorkersOK' /\ OutboxOK' /\ RestOK' /\ Kept
  BY <1>1, <1>2 DEF IInv, TypeOK, WorkersOK, InHand, InBatch, OutboxOK, RestOK, Kept,
                    workerVars, rowVars, historyVars
<1>4. Held' /\ Timed'
  BY <1>1, <1>3, LeasesKept
<1>5. \A n \in Row : AboutToSettle(n) => AboutToSettle(n)'
  BY <1>1 DEF AboutToSettle, workerVars, rowVars
<1>6. Counted' /\ Known'
  BY <1>1, <1>5, KnownKept DEF IInv, Counted, historyVars
<1> QED
  BY <1>3, <1>4, <1>6, TypeParts DEF IInv, TypeOK, WorkersOK, OutboxOK, RestOK

LEMMA TickStep ==
  ASSUME IInv, Tick
  PROVE  IInv'
<1> USE DispatchAssumption
<1>1. /\ \A w \in Worker : InBatch(w) => busy[w] < RowTime
      /\ age' = [n \in Row |-> IF Sending(n) /\ age[n] < LeaseTTL THEN age[n] + 1 ELSE age[n]]
      /\ busy' = [w \in Worker |-> IF InBatch(w) THEN busy[w] + 1 ELSE busy[w]]
      /\ since' = [w \in Worker |->
           IF InBatch(w) /\ since[w] < RenewEvery THEN since[w] + 1 ELSE since[w]]
      /\ UNCHANGED <<status, attempts, due, owner, active, phase, batch, rowVars, seen, rerun,
                     historyVars, faults>>
  BY DEF Tick
<1>2. age' \in [Row -> 0 .. LeaseTTL]
  BY <1>1 DEF IInv, TypeOK
<1>3. busy' \in [Worker -> 0 .. RowTime]
  BY <1>1 DEF IInv, TypeOK
<1>4. since' \in [Worker -> 0 .. RenewEvery]
  BY <1>1 DEF IInv, TypeOK
<1>5. WorkersOK' /\ OutboxOK' /\ RestOK'
  BY <1>1, <1>2, <1>3, <1>4
     DEF IInv, TypeOK, WorkersOK, InHand, InBatch, OutboxOK, RestOK, rowVars, historyVars
<1>6. Held'
  BY <1>1 DEF IInv, Held
<1>7. Timed'
  <2>1. ASSUME NEW w \in Worker, NEW n \in batch'[w]
        PROVE  /\ since'[w] < RenewEvery => age'[n] <= since'[w]
               /\ age'[n] + 1 <= RenewEvery + busy'[w]
    <3>1. n \in batch[w] /\ n \in Row /\ InBatch(w)
      BY <1>1, <2>1 DEF IInv, TypeOK, InHand
    <3>2. /\ since[w] < RenewEvery => age[n] <= since[w]
          /\ age[n] + 1 <= RenewEvery + busy[w]
      BY <3>1 DEF IInv, Timed
    <3>3. /\ age[n] \in Nat /\ since[w] \in Nat /\ busy[w] \in Nat /\ RenewEvery \in Nat
          /\ since[w] <= RenewEvery
      BY <3>1 DEF IInv, TypeOK
    <3>4. /\ age'[n] = age[n] \/ age'[n] = age[n] + 1
          /\ busy'[w] = busy[w] + 1
          /\ since'[w] = IF since[w] < RenewEvery THEN since[w] + 1 ELSE since[w]
      BY <1>1, <3>1
    <3> QED
      BY <3>2, <3>3, <3>4
  <2> QED
    BY <2>1 DEF Timed
<1>8. \A n \in Row : AboutToSettle(n) => AboutToSettle(n)'
  BY <1>1 DEF AboutToSettle, rowVars
<1>9. Counted' /\ Known'
  BY <1>1, <1>8, KnownKept DEF IInv, Counted, historyVars
<1> QED
  BY <1>5, <1>6, <1>7, <1>9, TypeParts DEF IInv, TypeOK, WorkersOK, OutboxOK, RestOK

-----------------------------------------------------------------------------
(* The invariant of the dispatch: every step of every worker, of FCM, of   *)
(* the clock and of the applications around it keeps IInv.                 *)
THEOREM Invariance == Spec => []IInv
<1>1. Init => IInv
  BY Initially
<1>2. IInv /\ [Next]_vars => IInv'
  <2> SUFFICES ASSUME IInv, [Next]_vars
               PROVE  IInv'
    OBVIOUS
  <2>1. ASSUME NEW w \in Worker, RunCycle(w) \/ Work(w) \/ RowFails(w) \/ CycleFails(w)
                                  \/ Crash(w) \/ Restart(w)
        PROVE  IInv'
    BY <2>1, RunCycleStep, ReclaimStep, ClaimStep, RenewStep, ResolveStep, AnswerStep,
       BatchRefusedStep, NoAnswerStep, FinalizeStep, RowFailsStep, CycleFailsStep, CrashStep,
       RestartStep
       DEF Work
  <2>2. ASSUME NEW n \in Row, Enqueue(n)
        PROVE  IInv'
    BY <2>2, EnqueueStep
  <2>3. CASE \/ \E n \in Row : BackoffEnds(n)
             \/ \E d \in Device : DevicesChange(d)
             \/ UNCHANGED vars
    BY <2>3, QuietStep
  <2>4. CASE Tick
    BY <2>4, TickStep
  <2> QED
    BY <2>1, <2>2, <2>3, <2>4 DEF Next
<1> QED
  BY <1>1, <1>2, PTL DEF Spec

(* TypeOK: what the tables and the workers hold is always well formed.     *)
THEOREM TypeCorrectness == Spec => []TypeOK
<1>1. IInv => TypeOK
  BY DEF IInv
<1> QED
  BY <1>1, Invariance, PTL

(* LeasesAreHeld: no lease of a row in a worker's batch runs out, as long  *)
(* as one row takes no longer than the TTL leaves after a renewal.         *)
THEOREM LeasesHeld == Spec => []LeasesAreHeld
<1>1. IInv => LeasesAreHeld
  BY FreshLeases
<1> QED
  BY <1>1, Invariance, PTL

(* DuplicatesAreExplained: no device gets a message twice unless the       *)
(* outcome of a send of that row was lost.                                 *)
THEOREM DuplicatesExplained == Spec => []DuplicatesAreExplained
<1>1. IInv => DuplicatesAreExplained
  BY DEF IInv, Known, DuplicatesAreExplained
<1> QED
  BY <1>1, Invariance, PTL

(* Which steps change the status or the attempts of a row that exists.     *)
LEMMA RowChanges ==
  ASSUME IInv, [Next]_vars, NEW n \in Row, status[n] \notin {"none"},
         ~ UNCHANGED <<status[n], attempts[n]>>
  PROVE  \/ \E w \in Worker : ReclaimStale(w) /\ n \in Expired
         \/ \E w \in Worker : ClaimBatch(w) /\ n \in Claimable
         \/ \E w \in Worker : Finalize(w) /\ n = current[w]
<1>1. ASSUME NEW w \in Worker, RunCycle(w) \/ RowFails(w) \/ CycleFails(w) \/ Crash(w)
                                \/ Restart(w)
      PROVE  FALSE
  BY <1>1 DEF RunCycle, RowFails, CycleFails, Crash, Restart, outboxVars
<1>2. ASSUME NEW w \in Worker, Work(w)
      PROVE  \/ ReclaimStale(w) /\ n \in Expired
             \/ ClaimBatch(w) /\ n \in Claimable
             \/ Finalize(w) /\ n = current[w]
  <2>1. CASE ReclaimStale(w)
    BY <2>1 DEF ReclaimStale, Release, IInv, TypeOK
  <2>2. CASE ClaimBatch(w)
    <3>1. PICK rows \in SUBSET Claimable :
            /\ status' = [m \in Row |-> IF m \in rows THEN "sending" ELSE status[m]]
            /\ attempts' = attempts
      <4>1. CASE Claimable = {}
        BY <2>2, <4>1 DEF ClaimBatch, outboxVars, IInv, TypeOK
      <4>2. CASE Claimable # {}
        BY <2>2, <4>2 DEF ClaimBatch
      <4> QED
        BY <4>1, <4>2
    <3>2. n \in Claimable
      BY <3>1
    <3> QED
      BY <2>2, <3>2
  <2>3. CASE \/ RenewLeasesIfDue(w) \/ ResolveActiveDevices(w) \/ Answer(w) \/ BatchRefused(w)
             \/ NoAnswer(w)
    BY <2>3 DEF RenewLeasesIfDue, ResolveActiveDevices, Answer, BatchRefused, NoAnswer, outboxVars
  <2>4. CASE Finalize(w)
    <3>1. \E new, count : Finalized(current[w], new, count)
      BY <2>4, Finalizing
    <3>2. n # current[w] => UNCHANGED <<status[n], attempts[n]>>
      BY <3>1 DEF Finalized, IInv, TypeOK
    <3> QED
      BY <2>4, <3>2
  <2> QED
    BY <1>2, <2>1, <2>2, <2>3, <2>4 DEF Work
<1>3. ASSUME NEW m \in Row, Enqueue(m) \/ BackoffEnds(m)
      PROVE  FALSE
  BY <1>3 DEF Enqueue, BackoffEnds, IInv, TypeOK
<1>4. ASSUME (\E d \in Device : DevicesChange(d)) \/ Tick \/ UNCHANGED vars
      PROVE  FALSE
  BY <1>4 DEF DevicesChange, Tick, vars, outboxVars
<1> QED
  BY <1>1, <1>2, <1>3, <1>4 DEF Next

(* SettledIsFinal: the finalizing UPDATE names only the row, but a worker  *)
(* that reaches it still has the row, which is then not settled.           *)
THEOREM SettledFinal == Spec => SettledIsFinal
<1>1. ASSUME IInv, [Next]_vars, NEW n \in Row, status[n] \in Settled
      PROVE  status'[n] = status[n] /\ attempts'[n] = attempts[n]
  <2>1. status[n] \notin {"none", "pending", "sending"}
    BY <1>1 DEF Settled
  <2>2. n \notin Expired /\ n \notin Claimable
    BY <2>1 DEF Expired, Claimable, Sending
  <2>3. \A w \in Worker : Finalize(w) => n # current[w]
    BY <1>1, <2>1, Finalizing
  <2> QED
    BY <1>1, <2>1, <2>2, <2>3, RowChanges
<1>2. IInv /\ [Next]_vars =>
        [\A n \in Row : status[n] \in Settled =>
           status'[n] = status[n] /\ attempts'[n] = attempts[n]]_vars
  BY <1>1
<1> QED
  BY <1>2, Invariance, PTL DEF Spec, SettledIsFinal

(* RetriesAreCounted: a row is pending again either because its lease ran  *)
(* out, and then nothing is counted, or after a counted failed attempt.    *)
THEOREM RetriesCounted == Spec => RetriesAreCounted
<1> DEFINE Back(n) ==
       \/ age[n] = LeaseTTL /\ attempts'[n] = attempts[n]
       \/ /\ age[n] < LeaseTTL
          /\ attempts'[n] = attempts[n] + 1
          /\ attempts'[n] < MaxAttempts
<1>1. ASSUME IInv, [Next]_vars, NEW n \in Row, status[n] = "sending", status'[n] = "pending"
      PROVE  Back(n)
  <2>1. CASE \E w \in Worker : ReclaimStale(w) /\ n \in Expired
    <3>1. attempts'[n] = attempts[n] /\ age[n] >= LeaseTTL
      BY <2>1 DEF ReclaimStale, Expired
    <3>2. age[n] \in 0 .. LeaseTTL
      BY <1>1 DEF IInv, TypeOK
    <3> QED
      BY <3>1, <3>2, DispatchAssumption
  <2>2. CASE \E w \in Worker : Finalize(w) /\ n = current[w]
    <3>1. PICK w \in Worker : Finalize(w) /\ n = current[w]
      BY <2>2
    <3>2. n \in batch[w]
      BY <1>1, <3>1, Finalizing
    <3>3. age[n] < LeaseTTL
      BY <1>1, <3>2, FreshLeases DEF LeasesAreHeld
    <3>4. attempts'[n] = attempts[n] + 1 /\ attempts'[n] < MaxAttempts
      <4>1. PICK new \in {"delivered", "pending", "dead"}, count \in 0 .. MaxAttempts :
              /\ Finalized(n, new, count)
              /\ new = "pending" => count < MaxAttempts /\ count = attempts[n] + 1
        BY <1>1, <3>1, Finalizing
      <4>2. status'[n] = new /\ attempts'[n] = count
        BY <1>1, <4>1 DEF Finalized, IInv, TypeOK
      <4> QED
        BY <1>1, <4>1, <4>2
    <3> QED
      BY <3>3, <3>4
  <2>3. n \notin Claimable
    BY <1>1 DEF Claimable
  <2> QED
    BY <1>1, <2>1, <2>2, <2>3, RowChanges
<1>2. IInv /\ [Next]_vars =>
        [\A n \in Row : status[n] = "sending" /\ status'[n] = "pending" => Back(n)]_vars
  BY <1>1
<1> QED
  BY <1>2, Invariance, PTL DEF Spec, RetriesAreCounted

=============================================================================
