---------------------------- MODULE PlatformProofs ----------------------------
(***************************************************************************)
(* Proofs about the parts of Platform that SignInProofs and                *)
(* ProviderTrackingProofs leave: how an instance starts, the positions of  *)
(* a job, and that all parts together keep their types.                    *)
(***************************************************************************)
EXTENDS Platform, SignInProofs, ProviderTrackingProofs, FiniteSetTheorems, TLAPS

-----------------------------------------------------------------------------
(* ServiceStart: for any number of instances, any releases that begin      *)
(* alike, and any failures and changes by hand between their steps.        *)
(*                                                                         *)
(* The session's advisory lock carries the argument: between the moment an *)
(* instance reads the history and the moment it is done, nobody else       *)
(* writes a row of it, so what it found is still so when it acts on it     *)
(* (InstOK). An instance past its migrations holds no lock, and needs      *)
(* none: histories only grow, and the statements it starts with find all   *)
(* they would make.                                                        *)

InstRows == [step : InstanceSteps, release : Releases \cup {<<>>}, next : Nat,
             initial : {"unknown", "empty", "current"}, parts : SUBSET Parts]

Begins(s, t) == Len(s) <= Len(t) /\ \A k \in 1..Len(s) : s[k] = t[k]

\* What an instance has found out is still so.
InstOK(i) ==
    /\ inst[i].step # "down" => inst[i].release \in Releases
    /\ inst[i].step \in {"locked", "prepared", "validated"} => migrator = i
    /\ inst[i].step = "prepared" \/ (inst[i].step = "validated" /\ inst[i].next = 1) =>
         /\ inst[i].initial = "empty" => history = <<>> /\ built = {}
         /\ inst[i].initial = "current" => history = <<>> /\ built = {inst[i].release[1]}
    /\ inst[i].step = "validated" =>
         inst[i].next = Len(history) + 1 /\ Begins(history, inst[i].release)
    /\ inst[i].step \in {"migrated", "absent", "ready"} => Begins(inst[i].release, history)

ServiceInv ==
    /\ history \in Seq(Migrations)
    /\ inst \in [Instances -> InstRows]
    /\ HistoryMatchesSchema
    /\ \A i \in Instances : InstOK(i)

\* What the start that makes the account needs: with an account, whoever still
\* means to make one had looked before there was any.
AccountInv ==
    /\ inst \in [Instances -> InstRows]
    /\ account \in [by : Instances \cup {Nobody}, active : BOOLEAN]
    /\ account.by # Nobody => \A i \in Instances : inst[i].step = "absent" => i \in early

LEMMA ServiceInitInv == ServiceInit => ServiceInv /\ AccountInv
<1> SUFFICES ASSUME ServiceInit PROVE ServiceInv /\ AccountInv
  OBVIOUS
<1>1. Down \in InstRows /\ Down.step = "down"
  BY DEF Down, InstRows, InstanceSteps, Parts
<1>2. inst \in [Instances -> InstRows] /\ \A i \in Instances : inst[i].step = "down"
  BY <1>1 DEF ServiceInit
<1>3. /\ history \in Seq(Migrations) /\ HistoryMatchesSchema /\ account.by = Nobody
      /\ account \in [by : Instances \cup {Nobody}, active : BOOLEAN]
  BY DEF ServiceInit, HistoryMatchesSchema
<1>4. QED
  BY <1>2, <1>3 DEF ServiceInv, AccountInv, InstOK

(* A step of one instance that writes neither the schema nor the history    *)
(* leaves the others with what they know, if the lock they hold stays       *)
(* theirs.                                                                  *)
LEMMA InstFrame ==
    ASSUME ServiceInv, NEW i \in Instances, NEW row \in InstRows,
           inst' = [inst EXCEPT ![i] = row], UNCHANGED <<built, history>>,
           migrator' = migrator \/ migrator = Nobody \/ migrator = i,
           inst'[i] = row => InstOK(i)'
    PROVE  ServiceInv'
<1>1. /\ inst' \in [Instances -> InstRows] /\ inst'[i] = row
      /\ \A j \in Instances : j # i => inst'[j] = inst[j]
  BY DEF ServiceInv
<1>2. ASSUME NEW j \in Instances, j # i PROVE InstOK(j)'
  <2>1. inst'[j] = inst[j] /\ InstOK(j)
    BY <1>1, <1>2 DEF ServiceInv
  <2>2. migrator = j => migrator' = j
    BY <1>2, ReleasesAssumption
  <2>3. QED
    BY <2>1, <2>2 DEF InstOK, Begins
<1>3. \A j \in Instances : InstOK(j)'
  BY <1>1, <1>2
<1>4. HistoryMatchesSchema'
  BY DEF ServiceInv, HistoryMatchesSchema, Recorded
<1>5. QED
  BY <1>1, <1>3, <1>4 DEF ServiceInv

(* The steps of one instance before it writes: they only learn.             *)
LEMMA LearnInv ==
    ASSUME ServiceInv, NEW i \in Instances,
           \/ \E r \in Releases : LoadMigrations(i, r)
           \/ TakeMigrationLock(i) \/ PrepareHistory(i) \/ ValidateHistory(i)
           \/ FinishMigrations(i) \/ InstanceStops(i)
           \/ LookForInitialAdmin(i) \/ CreateInitialAdmin(i) \/ StartWithoutAdmin(i)
    PROVE  ServiceInv'
<1> inst[i] \in InstRows /\ InstOK(i) /\ UNCHANGED <<built, history>>
  BY DEF ServiceInv, LoadMigrations, TakeMigrationLock, PrepareHistory, ValidateHistory,
     FinishMigrations, InstanceStops, LookForInitialAdmin, CreateInitialAdmin, StartWithoutAdmin
<1>1. ASSUME NEW r \in Releases, LoadMigrations(i, r) PROVE ServiceInv'
  <2> DEFINE row == [Down EXCEPT !.step = "loaded", !.release = r]
  <2>1. /\ row \in InstRows /\ row.step = "loaded" /\ row.release = r
        /\ inst' = [inst EXCEPT ![i] = row] /\ migrator' = migrator
    BY <1>1 DEF LoadMigrations, Down, InstRows, InstanceSteps, Parts
  <2> HIDE DEF row
  <2>2. inst'[i] = row => InstOK(i)'
    BY <2>1 DEF InstOK
  <2>3. QED
    BY <2>1, <2>2, InstFrame
<1>2. CASE TakeMigrationLock(i)
  <2> DEFINE row == [inst[i] EXCEPT !.step = "locked"]
  <2>1. /\ row \in InstRows /\ row.step = "locked" /\ row.release = inst[i].release
        /\ inst' = [inst EXCEPT ![i] = row] /\ migrator = Nobody /\ migrator' = i
        /\ inst[i].step = "loaded"
    BY <1>2 DEF TakeMigrationLock, Goes, InstRows, InstanceSteps
  <2> HIDE DEF row
  <2>2. inst'[i] = row => InstOK(i)'
    BY <2>1 DEF InstOK
  <2>3. QED
    BY <2>1, <2>2, InstFrame
<1>3. CASE PrepareHistory(i)
  <2> DEFINE state == IF history # <<>> THEN "unknown" ELSE ClassifyInitialSchema(inst[i].release)
  <2> DEFINE row == [inst[i] EXCEPT !.step = "prepared", !.initial = state]
  <2>1. /\ inst' = [inst EXCEPT ![i] = row] /\ migrator' = migrator /\ state # "refused"
        /\ inst[i].step = "locked"
    BY <1>3 DEF PrepareHistory
  <2>2. /\ state \in {"unknown", "empty", "current"}
        /\ state = "empty" => history = <<>> /\ built = {}
        /\ state = "current" => history = <<>> /\ built = Shipped(inst[i].release, 1)
    BY <2>1 DEF ClassifyInitialSchema, SchemaMatches, ColumnsMatch
  <2>3. Shipped(inst[i].release, 1) = {inst[i].release[1]}
    BY DEF Shipped
  <2> HIDE DEF state
  <2>4. /\ row \in InstRows /\ row.step = "prepared" /\ row.release = inst[i].release
        /\ row.initial = state
    BY <2>2 DEF InstRows, InstanceSteps
  <2> HIDE DEF row
  <2>5. inst'[i] = row => InstOK(i)'
    BY <2>1, <2>2, <2>3, <2>4 DEF InstOK
  <2>6. QED
    BY <2>1, <2>4, <2>5, InstFrame
<1>4. CASE ValidateHistory(i)
  <2>0. PICK n \in Nat : n = Len(history) + 1
    BY DEF ServiceInv
  <2> DEFINE row == [inst[i] EXCEPT !.step = "validated", !.next = n]
  <2>1. /\ inst' = [inst EXCEPT ![i] = row] /\ migrator' = migrator
        /\ inst[i].step = "prepared" /\ Begins(history, inst[i].release)
    BY <1>4, <2>0 DEF ValidateHistory, AppliedMigrationsMatch, Begins
  <2>2. row \in InstRows /\ row.release = inst[i].release
    BY DEF InstRows, InstanceSteps
  <2>3. row.step = "validated" /\ row.initial = inst[i].initial /\ row.next = Len(history) + 1
    BY <2>0 DEF InstRows
  <2> HIDE DEF row
  <2>4. migrator = i
    BY <2>1 DEF InstOK
  <2>5. Begins(history', inst[i].release)
    BY <2>1 DEF Begins
  <2>6. inst'[i] = row => InstOK(i)'
    BY <2>1, <2>2, <2>3, <2>4, <2>5 DEF InstOK
  <2>7. QED
    BY <2>1, <2>2, <2>6, InstFrame
<1>5. CASE FinishMigrations(i)
  <2> DEFINE row == [inst[i] EXCEPT !.step = "migrated"]
  <2>1. /\ inst' = [inst EXCEPT ![i] = row] /\ inst[i].step = "validated"
        /\ inst[i].next = Len(inst[i].release) + 1
    BY <1>5 DEF FinishMigrations, Goes
  <2>2. row \in InstRows /\ row.step = "migrated" /\ row.release = inst[i].release
    BY DEF InstRows, InstanceSteps
  <2>3. migrator = i /\ Begins(history, inst[i].release) /\ inst[i].next = Len(history) + 1
    BY <2>1 DEF InstOK
  <2>4. Len(inst[i].release) = Len(history)
    <3>1. inst[i].release \in Seq(Migrations) /\ history \in Seq(Migrations)
      BY <2>1, ReleasesAssumption DEF InstOK, ServiceInv
    <3>2. Len(inst[i].release) \in Nat /\ Len(history) \in Nat
      BY <3>1
    <3>3. QED
      BY <2>1, <2>3, <3>2
  <2>5. Begins(inst[i].release, history)
    BY <2>3, <2>4 DEF Begins
  <2> HIDE DEF row
  <2>6. inst'[i] = row => InstOK(i)'
    BY <2>1, <2>2, <2>5 DEF InstOK, Begins
  <2>7. QED
    BY <2>1, <2>2, <2>3, <2>6, InstFrame
<1>6. CASE InstanceStops(i)
  <2>1. /\ inst' = [inst EXCEPT ![i] = Down] /\ (migrator' = migrator \/ migrator = i)
        /\ Down \in InstRows /\ Down.step = "down"
    BY <1>6 DEF InstanceStops, Down, InstRows, InstanceSteps, Parts
  <2>2. inst'[i] = Down => InstOK(i)'
    BY <2>1 DEF InstOK
  <2>3. QED
    BY <2>1, <2>2, InstFrame
<1>7. CASE LookForInitialAdmin(i) \/ CreateInitialAdmin(i) \/ StartWithoutAdmin(i)
  <2>1. /\ migrator' = migrator /\ inst[i].step \in {"migrated", "absent"}
        /\ \E to \in {"absent", "ready"} : inst' = [inst EXCEPT ![i].step = to]
    BY <1>7 DEF LookForInitialAdmin, CreateInitialAdmin, StartWithoutAdmin, Goes
  <2>2. PICK to \in {"absent", "ready"} : inst' = [inst EXCEPT ![i].step = to]
    BY <2>1
  <2> DEFINE row == [inst[i] EXCEPT !.step = to]
  <2>3. /\ row \in InstRows /\ row.step = to /\ row.release = inst[i].release
        /\ inst' = [inst EXCEPT ![i] = row]
    BY <2>2 DEF InstRows, InstanceSteps
  <2> HIDE DEF row
  <2>4. inst'[i] = row => InstOK(i)'
    BY <2>1, <2>3 DEF InstOK, Begins
  <2>5. QED
    BY <2>1, <2>3, <2>4, InstFrame
<1>8. QED
  BY <1>1, <1>2, <1>3, <1>4, <1>5, <1>6, <1>7

(* One migration more: the schema and the history grow by the same one.     *)
LEMMA ApplyInv ==
    ASSUME ServiceInv, NEW i \in Instances, ApplyMigration(i)
    PROVE  ServiceInv'
<1>1. PICK r, n, k : r = inst[i].release /\ n = Len(history) /\ k = inst[i].next
  OBVIOUS
<1>2. /\ inst[i] \in InstRows /\ inst[i].step = "validated" /\ InstOK(i) /\ migrator = i
      /\ r \in Releases /\ r \in Seq(Migrations) /\ n \in Nat
      /\ k = n + 1 /\ k \in 1..Len(r) /\ r[k] \in Migrations
  <2>1. /\ inst[i] \in InstRows /\ inst[i].step = "validated" /\ InstOK(i)
        /\ k = n + 1 /\ k <= Len(r) /\ n \in Nat
    BY <1>1 DEF ApplyMigration, ServiceInv
  <2>2. migrator = i /\ r \in Releases /\ r \in Seq(Migrations)
    BY <1>1, <2>1, ReleasesAssumption DEF InstOK
  <2>3. k \in 1..Len(r)
    BY <2>1, <2>2
  <2>4. QED
    BY <2>1, <2>2, <2>3
<1> DEFINE row == [inst[i] EXCEPT !.next = k + 1]
<1>3. /\ history' = Append(history, r[k]) /\ inst' = [inst EXCEPT ![i] = row]
      /\ migrator' = migrator
      /\ k = 1 => inst[i].initial # "unknown"
      /\ built' = IF k = 1 /\ inst[i].initial = "current" THEN built ELSE built \cup {r[k]}
  BY <1>1 DEF ApplyMigration
<1>4. /\ row \in InstRows /\ row.step = "validated" /\ row.next = k + 1 /\ row.release = r
      /\ row.initial = inst[i].initial
  BY <1>1, <1>2 DEF InstRows
<1> HIDE DEF row
<1>5. /\ inst' \in [Instances -> InstRows] /\ inst'[i] = row
      /\ \A j \in Instances : j # i => inst'[j] = inst[j]
  BY <1>3, <1>4 DEF ServiceInv
<1>6. /\ history' \in Seq(Migrations) /\ Len(history') = n + 1 /\ history'[n + 1] = r[k]
      /\ \A m \in 1..n : history'[m] = history[m]
  BY <1>1, <1>2, <1>3 DEF ServiceInv
<1>7. Begins(history', r)
  <2>1. Begins(history, r)
    BY <1>1, <1>2 DEF InstOK
  <2>2. \A m \in 1..(n + 1) : m \in 1..n \/ m = n + 1
    BY <1>2
  <2>3. \A m \in 1..(n + 1) : history'[m] = r[m]
    BY <1>1, <1>2, <1>6, <2>1, <2>2 DEF Begins
  <2>4. QED
    BY <1>2, <1>6, <2>3 DEF Begins
<1>8. HistoryMatchesSchema'
  <2>1. Recorded' = Recorded \cup {r[k]}
    <3>1. Recorded' = {history'[m] : m \in 1..(n + 1)} /\ Recorded = {history[m] : m \in 1..n}
      BY <1>1, <1>6 DEF Recorded
    <3>2. \A m \in 1..(n + 1) : m \in 1..n \/ m = n + 1
      BY <1>2
    <3>3. n + 1 \in 1..(n + 1) /\ \A m \in 1..n : m \in 1..(n + 1)
      BY <1>2
    <3>4. QED
      BY <1>6, <3>1, <3>2, <3>3
  <2>2. built' = Recorded'
    <3>1. CASE k = 1
      <4>1. n = 0 /\ Recorded = {}
        BY <1>1, <1>2, <3>1 DEF Recorded
      <4>2. inst[i].initial \in {"empty", "current"}
        BY <1>2, <1>3, <3>1 DEF InstRows
      <4>3. CASE inst[i].initial = "empty"
        <5>1. built = {}
          BY <1>1, <1>2, <3>1, <4>3 DEF InstOK
        <5>2. QED
          BY <1>3, <2>1, <4>1, <4>3, <5>1
      <4>4. CASE inst[i].initial = "current"
        <5>1. built = {r[1]}
          BY <1>1, <1>2, <3>1, <4>4 DEF InstOK
        <5>2. QED
          BY <1>3, <2>1, <3>1, <4>1, <4>4, <5>1
      <4>5. QED
        BY <4>2, <4>3, <4>4
    <3>2. CASE k # 1
      <4>1. history # <<>>
        BY <1>1, <1>2, <3>2
      <4>2. built = Recorded
        BY <4>1 DEF ServiceInv, HistoryMatchesSchema
      <4>3. QED
        BY <1>3, <2>1, <3>2, <4>2
    <3>3. QED
      BY <3>1, <3>2
  <2>3. history' # <<>>
    BY <1>2, <1>6
  <2>4. QED
    BY <2>2, <2>3 DEF HistoryMatchesSchema
<1>9. ASSUME NEW j \in Instances PROVE InstOK(j)'
  <2>1. CASE j = i
    <3>1. k + 1 # 1 /\ k + 1 = Len(history') + 1
      BY <1>2, <1>6
    <3>2. QED
      BY <1>2, <1>3, <1>4, <1>5, <1>7, <2>1, <3>1 DEF InstOK
  <2>2. CASE j # i
    <3>1. inst'[j] = inst[j] /\ InstOK(j) /\ inst[j] \in InstRows
      BY <1>5, <2>2 DEF ServiceInv
    <3>2. inst[j].step \notin {"locked", "prepared", "validated"}
      BY <1>2, <2>2, <3>1 DEF InstOK
    <3>3. inst[j].step \in {"migrated", "absent", "ready"} => Begins(inst[j].release, history')
      <4>1. SUFFICES ASSUME inst[j].step \in {"migrated", "absent", "ready"}
                     PROVE  Begins(inst[j].release, history')
        OBVIOUS
      <4>2. Begins(inst[j].release, history) /\ inst[j].release \in Seq(Migrations)
        BY <3>1, <4>1, ReleasesAssumption DEF InstOK
      <4>3. Len(inst[j].release) \in Nat
        BY <4>2
      <4>4. \A m \in 1..Len(inst[j].release) : m \in 1..n
        BY <1>1, <1>2, <4>2, <4>3 DEF Begins
      <4>5. QED
        BY <1>1, <1>2, <1>6, <4>2, <4>3, <4>4 DEF Begins
    <3>4. QED
      BY <3>1, <3>2, <3>3 DEF InstOK
  <2>3. QED
    BY <2>1, <2>2
<1>10. QED
  BY <1>5, <1>6, <1>8, <1>9 DEF ServiceInv

(* What the startup statements of an instance would make is there.          *)
LEMMA NothingIsMissing ==
    ASSUME ServiceInv, NEW i \in Instances, NEW piece, InitializePart(i, piece)
    PROVE  built' = built /\ UNCHANGED <<history, migrator>>
<1>1. PICK r : r = inst[i].release
  OBVIOUS
<1>2. /\ inst[i].step = "migrated" /\ UNCHANGED <<history, migrator>>
      /\ built' = built \cup {r[k] : k \in ShapesOf(piece) \cap DOMAIN r}
  BY <1>1 DEF InitializePart, MayInitialize
<1>3. r \in Releases /\ Begins(r, history)
  BY <1>1, <1>2 DEF ServiceInv, InstOK
<1>4. r \in Seq(Migrations) /\ Len(r) > 0 /\ history \in Seq(Migrations)
  BY <1>3, ReleasesAssumption DEF ServiceInv
<1>5. Len(history) \in Nat /\ Len(r) \in Nat /\ Len(history) > 0 /\ DOMAIN r = 1..Len(r)
  BY <1>3, <1>4 DEF Begins
<1>6. \A k \in DOMAIN r : r[k] = history[k] /\ k \in 1..Len(history)
  BY <1>3, <1>5 DEF Begins
<1>7. built = Recorded
  BY <1>5 DEF ServiceInv, HistoryMatchesSchema
<1>8. \A k \in DOMAIN r : r[k] \in built
  BY <1>6, <1>7 DEF Recorded
<1>9. {r[k] : k \in ShapesOf(piece) \cap DOMAIN r} \subseteq built
  BY <1>8
<1>10. QED
  BY <1>2, <1>9

LEMMA InitializeInv ==
    ASSUME ServiceInv, NEW i \in Instances, NEW piece \in Parts, InitializePart(i, piece)
    PROVE  ServiceInv'
<1> DEFINE row == [inst[i] EXCEPT !.parts = @ \cup {piece}]
<1>1. UNCHANGED <<built, history, migrator>>
  BY NothingIsMissing
<1>2. inst' = [inst EXCEPT ![i] = row] /\ inst[i].step = "migrated"
  BY DEF InitializePart, MayInitialize
<1>3. inst[i] \in InstRows /\ InstOK(i)
  BY DEF ServiceInv
<1>4. row \in InstRows /\ row.step = inst[i].step /\ row.release = inst[i].release
  BY <1>3 DEF InstRows
<1> HIDE DEF row
<1>5. inst'[i] = row => InstOK(i)'
  BY <1>1, <1>2, <1>3, <1>4 DEF InstOK, Begins
<1>6. QED
  BY <1>1, <1>2, <1>4, <1>5, InstFrame

LEMMA ServiceNextInv == ServiceInv /\ [ServiceNext]_serviceVars => ServiceInv'
<1> SUFFICES ASSUME ServiceInv, [ServiceNext]_serviceVars PROVE ServiceInv'
  OBVIOUS
<1>1. ASSUME NEW i \in Instances,
             InitializeServiceRequests(i) \/ InitializeStaff(i) \/ InitializeDevices(i)
      PROVE  ServiceInv'
  <2>1. PICK piece \in Parts : InitializePart(i, piece)
    BY <1>1 DEF InitializeServiceRequests, InitializeStaff, InitializeDevices, Parts
  <2>2. QED
    BY <2>1, InitializeInv
<1>2. CASE UNCHANGED <<inst, built, history, migrator>>
  BY <1>2 DEF ServiceInv, InstOK, Begins, HistoryMatchesSchema, Recorded
<1>3. CASE (\E d \in Drifts : AlterSchema(d)) \/ DeactivateAdmin \/ UNCHANGED serviceVars
  <2>1. UNCHANGED <<inst, built, history, migrator>>
    BY <1>3 DEF AlterSchema, DeactivateAdmin, serviceVars
  <2>2. QED
    BY <1>2, <2>1
<1>4. QED
  BY <1>1, <1>3, LearnInv, ApplyInv DEF ServiceNext

(* The history is the truth about the schema, and every instance that       *)
(* serves has the whole of its release in it, for every set of instances    *)
(* and of releases.                                                         *)
THEOREM HistoryTrue == ServiceSpec => []HistoryIsTrue
<1>1. ServiceInv => HistoryIsTrue
  BY DEF ServiceInv, InstOK, Begins, HistoryIsTrue, MigratedIsCurrent
<1>2. QED
  BY <1>1, ServiceInitInv, ServiceNextInv, PTL DEF ServiceSpec

-----------------------------------------------------------------------------
(* Only InitializePart adds to the parts, and it finds its shapes there.    *)
LEMMA PartsStep ==
    ASSUME ServiceInv, [ServiceNext]_serviceVars,
           NEW i \in Instances, inst'[i].parts \ inst[i].parts # {}
    PROVE  built' = built
<1>1. \A j \in Instances : inst[j] \in InstRows
  BY DEF ServiceInv
<1>2. CASE \E j \in Instances :
             InitializeServiceRequests(j) \/ InitializeStaff(j) \/ InitializeDevices(j)
  <2>1. PICK j \in Instances, piece \in Parts : InitializePart(j, piece)
    BY <1>2 DEF InitializeServiceRequests, InitializeStaff, InitializeDevices, Parts
  <2>2. QED
    BY <2>1, NothingIsMissing
<1>3. CASE \E j \in Instances : ApplyMigration(j)
  <2>1. PICK j \in Instances : ApplyMigration(j)
    BY <1>3
  <2>2. inst' = [inst EXCEPT ![j].next = inst[j].next + 1]
    BY <2>1 DEF ApplyMigration
  <2>3. inst'[i].parts = inst[i].parts
    BY <1>1, <2>2 DEF ServiceInv, InstRows
  <2>4. QED
    BY <2>3
<1>4. CASE UNCHANGED built
  BY <1>4
<1>5. CASE \/ \E j \in Instances :
                \/ \E r \in Releases : LoadMigrations(j, r)
                \/ TakeMigrationLock(j) \/ PrepareHistory(j) \/ ValidateHistory(j)
                \/ FinishMigrations(j) \/ InstanceStops(j)
                \/ LookForInitialAdmin(j) \/ CreateInitialAdmin(j) \/ StartWithoutAdmin(j)
           \/ \E d \in Drifts : AlterSchema(d)
           \/ DeactivateAdmin \/ UNCHANGED serviceVars
  <2>1. UNCHANGED built
    BY <1>5 DEF LoadMigrations, TakeMigrationLock, PrepareHistory, ValidateHistory,
       FinishMigrations, InstanceStops, LookForInitialAdmin, CreateInitialAdmin,
       StartWithoutAdmin, AlterSchema, DeactivateAdmin, serviceVars
  <2>2. QED
    BY <1>4, <2>1
<1>6. QED
  BY <1>2, <1>3, <1>5 DEF ServiceNext

(* The statements the repositories start with never change the schema.      *)
THEOREM StartupHarmless == ServiceSpec => StartupChangesNothing
<1>1. ASSUME ServiceInv, [ServiceNext]_serviceVars
      PROVE  [(\E i \in Instances : inst'[i].parts \ inst[i].parts # {}) => built' = built]_serviceVars
  <2>1. (\E i \in Instances : inst'[i].parts \ inst[i].parts # {}) => built' = built
    BY <1>1, PartsStep
  <2>2. QED
    BY <2>1
<1>2. QED
  BY <1>1, ServiceInitInv, ServiceNextInv, PTL DEF ServiceSpec, StartupChangesNothing

-----------------------------------------------------------------------------
\* The steps of an instance that leave the account alone.
QuietStep(i) ==
    \/ \E r \in Releases : LoadMigrations(i, r)
    \/ TakeMigrationLock(i) \/ PrepareHistory(i) \/ ValidateHistory(i)
    \/ ApplyMigration(i) \/ FinishMigrations(i) \/ InstanceStops(i)
    \/ InitializeServiceRequests(i) \/ InitializeStaff(i) \/ InitializeDevices(i)
    \/ LookForInitialAdmin(i) \/ StartWithoutAdmin(i)

LEMMA QuietSteps ==
    ASSUME NEW i \in Instances, QuietStep(i), inst \in [Instances -> InstRows]
    PROVE  /\ UNCHANGED <<account, early>>
           /\ \A j \in Instances : j # i => inst'[j] = inst[j]
           /\ inst'[i].step = "absent" => account.by = Nobody
<1>1. UNCHANGED <<account, early>> /\ \A j \in Instances : j # i => inst'[j] = inst[j]
  BY DEF QuietStep, LoadMigrations, TakeMigrationLock, PrepareHistory, ValidateHistory,
     ApplyMigration, FinishMigrations, InstanceStops, InitializeServiceRequests,
     InitializeStaff, InitializeDevices, InitializePart, LookForInitialAdmin,
     StartWithoutAdmin, Goes
<1>2. inst[i] \in InstRows
  OBVIOUS
<1>3. CASE \/ ApplyMigration(i)
           \/ InitializeServiceRequests(i) \/ InitializeStaff(i) \/ InitializeDevices(i)
  <2>1. inst[i].step \in {"validated", "migrated"} /\ inst'[i].step = inst[i].step
    BY <1>2, <1>3 DEF ApplyMigration, InitializeServiceRequests, InitializeStaff,
       InitializeDevices, InitializePart, MayInitialize, InstRows
  <2>2. QED
    BY <1>1, <2>1
<1>4. CASE \/ \E r \in Releases : LoadMigrations(i, r)
           \/ TakeMigrationLock(i) \/ PrepareHistory(i) \/ ValidateHistory(i)
           \/ FinishMigrations(i) \/ InstanceStops(i) \/ StartWithoutAdmin(i)
  <2>1. CASE PrepareHistory(i)
    <3>1. PICK state : inst' = [inst EXCEPT ![i].step = "prepared", ![i].initial = state]
      BY <2>1 DEF PrepareHistory
    <3>2. inst'[i].step # "absent"
      BY <1>2, <3>1 DEF InstRows
    <3>3. QED
      BY <1>1, <3>2
  <2>2. CASE ValidateHistory(i)
    <3>1. PICK n : inst' = [inst EXCEPT ![i].step = "validated", ![i].next = n]
      BY <2>2 DEF ValidateHistory
    <3>2. inst'[i].step # "absent"
      BY <1>2, <3>1 DEF InstRows
    <3>3. QED
      BY <1>1, <3>2
  <2>3. CASE TakeMigrationLock(i) \/ FinishMigrations(i) \/ StartWithoutAdmin(i)
    <3>1. PICK to \in {"locked", "migrated", "ready"} : inst' = [inst EXCEPT ![i].step = to]
      BY <2>3 DEF TakeMigrationLock, FinishMigrations, StartWithoutAdmin, Goes
    <3>2. inst'[i].step # "absent"
      BY <1>2, <3>1 DEF InstRows
    <3>3. QED
      BY <1>1, <3>2
  <2>4. CASE (\E r \in Releases : LoadMigrations(i, r)) \/ InstanceStops(i)
    <3>1. ASSUME NEW row, inst' = [inst EXCEPT ![i] = row], row.step \in {"loaded", "down"}
          PROVE  inst'[i].step # "absent"
      BY <3>1
    <3>2. inst'[i].step # "absent"
      <4>1. ASSUME NEW r \in Releases, LoadMigrations(i, r) PROVE inst'[i].step # "absent"
        <5>1. inst' = [inst EXCEPT ![i] = [Down EXCEPT !.step = "loaded", !.release = r]]
          BY <4>1 DEF LoadMigrations
        <5>2. [Down EXCEPT !.step = "loaded", !.release = r].step = "loaded"
          BY DEF Down
        <5>3. QED
          BY <3>1, <5>1, <5>2
      <4>2. CASE InstanceStops(i)
        BY <3>1, <4>2 DEF InstanceStops, Down
      <4>3. QED
        BY <2>4, <4>1, <4>2
    <3>3. QED
      BY <1>1, <3>2
  <2>5. QED
    BY <1>4, <2>1, <2>2, <2>3, <2>4
<1>5. CASE LookForInitialAdmin(i)
  <2>1. inst'[i].step = "absent" => account.by = Nobody
    BY <1>2, <1>5 DEF LookForInitialAdmin, AdminExists, Goes, InstRows
  <2>2. QED
    BY <1>1, <2>1
<1>6. QED
  BY <1>3, <1>4, <1>5 DEF QuietStep

\* What a step does to the account, as BootstrapKeepsAccounts has it.
AccountStep ==
    account.by # Nobody /\ (account'.by # account.by \/ (account'.active /\ ~account.active))
        => \E i \in early : inst[i].step = "absent" /\ inst'[i].step = "ready"

LEMMA AccountNext ==
    ASSUME AccountInv, inst' \in [Instances -> InstRows], [ServiceNext]_serviceVars
    PROVE  AccountInv' /\ AccountStep
<1>1. ASSUME NEW i \in Instances, QuietStep(i) PROVE AccountInv' /\ AccountStep
  <2>1. /\ UNCHANGED <<account, early>>
        /\ \A j \in Instances : j # i => inst'[j] = inst[j]
        /\ inst'[i].step = "absent" => account.by = Nobody
    BY <1>1, QuietSteps DEF AccountInv
  <2>2. QED
    BY <2>1 DEF AccountInv, AccountStep
<1>2. ASSUME NEW i \in Instances, CreateInitialAdmin(i) PROVE AccountInv' /\ AccountStep
  <2>1. /\ inst[i].step = "absent" /\ inst' = [inst EXCEPT ![i].step = "ready"]
        /\ early' = IF account.by # Nobody THEN early
                    ELSE {j \in Instances : inst[j].step = "absent"}
        /\ account' = [by |-> i, active |-> TRUE]
    BY <1>2 DEF CreateInitialAdmin, Goes
  <2>2. inst'[i].step = "ready" /\ \A j \in Instances : j # i => inst'[j] = inst[j]
    BY <2>1 DEF AccountInv, InstRows
  <2>3. AccountInv'
    BY <2>1, <2>2 DEF AccountInv
  <2>4. AccountStep
    BY <2>1, <2>2 DEF AccountInv, AccountStep
  <2>5. QED
    BY <2>3, <2>4
<1>3. CASE \E d \in Drifts : AlterSchema(d)
  <2>1. UNCHANGED <<account, early, inst>>
    BY <1>3 DEF AlterSchema
  <2>2. QED
    BY <2>1 DEF AccountInv, AccountStep
<1>4. CASE DeactivateAdmin
  <2>1. UNCHANGED <<early, inst>> /\ account' = [account EXCEPT !.active = FALSE]
    BY <1>4 DEF DeactivateAdmin
  <2>2. /\ account'.by = account.by /\ ~account'.active
        /\ account' \in [by : Instances \cup {Nobody}, active : BOOLEAN]
    BY <2>1 DEF AccountInv
  <2>3. QED
    BY <2>1, <2>2 DEF AccountInv, AccountStep
<1>5. CASE UNCHANGED serviceVars
  BY <1>5 DEF AccountInv, AccountStep, serviceVars
<1>6. QED
  BY <1>1, <1>2, <1>3, <1>4, <1>5 DEF ServiceNext, QuietStep

(* An administrator's account that is there is overwritten by no start but  *)
(* those that had looked for it before there was one.                       *)
THEOREM AccountsKept == ServiceSpec => BootstrapKeepsAccounts
<1> DEFINE Both == ServiceInv /\ AccountInv
<1>1. ServiceInit => Both
  BY ServiceInitInv
<1>2. ASSUME Both, [ServiceNext]_serviceVars PROVE Both' /\ [AccountStep]_serviceVars
  <2>1. ServiceInv'
    BY <1>2, ServiceNextInv
  <2>2. inst' \in [Instances -> InstRows]
    BY <2>1 DEF ServiceInv
  <2>3. QED
    BY <1>2, <2>1, <2>2, AccountNext
<1> HIDE DEF Both
<1>3. QED
  BY <1>1, <1>2, PTL DEF ServiceSpec, BootstrapKeepsAccounts, AccountStep

-----------------------------------------------------------------------------
(* LocationSamples: for every set of places, every age, skew, arrival rule *)
(* and retention, and samples that arrive in any order, any number of      *)
(* times.                                                                  *)

(* A session is active only under way, and only the journey that has not   *)
(* begun has none and may still get one: no sample precedes it.            *)
SessionFollowsJourney ==
    /\ session.state = "active" => journey = "underway"
    /\ journey = "assigned" => session = NoSession /\ taken = {}

(* The position is the newest of the samples taken, of which there is one  *)
(* at each moment.                                                         *)
NewestIsHeld ==
    /\ \A s, t \in taken : s.at = t.at => s = t
    /\ session.state = "active" =>
           /\ taken = {} => position = NoSample
           /\ taken # {} => position \in taken
           /\ \A s \in taken : s.at <= position.at
    /\ session.state # "active" => position = NoSample

(* The retention cannot reach a sample that could still be sent again: one *)
(* taken is stored unless it is older than any that is timely.             *)
RecentIsStored ==
    /\ \A x \in samples : x.sample \in taken /\ x.sample.at <= x.received + SampleSkew
    /\ \A s \in taken :
         s.at >= moment - SampleAge => \E x \in samples : x.sample = s

(* The session's columns are the count, the first and the last of the      *)
(* samples near the place, and the arrival is what they say.               *)
EvidenceIsExact ==
    /\ IsFiniteSet(taken)
    /\ session.state # "none" =>
         /\ session.count = Cardinality(TakenNear)
         /\ TakenNear = {} => session.first = Never /\ session.last = Never
         /\ TakenNear # {} => \E s, t \in TakenNear : s.at = session.first /\ t.at = session.last
         /\ \A s \in TakenNear : session.first <= s.at /\ s.at <= session.last
         /\ session.arrived <=> /\ session.count >= ArrivalCount
                                /\ session.last - session.first >= ArrivalSpan

SamplesInv ==
    /\ SamplesTypeOK
    /\ SessionFollowsJourney
    /\ NewestIsHeld
    /\ RecentIsStored
    /\ EvidenceIsExact

LEMMA SampleBounds ==
    /\ SampleAge \in Nat /\ SampleSkew \in Nat /\ ArrivalSpan \in Nat
    /\ DerivedRetention \in Nat /\ LastMoment \in Nat
    /\ ArrivalCount \in Nat \ {0}
    /\ RawRetention \in Nat /\ RawRetention >= SampleAge + SampleSkew
BY SamplesAssumption

USE SampleBounds

(* The times are numbers; no sample is like none.                          *)
LEMMA Times ==
    /\ \A m \in Moments : m \in Nat
    /\ \A at \in Captured : at \in Nat
    /\ Never \in Int /\ Never < 0
BY DEF Moments, Captured, Never

LEMMA SampleTimes ==
    /\ \A s \in Sample : s.at \in Nat
    /\ NoSample.at = Never
    /\ NoSample \notin Sample
<1>1. /\ \A s \in Sample : s.at \in Captured
      /\ NoSample.at = Never
  BY DEF Sample, NoSample
<1>2. QED
  BY <1>1, Times

LEMMA Typed ==
    ASSUME SamplesInv
    PROVE  /\ moment \in Nat
           /\ taken \subseteq Sample
           /\ \A s \in taken : s.at \in Nat
           /\ position \in Sample \cup {NoSample}
           /\ position.at \in Int
           /\ session \in SessionRows
           /\ \A x \in samples : x.sample \in Sample /\ x.received \in Nat
<1> USE DEF SamplesInv, SamplesTypeOK
<1>1. /\ moment \in Moments /\ taken \subseteq Sample /\ session \in SessionRows
      /\ position \in Sample \cup {NoSample}
  OBVIOUS
<1>2. \A x \in samples : x.sample \in Sample /\ x.received \in Moments
  OBVIOUS
<1>3. position.at \in Int
  <2>1. CASE position \in Sample
    BY <2>1, SampleTimes
  <2>2. CASE position = NoSample
    BY <2>2, SampleTimes, Times
  <2>3. QED
    BY <1>1, <2>1, <2>2
<1>4. \A s \in taken : s.at \in Nat
  BY <1>1, SampleTimes
<1>5. moment \in Nat /\ \A x \in samples : x.received \in Nat
  BY <1>1, <1>2, Times
<1>6. QED
  BY <1>1, <1>2, <1>3, <1>4, <1>5

LEMMA SamplesInitInv == SamplesInit => SamplesInv
<1> SUFFICES ASSUME SamplesInit PROVE SamplesInv
  OBVIOUS
<1> USE DEF SamplesInit, NoSession
<1>1. SamplesTypeOK
  <2>1. 0 \in Moments
    BY DEF Moments
  <2>2. NoSession \in SessionRows
    BY DEF SessionRows
  <2>3. QED
    BY <2>1, <2>2 DEF SamplesTypeOK
<1>2. IsFiniteSet(taken)
  BY FS_EmptySet
<1>3. QED
  BY <1>1, <1>2 DEF SamplesInv, SessionFollowsJourney, NewestIsHeld, RecentIsStored,
     EvidenceIsExact

-----------------------------------------------------------------------------
(* A sample is accepted only if it is newer than all that were taken.      *)
LEMMA AcceptedIsNewest ==
    ASSUME SamplesInv, NEW s \in Sample, AcceptSample(s)
    PROVE  /\ session.state = "active" /\ journey = "underway"
           /\ s.at > position.at
           /\ s.at <= moment + SampleSkew
           /\ \A t \in taken : t.at < s.at
<1>1. Answer(s) = "accepted"
  BY DEF AcceptSample
<1>2. Admissible(s) /\ position.at < s.at
  BY <1>1 DEF Answer
<1>3. session.state = "active" /\ journey = "underway" /\ s.at <= moment + SampleSkew
  BY <1>2 DEF Admissible, Timely
<1>4. \A t \in taken : t.at <= position.at
  BY <1>3 DEF SamplesInv, NewestIsHeld
<1>5. s.at \in Nat
  BY SampleTimes
<1>6. position.at \in Int /\ \A t \in taken : t.at \in Nat
  BY Typed
<1>7. QED
  BY <1>2, <1>3, <1>4, <1>5, <1>6

(* What the session says after a sample.                                   *)
LEMMA EvidenceType ==
    ASSUME session \in SessionRows, NEW s \in Sample
    PROVE  Evidence(s) \in SessionRows
<1>1. s.at \in Captured
  BY DEF Sample
<1>2. CASE Qualifies(s)
  <2> DEFINE first == IF session.first = Never THEN s.at ELSE session.first
             e == [count |-> session.count + 1, first |-> first, last |-> s.at]
             arrived == session.arrived \/ ObservedArrival(e)
  <2>1. first \in Captured \cup {Never} /\ session.count + 1 \in Nat /\ arrived \in BOOLEAN
    BY <1>1 DEF SessionRows
  <2> HIDE DEF arrived
  <2>2. Evidence(s) = [state |-> session.state, started |-> session.started,
                       stopped |-> session.stopped, count |-> session.count + 1,
                       first |-> first, last |-> s.at, arrived |-> arrived]
    BY <1>2 DEF Evidence, SessionRow, arrived
  <2>3. QED
    BY <1>1, <2>1, <2>2 DEF SessionRows
<1>3. CASE ~Qualifies(s)
  BY <1>3 DEF Evidence
<1>4. QED
  BY <1>2, <1>3

LEMMA EvidenceFields ==
    ASSUME session \in SessionRows, NEW s \in Sample
    PROVE  /\ Evidence(s).state = session.state
           /\ ~Qualifies(s) => Evidence(s) = session
           /\ Qualifies(s) =>
                /\ Evidence(s).count = session.count + 1
                /\ Evidence(s).first = IF session.first = Never THEN s.at ELSE session.first
                /\ Evidence(s).last = s.at
                /\ Evidence(s).arrived <=>
                     \/ session.arrived
                     \/ /\ session.count + 1 >= ArrivalCount
                        /\ s.at - (IF session.first = Never THEN s.at ELSE session.first)
                             >= ArrivalSpan
BY DEF SessionRows, Evidence, ObservedArrival, SessionRow

LEMMA AcceptInv ==
    ASSUME SamplesInv, NEW s \in Sample, AcceptSample(s)
    PROVE  SamplesInv'
<1>1. /\ session' = Evidence(s)
      /\ samples' = samples \cup {[sample |-> s, received |-> moment]}
      /\ position' = s
      /\ taken' = taken \cup {s}
      /\ moment' = moment /\ journey' = journey
  BY DEF AcceptSample
<1>2. /\ session.state = "active" /\ journey = "underway"
      /\ s.at <= moment + SampleSkew
      /\ \A t \in taken : t.at < s.at
  BY AcceptedIsNewest
<1> /\ s.at \in Nat /\ \A t \in taken : t.at \in Nat
    /\ taken \subseteq Sample /\ session \in SessionRows
  BY SampleTimes, Typed
<1>3. SamplesTypeOK'
  <2>1. Evidence(s) \in SessionRows
    BY EvidenceType
  <2>2. QED
    BY <1>1, <2>1 DEF SamplesInv, SamplesTypeOK
<1>4. session'.state = "active"
  BY <1>1, <1>2, EvidenceFields, Typed
<1>5. SessionFollowsJourney'
  BY <1>1, <1>2, <1>4 DEF SessionFollowsJourney
<1>6. NewestIsHeld'
  <2>1. \A t \in taken : t.at <= s.at /\ t.at # s.at
    BY <1>2
  <2>2. \A x, t \in taken' : x.at = t.at => x = t
    BY <1>1, <2>1 DEF SamplesInv, NewestIsHeld
  <2>3. position' \in taken' /\ \A t \in taken' : t.at <= position'.at
    BY <1>1, <2>1
  <2>4. QED
    BY <1>4, <2>2, <2>3 DEF NewestIsHeld
<1>7. RecentIsStored'
  <2> DEFINE new == [sample |-> s, received |-> moment]
  <2>1. new.sample = s /\ new.received = moment
    OBVIOUS
  <2> HIDE DEF new
  <2>2. \A x \in samples' : x.sample \in taken' /\ x.sample.at <= x.received + SampleSkew
    BY <1>1, <1>2, <2>1 DEF SamplesInv, RecentIsStored, new
  <2>3. \A t \in taken' :
          t.at >= moment' - SampleAge => \E x \in samples' : x.sample = t
    BY <1>1, <2>1 DEF SamplesInv, RecentIsStored, new
  <2>4. QED
    BY <2>2, <2>3 DEF RecentIsStored
<1>8. EvidenceIsExact'
  <2>1. IsFiniteSet(taken')
    BY <1>1, FS_AddElement DEF SamplesInv, EvidenceIsExact
  <2>2. CASE ~Qualifies(s)
    <3>1. TakenNear' = TakenNear /\ session' = session
      BY <1>1, <2>2, EvidenceFields, Typed DEF TakenNear, Qualifies
    <3>2. QED
      BY <2>1, <3>1 DEF SamplesInv, EvidenceIsExact
  <2>3. CASE Qualifies(s)
    <3>1. TakenNear' = TakenNear \cup {s} /\ s \notin TakenNear
      BY <1>1, <1>2, <2>3 DEF TakenNear, Qualifies
    <3>2. IsFiniteSet(TakenNear) /\ Cardinality(TakenNear) \in Nat
      BY FS_Subset, FS_CardinalityType DEF SamplesInv, EvidenceIsExact, TakenNear
    <3>3. Cardinality(TakenNear') = Cardinality(TakenNear) + 1
      BY <3>1, <3>2, FS_AddElement
    <3>4. /\ session'.count = session.count + 1
          /\ session'.first = IF session.first = Never THEN s.at ELSE session.first
          /\ session'.last = s.at
          /\ session'.arrived <=>
               \/ session.arrived
               \/ /\ session.count + 1 >= ArrivalCount
                  /\ s.at - (IF session.first = Never THEN s.at ELSE session.first)
                       >= ArrivalSpan
      BY <1>1, <2>3, EvidenceFields, Typed
    <3>5. /\ session.count = Cardinality(TakenNear)
          /\ TakenNear = {} => session.first = Never /\ session.last = Never
          /\ TakenNear # {} =>
               \E x, t \in TakenNear : x.at = session.first /\ t.at = session.last
          /\ \A x \in TakenNear : session.first <= x.at /\ x.at <= session.last
          /\ session.arrived <=> /\ session.count >= ArrivalCount
                                 /\ session.last - session.first >= ArrivalSpan
      BY <1>2 DEF SamplesInv, EvidenceIsExact
    <3>6. TakenNear \subseteq taken /\ \A x \in TakenNear : x.at \in Nat /\ x.at < s.at
      BY <1>2 DEF TakenNear
    <3>7. CASE TakenNear = {}
      <4>1. session'.first = s.at /\ session'.last = s.at /\ session'.count = 1
        BY <3>2, <3>3, <3>4, <3>5, <3>7, FS_EmptySet
      <4>2. session'.arrived <=> /\ session'.count >= ArrivalCount
                                 /\ session'.last - session'.first >= ArrivalSpan
        BY <3>4, <3>5, <3>7, <4>1, FS_EmptySet
      <4>3. TakenNear' = {s} /\ session'.count = Cardinality(TakenNear')
        BY <3>1, <3>3, <3>4, <3>5, <3>7
      <4>4. QED
        BY <2>1, <4>1, <4>2, <4>3 DEF EvidenceIsExact
    <3>8. CASE TakenNear # {}
      <4>1. PICK x \in TakenNear, t \in TakenNear : x.at = session.first /\ t.at = session.last
        BY <3>5, <3>8
      <4>2. /\ session.first \in Nat /\ session.last \in Nat /\ session.last < s.at
            /\ session'.first = session.first /\ session'.last = s.at
        BY <3>4, <3>6, <4>1, Times
      <4>3. session'.arrived <=> /\ session'.count >= ArrivalCount
                                 /\ session'.last - session'.first >= ArrivalSpan
        BY <3>2, <3>4, <3>5, <4>2
      <4>4. \A y \in TakenNear' : session'.first <= y.at /\ y.at <= session'.last
        BY <3>1, <3>5, <3>6, <4>2
      <4>5. \E y, z \in TakenNear' : y.at = session'.first /\ z.at = session'.last
        BY <3>1, <4>1, <4>2
      <4>6. session'.count = Cardinality(TakenNear') /\ TakenNear' # {}
        BY <3>1, <3>3, <3>4, <3>5
      <4>7. QED
        BY <2>1, <4>3, <4>4, <4>5, <4>6 DEF EvidenceIsExact
    <3>9. QED
      BY <3>7, <3>8
  <2>4. QED
    BY <2>2, <2>3
<1>9. QED
  BY <1>3, <1>5, <1>6, <1>7, <1>8 DEF SamplesInv

(* A stop changes the state of the session and takes the position away.    *)
LEMMA StopInv ==
    ASSUME SamplesInv, StopSession, UNCHANGED <<moment, samples, taken>>,
           journey' \in {journey, "over"}
    PROVE  SamplesInv'
<1>1. /\ position' = NoSample
      /\ session'.state # "active"
      /\ session'.state = "none" <=> session.state = "none"
      /\ session'.count = session.count /\ session'.first = session.first
      /\ session'.last = session.last /\ session'.arrived = session.arrived
      /\ session.state # "active" => session' = session
  BY DEF SamplesInv, SamplesTypeOK, StopSession, SessionRow
<1>2. SamplesTypeOK'
  <2>1. session' \in SessionRows
    BY DEF SamplesInv, SamplesTypeOK, StopSession, SessionRow, SessionRows
  <2>2. QED
    BY <1>1, <2>1 DEF SamplesInv, SamplesTypeOK
<1>3. SessionFollowsJourney'
  BY <1>1 DEF SamplesInv, SessionFollowsJourney, NoSession
<1>4. NewestIsHeld' /\ RecentIsStored'
  BY <1>1 DEF SamplesInv, NewestIsHeld, RecentIsStored
<1>5. TakenNear' = TakenNear
  BY DEF TakenNear
<1>6. EvidenceIsExact'
  BY <1>1, <1>5 DEF SamplesInv, EvidenceIsExact
<1>7. QED
  BY <1>2, <1>3, <1>4, <1>6 DEF SamplesInv

(* The retention takes what is too old to come again.                      *)
LEMMA PruneInv ==
    ASSUME SamplesInv, PruneSamples
    PROVE  SamplesInv'
<1>1. PICK some \in SUBSET OldSamples : samples' = samples \ some
  BY DEF PruneSamples
<1>2. /\ session' = session \/ (session' = NoSession /\ session.state = "stopped")
      /\ UNCHANGED <<moment, journey, position, taken>>
  BY DEF PruneSamples
<1>3. SamplesTypeOK'
  <2>1. NoSession \in SessionRows
    BY DEF NoSession, SessionRows
  <2>2. QED
    BY <1>1, <1>2, <2>1 DEF SamplesInv, SamplesTypeOK
<1>4. SessionFollowsJourney' /\ NewestIsHeld'
  <2>1. NoSession.state = "none"
    BY DEF NoSession
  <2>2. session'.state = "active" => session.state = "active" /\ session' = session
    BY <1>2, <2>1
  <2>3. session'.state # "active" => session.state # "active"
    BY <1>2
  <2>4. QED
    BY <1>2, <2>2, <2>3 DEF SamplesInv, SessionFollowsJourney, NewestIsHeld
<1>5. RecentIsStored'
  <2>1. ASSUME NEW s \in taken, s.at >= moment - SampleAge
        PROVE  \E x \in samples' : x.sample = s
    <3>1. PICK x \in samples : x.sample = s
      BY <2>1 DEF SamplesInv, RecentIsStored
    <3>2. /\ s.at <= x.received + SampleSkew
          /\ s.at \in Int /\ x.received \in Int /\ moment \in Int
      BY <3>1, Typed DEF SamplesInv, RecentIsStored
    <3>3. x \notin OldSamples
      BY <2>1, <3>2 DEF OldSamples
    <3>4. QED
      BY <1>1, <3>1, <3>3
  <2>2. QED
    BY <1>1, <1>2, <2>1 DEF SamplesInv, RecentIsStored
<1>6. TakenNear' = TakenNear
  BY <1>2 DEF TakenNear
<1>7. EvidenceIsExact'
  BY <1>2, <1>6 DEF SamplesInv, EvidenceIsExact, NoSession
<1>8. QED
  BY <1>3, <1>4, <1>5, <1>7 DEF SamplesInv

LEMMA StartInv ==
    ASSUME SamplesInv, StartSession
    PROVE  SamplesInv'
<1>1. /\ taken = {} /\ position = NoSample
      /\ session' = SessionRow("active", moment, Never, NoSession)
      /\ journey' = "underway"
      /\ UNCHANGED <<moment, samples, position, taken>>
  BY DEF StartSession, SamplesInv, SessionFollowsJourney, NewestIsHeld, NoSession
<1>2. /\ session'.state = "active" /\ session'.count = 0 /\ session'.arrived = FALSE
      /\ session'.first = Never /\ session'.last = Never
  BY <1>1 DEF SessionRow, NoSession
<1>3. SamplesTypeOK'
  <2>1. session' \in SessionRows
    BY <1>1 DEF SamplesInv, SamplesTypeOK, NoSession, SessionRow, SessionRows
  <2>2. QED
    BY <1>1, <2>1 DEF SamplesInv, SamplesTypeOK
<1>4. TakenNear' = {} /\ Cardinality({}) = 0
  BY <1>1, FS_EmptySet DEF TakenNear
<1>5. EvidenceIsExact'
  BY <1>1, <1>2, <1>4 DEF SamplesInv, EvidenceIsExact
<1>6. QED
  BY <1>1, <1>2, <1>3, <1>5
     DEF SamplesInv, SessionFollowsJourney, NewestIsHeld, RecentIsStored

LEMMA SamplesNextInv == SamplesInv /\ [SamplesNext]_sampleVars => SamplesInv'
<1> SUFFICES ASSUME SamplesInv, [SamplesNext]_sampleVars PROVE SamplesInv'
  OBVIOUS
<1>1. CASE FinishJourney \/ StopForOperations
  BY <1>1, StopInv DEF FinishJourney, StopForOperations
<1>2. CASE MomentPasses
  <2>1. /\ moment' = moment + 1 /\ moment \in Nat /\ moment' \in Moments
        /\ UNCHANGED <<journey, session, samples, position, taken>>
    BY <1>2 DEF MomentPasses, SamplesInv, SamplesTypeOK, Moments
  <2>2. SamplesTypeOK'
    BY <2>1 DEF SamplesInv, SamplesTypeOK
  <2>3. RecentIsStored'
    BY <2>1, Typed DEF SamplesInv, RecentIsStored
  <2>4. EvidenceIsExact'
    BY <2>1 DEF SamplesInv, EvidenceIsExact, TakenNear
  <2>5. QED
    BY <2>1, <2>2, <2>3, <2>4 DEF SamplesInv, SessionFollowsJourney, NewestIsHeld
<1>3. CASE UNCHANGED sampleVars
  BY <1>3 DEF sampleVars, SamplesInv, SamplesTypeOK, SessionFollowsJourney, NewestIsHeld,
     RecentIsStored, EvidenceIsExact, TakenNear
<1>4. QED
  BY <1>1, <1>2, <1>3, StartInv, AcceptInv, PruneInv DEF SamplesNext

(* Every reachable state satisfies the inductive invariant.                *)
THEOREM SamplesInvariance == SamplesSpec => []SamplesInv
BY SamplesInitInv, SamplesNextInv, PTL DEF SamplesSpec

-----------------------------------------------------------------------------
(* What was taken at a moment that is still timely is what is stored there. *)
LEMMA StoredIsTaken ==
    ASSUME SamplesInv, NEW s \in Sample, s.at >= moment - SampleAge
    PROVE  /\ \A t \in StoredAt(s.at) : t \in taken /\ t.at = s.at
           /\ \A t \in taken : t.at = s.at => t \in StoredAt(s.at)
<1>1. \A x \in samples : x.sample \in taken
  BY DEF SamplesInv, RecentIsStored
<1>2. \A t \in taken : t.at >= moment - SampleAge => \E x \in samples : x.sample = t
  BY DEF SamplesInv, RecentIsStored
<1>3. ASSUME NEW t \in taken, t.at = s.at PROVE t \in StoredAt(s.at)
  <2>1. t.at >= moment - SampleAge
    BY <1>3
  <2>2. PICK x \in samples : x.sample = t
    BY <1>2, <2>1
  <2>3. QED
    BY <1>3, <2>2 DEF StoredAt
<1>4. QED
  BY <1>1, <1>3 DEF StoredAt

(* The position of an active session is the newest sample taken, if any.   *)
LEMMA NewestShown ==
    ASSUME SamplesInv
    PROVE  PositionIsNewest
<1>1. NoSample \notin taken
  BY Typed, SampleTimes
<1>2. SessionFollowsJourney /\ NewestIsHeld
  BY DEF SamplesInv
<1>3. CASE session.state = "active"
  <2>1. ShownPosition = position
    BY <1>2, <1>3 DEF SessionFollowsJourney, ShownPosition
  <2>2. taken = {} <=> position = NoSample
    BY <1>1, <1>2, <1>3 DEF NewestIsHeld
  <2>3. QED
    BY <1>2, <1>3, <2>1, <2>2 DEF NewestIsHeld, PositionIsNewest
<1>4. CASE session.state # "active"
  BY <1>2, <1>4 DEF NewestIsHeld, PositionIsNewest
<1>5. QED
  BY <1>3, <1>4

LEMMA AnsweredTruly ==
    ASSUME SamplesInv
    PROVE  AnswersAreTrue
<1> SUFFICES ASSUME NEW s \in Sample, Admissible(s)
             PROVE  /\ s \in taken <=> Answer(s) = "duplicate"
                    /\ (\E t \in taken : t.at = s.at /\ t # s) <=> Answer(s) = "conflict"
  BY DEF AnswersAreTrue
<1>1. session.state = "active" /\ s.at >= moment - SampleAge
  BY DEF Admissible, Timely
<1>2. /\ taken = {} => position = NoSample
      /\ taken # {} => position \in taken
      /\ \A t \in taken : t.at <= position.at
      /\ \A t, u \in taken : t.at = u.at => t = u
  BY <1>1 DEF SamplesInv, NewestIsHeld
<1>3. /\ s.at \in Nat /\ position.at \in Int /\ \A t \in taken : t.at \in Nat
  BY SampleTimes, Typed
<1>4. /\ \A t \in StoredAt(s.at) : t \in taken /\ t.at = s.at
      /\ \A t \in taken : t.at = s.at => t \in StoredAt(s.at)
  BY <1>1, StoredIsTaken
<1>5. Answer(s) = IF position.at < s.at THEN "accepted"
                  ELSE IF TakenBefore(s) THEN "duplicate"
                  ELSE IF AnotherAt(s) THEN "conflict"
                  ELSE "out_of_order"
  BY DEF Answer
<1>6. CASE position.at < s.at
  <2>1. \A t \in taken : t.at # s.at
    BY <1>2, <1>3, <1>6
  <2>2. QED
    BY <1>5, <1>6, <2>1
<1>7. CASE position.at = s.at
  <2>1. position \in taken
    BY <1>2, <1>3, <1>7, SampleTimes, Times
  <2>2. TakenBefore(s) <=> position = s
    BY <1>7 DEF TakenBefore
  <2>3. AnotherAt(s) <=> position # s
    BY <1>7 DEF AnotherAt
  <2>4. s \in taken <=> position = s
    BY <1>2, <1>7, <2>1
  <2>5. (\E t \in taken : t.at = s.at /\ t # s) <=> position # s
    BY <1>2, <1>7, <2>1
  <2>6. CASE position = s
    BY <1>3, <1>5, <1>7, <2>2, <2>4, <2>5, <2>6
  <2>7. CASE position # s
    BY <1>3, <1>5, <1>7, <2>2, <2>3, <2>4, <2>5, <2>7
  <2>8. QED
    BY <2>6, <2>7
<1>8. CASE position.at > s.at
  <2>1. TakenBefore(s) <=> StoredAt(s.at) = {s}
    BY <1>3, <1>8 DEF TakenBefore
  <2>2. AnotherAt(s) <=> StoredAt(s.at) \notin {{}, {s}}
    BY <1>3, <1>8 DEF AnotherAt
  <2>3. s \in taken <=> StoredAt(s.at) = {s}
    BY <1>2, <1>4
  <2>4. (\E t \in taken : t.at = s.at /\ t # s) <=> StoredAt(s.at) \notin {{}, {s}}
    BY <1>2, <1>4
  <2>5. CASE StoredAt(s.at) = {s}
    BY <1>3, <1>5, <1>8, <2>1, <2>3, <2>4, <2>5
  <2>6. CASE StoredAt(s.at) # {s}
    BY <1>3, <1>5, <1>8, <2>1, <2>2, <2>3, <2>4, <2>6
  <2>7. QED
    BY <2>5, <2>6
<1>9. QED
  BY <1>3, <1>6, <1>7, <1>8

(* Samples are kept once each, the newest of them is what is shown, and    *)
(* whoever sends one again is told so: sending a sample again after a lost *)
(* answer is safe, in any order and whatever the retention removes.        *)
THEOREM SamplesKept == SamplesSpec => []SamplesAreKept
<1>1. SamplesInv => SamplesAreKept
  BY NewestShown, AnsweredTruly DEF SamplesInv, NewestIsHeld, SamplesAreKept
<1>2. QED
  BY <1>1, SamplesInvariance, PTL

LEMMA EarnedArrival ==
    ASSUME SamplesInv
    PROVE  ArrivalIsEarned
<1> SUFFICES ASSUME session.state # "none"
             PROVE  /\ session.count = Cardinality(TakenNear)
                    /\ session.arrived <=>
                         /\ Cardinality(TakenNear) >= ArrivalCount
                         /\ \E s, t \in TakenNear : t.at - s.at >= ArrivalSpan
  BY DEF ArrivalIsEarned
<1>1. /\ session.count = Cardinality(TakenNear)
      /\ TakenNear = {} => session.first = Never /\ session.last = Never
      /\ TakenNear # {} => \E s, t \in TakenNear : s.at = session.first /\ t.at = session.last
      /\ \A s \in TakenNear : session.first <= s.at /\ s.at <= session.last
      /\ session.arrived <=> /\ session.count >= ArrivalCount
                             /\ session.last - session.first >= ArrivalSpan
  BY DEF SamplesInv, EvidenceIsExact
<1>2. \A s \in TakenNear : s.at \in Nat
  BY Typed DEF TakenNear
<1>3. CASE TakenNear = {}
  BY <1>1, <1>3, FS_EmptySet
<1>4. CASE TakenNear # {}
  <2>1. PICK s \in TakenNear, t \in TakenNear : s.at = session.first /\ t.at = session.last
    BY <1>1, <1>4
  <2>2. session.last - session.first >= ArrivalSpan
          <=> \E x, y \in TakenNear : y.at - x.at >= ArrivalSpan
    <3>1. ASSUME NEW x \in TakenNear, NEW y \in TakenNear, y.at - x.at >= ArrivalSpan
          PROVE  session.last - session.first >= ArrivalSpan
      <4>1. session.first <= x.at /\ y.at <= session.last
        BY <1>1
      <4>2. session.first \in Nat /\ session.last \in Nat /\ x.at \in Nat /\ y.at \in Nat
        BY <1>2, <2>1
      <4>3. QED
        BY <3>1, <4>1, <4>2
    <3>2. QED
      BY <2>1, <3>1
  <2>3. QED
    BY <1>1, <2>2
<1>5. QED
  BY <1>3, <1>4

(* An arrival is observed when and only when enough accepted samples were  *)
(* near the place for long enough, whatever came late, twice or not.       *)
THEOREM ArrivalEarned == SamplesSpec => []ArrivalIsEarned
BY EarnedArrival, SamplesInvariance, PTL

-----------------------------------------------------------------------------
(* The types of every part's state.                                        *)

\* What the invariants of the asks and of the checks do not speak of.
SignInRest ==
    /\ codes \subseteq Phones
    /\ customers \subseteq Phones
    /\ sessions \subseteq opened

LEMMA SignInRestInv ==
    ASSUME AsksInv, ChecksInv, SignInRest, [SignInNext]_signInVars
    PROVE  SignInRest'
<1> USE DEF SignInRest
<1>1. /\ \A a \in Asks : ask[a].step # "idle" => ask[a].phone \in Phones
      /\ \A v \in Checks : check[v].step # "idle" => check[v].of \in Asks
      /\ \A v \in Checks : check[v].step = "consumed" =>
           ask[check[v].of].step = "answered"
  BY DEF AsksInv, ChecksInv, Begun, Beyond
<1>2. CASE \E a \in Asks : StartVerification(a)
  <2>1. PICK a \in Asks : StartVerification(a)
    BY <1>2
  <2>2. /\ ask[a].step = "accepted" /\ codes' = codes \cup {ask[a].phone}
        /\ UNCHANGED checkVars
    BY <2>1 DEF StartVerification, AskGoes
  <2>3. ask[a].phone \in Phones
    BY <1>1, <2>2
  <2>4. QED
    BY <2>2, <2>3 DEF checkVars
<1>3. CASE \E v \in Checks : UpsertCustomer(v)
  <2>1. PICK v \in Checks : UpsertCustomer(v)
    BY <1>3
  <2>2. /\ check[v].step = "consumed" /\ customers' = customers \cup {ask[check[v].of].phone}
        /\ UNCHANGED <<codes, sessions, opened>>
    BY <2>1 DEF UpsertCustomer, CheckGoes
  <2>3. check[v].of \in Asks /\ ask[check[v].of].step = "answered"
    BY <1>1, <2>2
  <2>4. ask[check[v].of].phone \in Phones
    BY <1>1, <2>3
  <2>5. QED
    BY <2>2, <2>4
<1>4. CASE \/ \E a \in Asks :
              \/ \E p \in Phones : RequestOtp(a, p)
              \/ ReserveOtpRequest(a) \/ RefuseOtpRequest(a)
              \/ CreateOtpChallenge(a) \/ RequestOtpFails(a)
           \/ TimePasses \/ UNCHANGED signInVars
  <2>1. UNCHANGED <<codes, checkVars>>
    BY <1>4 DEF RequestOtp, ReserveOtpRequest, RefuseOtpRequest, CreateOtpChallenge,
       RequestOtpFails, TimePasses, signInVars
  <2>2. QED
    BY <2>1 DEF checkVars
<1>5. CASE \E v \in Checks :
             \/ \E a \in Asks : ReserveOtpVerificationAttempt(v, a) \/ RefuseVerification(v, a)
             \/ CheckVerification(v) \/ ConsumeOtpChallenge(v) \/ ConsumesNothing(v)
             \/ CreateCustomerSession(v) \/ VerifyOtpFails(v) \/ EndCustomerSession(v)
  <2>1. /\ UNCHANGED <<codes, customers>>
        /\ \/ UNCHANGED <<sessions, opened>>
           \/ \E v \in Checks : sessions' = sessions \cup {v} /\ opened' = opened \cup {v}
           \/ \E v \in Checks : sessions' = sessions \ {v} /\ opened' = opened
    BY <1>5 DEF ReserveOtpVerificationAttempt, RefuseVerification, CheckVerification,
       ConsumeOtpChallenge, ConsumesNothing, CreateCustomerSession, VerifyOtpFails,
       EndCustomerSession
  <2>2. QED
    BY <2>1
<1>6. QED
  BY <1>2, <1>3, <1>4, <1>5 DEF SignInNext

(* Every table of the customers' sign-in keeps its type: codes are sent to, *)
(* and customers made of, phones that asked, and sessions of checks.        *)
THEOREM SignInTypes == SignInSpec => []SignInTypeOK
<1> DEFINE All == AsksInv /\ ChecksInv /\ SignInRest
<1>1. SignInInit => All
  BY AsksInitInv, ChecksInitInv DEF SignInInit, SignInRest
<1>2. All /\ [SignInNext]_signInVars => All'
  BY AsksNextInv, ChecksNextInv, SignInRestInv DEF AsksInv
<1>3. All => SignInTypeOK
  <2> SUFFICES ASSUME All PROVE SignInTypeOK
    OBVIOUS
  <2>1. AsksTypeOK
    BY DEF AsksInv
  <2>2. QED
    BY <2>1 DEF AsksTypeOK, AskRows, ChecksInv, CheckRows, SignInRest, SignInTypeOK
<1> HIDE DEF All
<1>4. QED
  BY <1>1, <1>2, <1>3, PTL DEF SignInSpec

\* What the invariants of a start do not speak of.
ServiceRest ==
    /\ built \subseteq Migrations
    /\ drift \subseteq Drifts
    /\ migrator \in Instances \cup {Nobody}
    /\ early \subseteq Instances

LEMMA ServiceRestInv ==
    ASSUME ServiceInv, ServiceRest, [ServiceNext]_serviceVars
    PROVE  ServiceRest'
<1> USE DEF ServiceRest
<1>1. \A r \in Releases : {r[k] : k \in DOMAIN r} \subseteq Migrations
  BY DEF Migrations
<1>2. \A i \in Instances : inst[i].step # "down" => inst[i].release \in Releases
  BY DEF ServiceInv, InstOK
<1>3. CASE \E i \in Instances : ApplyMigration(i)
  <2>1. PICK i \in Instances : ApplyMigration(i)
    BY <1>3
  <2>2. /\ inst[i].step = "validated"
        /\ built' = built \/ built' = built \cup {inst[i].release[inst[i].next]}
        /\ inst[i].next <= Len(inst[i].release)
        /\ UNCHANGED <<drift, migrator, early>>
    BY <2>1 DEF ApplyMigration
  <2>3. inst[i].next = Len(history) + 1 /\ history \in Seq(Migrations)
    BY <2>2 DEF ServiceInv, InstOK
  <2>4. inst[i].release \in Releases /\ inst[i].release \in Seq(Migrations)
    BY <1>2, <2>2, ReleasesAssumption
  <2>5. inst[i].next \in 1..Len(inst[i].release)
    BY <2>2, <2>3, <2>4
  <2>6. inst[i].release[inst[i].next] \in Migrations
    BY <2>4, <2>5
  <2>7. QED
    BY <2>2, <2>6
<1>4. CASE \E i \in Instances :
             InitializeServiceRequests(i) \/ InitializeStaff(i) \/ InitializeDevices(i)
  <2>1. PICK i \in Instances, piece \in Parts : InitializePart(i, piece)
    BY <1>4 DEF InitializeServiceRequests, InitializeStaff, InitializeDevices, Parts
  <2>2. /\ inst[i].step = "migrated"
        /\ built' = built \cup
             {inst[i].release[k] : k \in ShapesOf(piece) \cap DOMAIN inst[i].release}
        /\ UNCHANGED <<drift, migrator, early>>
    BY <2>1 DEF InitializePart, MayInitialize
  <2>3. {inst[i].release[k] : k \in ShapesOf(piece) \cap DOMAIN inst[i].release}
          \subseteq Migrations
    BY <1>1, <1>2, <2>2
  <2>4. QED
    BY <2>2, <2>3
<1>5. CASE \E i \in Instances :
             \/ \E r \in Releases : LoadMigrations(i, r)
             \/ TakeMigrationLock(i) \/ PrepareHistory(i) \/ ValidateHistory(i)
             \/ FinishMigrations(i) \/ InstanceStops(i)
             \/ LookForInitialAdmin(i) \/ CreateInitialAdmin(i) \/ StartWithoutAdmin(i)
  <2>1. /\ UNCHANGED <<built, drift>>
        /\ migrator' \in {migrator, Nobody} \cup Instances
        /\ early' = early \/ early' = {j \in Instances : inst[j].step = "absent"}
    BY <1>5 DEF LoadMigrations, TakeMigrationLock, PrepareHistory, ValidateHistory,
       FinishMigrations, InstanceStops, LookForInitialAdmin, CreateInitialAdmin,
       StartWithoutAdmin
  <2>2. QED
    BY <2>1
<1>6. CASE \/ \E d \in Drifts : AlterSchema(d)
           \/ DeactivateAdmin \/ UNCHANGED serviceVars
  BY <1>6 DEF AlterSchema, DeactivateAdmin, serviceVars
<1>7. QED
  BY <1>3, <1>4, <1>5, <1>6 DEF ServiceNext

(* The schema is always one that some release's migrations build, and the  *)
(* lock, the history and every instance's progress keep their types.       *)
THEOREM ServiceTypes == ServiceSpec => []ServiceTypeOK
<1> DEFINE All == ServiceInv /\ AccountInv /\ ServiceRest
<1>1. ServiceInit => All
  <2> SUFFICES ASSUME ServiceInit PROVE ServiceRest
    BY ServiceInitInv
  <2>1. \A r \in Releases : r[1] \in Migrations
    <3> SUFFICES ASSUME NEW r \in Releases PROVE r[1] \in Migrations
      OBVIOUS
    <3>1. r \in Seq(Migrations) /\ Len(r) > 0
      BY ReleasesAssumption
    <3>2. QED
      BY <3>1
  <2>2. built \subseteq Migrations
    BY <2>1 DEF ServiceInit
  <2>3. QED
    BY <2>2 DEF ServiceInit, ServiceRest
<1>2. All /\ [ServiceNext]_serviceVars => All'
  <2> SUFFICES ASSUME All, [ServiceNext]_serviceVars PROVE All'
    OBVIOUS
  <2>1. ServiceInv'
    BY ServiceNextInv
  <2>2. inst' \in [Instances -> InstRows]
    BY <2>1 DEF ServiceInv
  <2>3. QED
    BY <2>1, <2>2, AccountNext, ServiceRestInv
<1>3. All => ServiceTypeOK
  BY DEF ServiceInv, AccountInv, ServiceRest, InstRows, ServiceTypeOK
<1> HIDE DEF All
<1>4. QED
  BY <1>1, <1>2, <1>3, PTL DEF ServiceSpec

-----------------------------------------------------------------------------
(* The parts together.                                                     *)

(* A step of the parts together is, for each part, a step of its own or    *)
(* none: no two of them share a variable.                                  *)
LEMMA EveryPartSteps ==
    ASSUME [PlatformNext]_platformVars
    PROVE  /\ [SignInNext]_signInVars /\ [LimitsNext]_limitVars /\ [CodesNext]_codeVars
           /\ [DevicesNext]_deviceVars /\ [ServiceNext]_serviceVars
           /\ [SamplesNext]_sampleVars /\ [TrackingNext]_trackingVars
<1>1. CASE UNCHANGED platformVars
  BY <1>1 DEF platformVars
<1>2. CASE PlatformNext
  BY <1>2 DEF PlatformNext, AsksNext, ChecksNext
<1>3. QED
  BY <1>1, <1>2

(* The parts together implement every part: what a theorem says of one     *)
(* part's specification holds of the service whole.                        *)
THEOREM PartsImplemented ==
    PlatformSpec => /\ SignInSpec /\ LimitsSpec /\ CodesSpec /\ DevicesSpec
                    /\ ServiceSpec /\ SamplesSpec /\ TrackingSpec
<1>1. PlatformInit => /\ SignInInit /\ LimitsInit /\ CodesInit /\ DevicesInit
                      /\ ServiceInit /\ SamplesInit /\ TrackingInit
  BY DEF PlatformInit
<1>2. QED
  BY <1>1, EveryPartSteps, PTL DEF PlatformSpec, SignInSpec, LimitsSpec, CodesSpec,
     DevicesSpec, ServiceSpec, SamplesSpec, TrackingSpec

(* The state of every part keeps its type while the others run: the tables *)
(* and the processes' own state alike.                                     *)
THEOREM PlatformTypes == PlatformSpec => []PlatformTypeOK
<1>1. LimitsInv => LimitsTypeOK
  BY DEF LimitsInv
<1>2. CodesInv => CodesTypeOK
  BY DEF CodesInv
<1>3. DevicesInv => DevicesTypeOK
  BY DEF DevicesInv
<1>4. SamplesInv => SamplesTypeOK
  BY DEF SamplesInv
<1>5. LimitsSpec => []LimitsTypeOK
  BY <1>1, LimitsInitInv, LimitsNextInv, PTL DEF LimitsSpec
<1>6. CodesSpec => []CodesTypeOK
  BY <1>2, CodesInitInv, CodesNextInv, PTL DEF CodesSpec
<1>7. DevicesSpec => []DevicesTypeOK
  BY <1>3, DevicesInvariance, PTL
<1>8. SamplesSpec => []SamplesTypeOK
  BY <1>4, SamplesInvariance, PTL
<1>9. SignInTypeOK /\ LimitsTypeOK /\ CodesTypeOK /\ DevicesTypeOK /\ ServiceTypeOK
        /\ SamplesTypeOK /\ TrackingTypeOK => PlatformTypeOK
  BY DEF PlatformTypeOK
<1>10. QED
  BY <1>5, <1>6, <1>7, <1>8, <1>9, SignInTypes, ServiceTypes, TrackingTypes,
     PartsImplemented, PTL

(* Everything the parts promise holds while they run side by side.         *)
THEOREM PlatformSafe ==
    PlatformSpec =>
      /\ [](OtpLimits /\ ChallengesAreSpent /\ SignInLimitsHold /\ CodesAreRotated)
      /\ [](DevicesAreLimited /\ HistoryIsTrue /\ SamplesAreKept /\ ArrivalIsEarned)
      /\ []NoOpsAreTrue
      /\ TokensChangeHandsWhole /\ StartupChangesNothing
      /\ BootstrapKeepsAccounts /\ ReplacementsSurvive
BY PartsImplemented, OtpLimited, ChallengesSpent, LimitsHeld, CodesRotated, DevicesLimited,
   HistoryTrue, SamplesKept, ArrivalEarned, NoOpsTrue, TokensWhole, StartupHarmless,
   AccountsKept, ReplacementsLive, PTL

=============================================================================
