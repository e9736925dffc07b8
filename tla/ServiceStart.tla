----------------------------- MODULE ServiceStart -----------------------------
(* How an instance of the API starts: main runs the database migrations,     *)
(* Nest initializes the three repositories (each creates what it finds       *)
(* missing), and the first administrator is made if there is none.           *)
(*                                                                           *)
(* A release is the sequence of migrations it ships. A migration stands for  *)
(* its text, its checksum and the shape it gives the schema, which are told  *)
(* apart by the same comparison everywhere below. Instances of different     *)
(* releases start, fail and die at any moment on one database. Every         *)
(* transaction that changes the schema takes the same advisory lock and      *)
(* commits or rolls back whole, so it is one action.                         *)
EXTENDS Integers, Sequences, FiniteSets

CONSTANTS
    Instances,      \* processes
    Releases,       \* the migrations each release ships, in order
    Unchecked,      \* migrations that no schema contract describes
    Drifts,         \* the kinds of change made to the schema by hand
    Nobody          \* no instance

Migrations == UNION {{r[k] : k \in DOMAIN r} : r \in Releases}

ASSUME ReleasesAssumption ==
    /\ \A r \in Releases : r \in Seq(Migrations) /\ Len(r) > 0
    /\ \A r \in Releases : \A j, k \in DOMAIN r : r[j] = r[k] => j = k
    /\ \A r, s \in Releases : r[1] = s[1]
    /\ Nobody \notin Instances

VARIABLES
    built,      \* the migrations whose shape is in the schema
    drift,      \* how the schema differs from what they build
    history,    \* moeen_schema_migrations, by version
    migrator,   \* who holds the session's advisory lock
    inst,       \* where each instance is
    account,    \* the initial administrator's row of staff_users
    early       \* history: the starts that had found no account when it was made

serviceVars == <<built, drift, history, migrator, inst, account, early>>

InstanceSteps == {"down", "loaded", "locked", "prepared", "validated", "migrated",
                  "absent", "ready"}
Running == InstanceSteps \ {"down"}
Parts == {"requests", "staff", "devices"}

ServiceTypeOK ==
    /\ built \subseteq Migrations
    /\ drift \subseteq Drifts
    /\ history \in Seq(Migrations)
    /\ migrator \in Instances \cup {Nobody}
    /\ inst \in [Instances -> [step : InstanceSteps, release : Releases \cup {<<>>}, next : Nat,
                               initial : {"unknown", "empty", "current"},
                               parts : SUBSET Parts]]
    /\ account \in [by : Instances \cup {Nobody}, active : BOOLEAN]
    /\ early \subseteq Instances

Down == [step |-> "down", release |-> <<>>, next |-> 1, initial |-> "unknown",
         parts |-> {}]

\* The schema is empty, or a release from before the migrations made it.
ServiceInit ==
    /\ built \in {{}, {r[1] : r \in Releases}}
    /\ drift = {}
    /\ history = <<>>
    /\ migrator = Nobody
    /\ inst = [i \in Instances |-> Down]
    /\ account = [by |-> Nobody, active |-> FALSE]
    /\ early = {}

\* A release's migrations up to the k-th.
Shipped(r, k) == {r[j] : j \in 1..k}

\* schemaMatchesContract: the five comparisons of the schema with a contract.
ColumnsMatch(content, shape) == content = shape /\ "columns" \notin drift
SequencesMatch == "sequences" \notin drift
KeysMatch == "keys" \notin drift
IndexesMatch == "indexes" \notin drift
ChecksMatch == "checks" \notin drift

SchemaMatches(content, shape) ==
    ColumnsMatch(content, shape) /\ SequencesMatch /\ KeysMatch /\ IndexesMatch /\ ChecksMatch

\* contractForMigration: a migration the release has no contract for is not
\* checked.
Satisfied(content, r, k) ==
    r[k] \in Unchecked \/ SchemaMatches(content, Shipped(r, k))

Goes(i, to) == inst' = [inst EXCEPT ![i].step = to]

-----------------------------------------------------------------------------
(* The migration run *)

\* loadMigrations
LoadMigrations(i, r) ==
    /\ inst[i].step = "down"
    /\ inst' = [inst EXCEPT ![i] = [Down EXCEPT !.step = "loaded", !.release = r]]
    /\ UNCHANGED <<built, drift, history, migrator, account, early>>

TakeMigrationLock(i) ==
    /\ inst[i].step = "loaded"
    /\ migrator = Nobody
    /\ migrator' = i
    /\ Goes(i, "locked")
    /\ UNCHANGED <<built, drift, history, account, early>>

\* classifyInitialSchema, where it does not refuse
ClassifyInitialSchema(r) ==
    IF SchemaMatches(built, Shipped(r, 1)) THEN "current"
    ELSE IF built = {} /\ drift = {} THEN "empty" ELSE "refused"

\* The first transaction: without a history the schema is classified, and one
\* that is neither empty nor the supported one is refused.
PrepareHistory(i) ==
    LET state == IF history # <<>> THEN "unknown"
                 ELSE ClassifyInitialSchema(inst[i].release)
    IN  /\ inst[i].step = "locked"
        /\ state # "refused"
        /\ inst' = [inst EXCEPT ![i].step = "prepared", ![i].initial = state]
        /\ UNCHANGED <<built, drift, history, migrator, account, early>>

\* Mutant: checksums are not compared.
AppliedVersionsMatch(r) == Len(history) <= Len(r)

\* validateAppliedMigrations: the history is a prefix of the release.
AppliedMigrationsMatch(r) ==
    Len(history) <= Len(r) /\ \A k \in 1..Len(history) : history[k] = r[k]

ValidateHistory(i) ==
    LET r == inst[i].release IN
    /\ inst[i].step = "prepared"
    /\ AppliedMigrationsMatch(r)
    /\ history # <<>> => Satisfied(built, r, Len(history))
    /\ inst' = [inst EXCEPT ![i].step = "validated", ![i].next = Len(history) + 1]
    /\ UNCHANGED <<built, drift, history, migrator, account, early>>

\* One migration in one transaction: its SQL (which fails on what is there
\* already, but for the first one), the contract, and the row of the history,
\* whose version is a primary key. A baseline only writes the row.
ApplyMigration(i) ==
    LET r == inst[i].release
        k == inst[i].next
        baseline == k = 1 /\ inst[i].initial = "current"
    IN  /\ inst[i].step = "validated"
        /\ k <= Len(r)
        /\ k = 1 => inst[i].initial # "unknown"
        /\ k = 1 \/ r[k] \notin built
        /\ built' = IF baseline THEN built ELSE built \cup {r[k]}
        /\ Satisfied(built', r, k)
        /\ k = Len(history) + 1
        /\ history' = Append(history, r[k])
        /\ inst' = [inst EXCEPT ![i].next = k + 1]
        /\ UNCHANGED <<drift, migrator, account, early>>

FinishMigrations(i) ==
    LET r == inst[i].release IN
    /\ inst[i].step = "validated"
    /\ inst[i].next = Len(r) + 1
    /\ Satisfied(built, r, Len(r))
    /\ Goes(i, "migrated")
    /\ migrator' = Nobody
    /\ UNCHANGED <<built, drift, history, account, early>>

\* A refusal, an error or a crash: the open transaction is rolled back and the
\* session's lock is released.
InstanceStops(i) ==
    /\ inst[i].step \in Running
    /\ inst' = [inst EXCEPT ![i] = Down]
    /\ migrator' = IF migrator = i THEN Nobody ELSE migrator
    /\ UNCHANGED <<built, drift, history, account, early>>

-----------------------------------------------------------------------------
(* Nest's startup *)

\* Mutant: main does not wait for the migrations.
InitializesAtOnce(i) == inst[i].step \in Running \ {"absent", "ready"}

MayInitialize(i) == inst[i].step = "migrated"

\* The shapes the startup statements of a part would make, were they missing.
\* The device tables refer to the requests', so their repository initializes
\* that one first.
ShapesOf(part) ==
    CASE part = "requests" -> {1, 2}
      [] part = "staff" -> {1}
      [] part = "devices" -> {3, 4}

InitializePart(i, part) ==
    LET r == inst[i].release IN
    /\ MayInitialize(i)
    /\ part \notin inst[i].parts
    /\ part = "devices" => "requests" \in inst[i].parts
    /\ built' = built \cup {r[k] : k \in ShapesOf(part) \cap DOMAIN r}
    /\ inst' = [inst EXCEPT ![i].parts = @ \cup {part}]
    /\ UNCHANGED <<drift, history, migrator, account, early>>

InitializeServiceRequests(i) == InitializePart(i, "requests")
InitializeStaff(i) == InitializePart(i, "staff")
InitializeDevices(i) == InitializePart(i, "devices")

\* Mutant: an account that was switched off is taken for none.
AdminIsActive == account.active

AdminExists == account.by # Nobody

\* bootstrapInitialAdmin looks for the configured account ...
LookForInitialAdmin(i) ==
    /\ inst[i].step = "migrated"
    /\ inst[i].parts = Parts
    /\ Goes(i, IF AdminExists THEN "ready" ELSE "absent")
    /\ UNCHANGED <<built, drift, history, migrator, account, early>>

\* ... and upserts it: INSERT ... ON CONFLICT (email) DO UPDATE overwrites.
CreateInitialAdmin(i) ==
    /\ inst[i].step = "absent"
    /\ Goes(i, "ready")
    /\ account' = [by |-> i, active |-> TRUE]
    /\ early' = IF account.by # Nobody THEN early
                ELSE {j \in Instances : inst[j].step = "absent"}
    /\ UNCHANGED <<built, drift, history, migrator>>

\* No initial administrator is configured.
StartWithoutAdmin(i) ==
    /\ inst[i].step = "migrated"
    /\ inst[i].parts = Parts
    /\ Goes(i, "ready")
    /\ UNCHANGED <<built, drift, history, migrator, account, early>>

-----------------------------------------------------------------------------
(* By hand, on the database. A change that the startup statements would     *)
(* themselves repair, such as a dropped index, is left out.                 *)

AlterSchema(d) ==
    /\ d \in Drifts
    /\ drift' = IF d \in drift THEN drift \ {d} ELSE drift \cup {d}
    /\ UNCHANGED <<built, history, migrator, inst, account, early>>

DeactivateAdmin ==
    /\ account.active
    /\ account' = [account EXCEPT !.active = FALSE]
    /\ UNCHANGED <<built, drift, history, migrator, inst, early>>

ServiceNext ==
    \/ \E i \in Instances :
        \/ \E r \in Releases : LoadMigrations(i, r)
        \/ TakeMigrationLock(i) \/ PrepareHistory(i) \/ ValidateHistory(i)
        \/ ApplyMigration(i) \/ FinishMigrations(i) \/ InstanceStops(i)
        \/ InitializeServiceRequests(i) \/ InitializeStaff(i) \/ InitializeDevices(i)
        \/ LookForInitialAdmin(i) \/ CreateInitialAdmin(i) \/ StartWithoutAdmin(i)
    \/ \E d \in Drifts : AlterSchema(d)
    \/ DeactivateAdmin

ServiceSpec == ServiceInit /\ [][ServiceNext]_serviceVars

-----------------------------------------------------------------------------
Recorded == {history[k] : k \in 1..Len(history)}

(* The history tells what is in the schema: each recorded migration has     *)
(* been built and nothing else has, whichever instances of whichever        *)
(* releases ran, failed or died, and whatever was altered by hand. Before   *)
(* the first record the schema is empty or the supported old one.           *)
HistoryMatchesSchema ==
    IF history = <<>> THEN built \in {{}, {r[1] : r \in Releases}}
    ELSE built = Recorded

(* An instance past its migrations runs on a database whose history begins  *)
(* with every migration of its release, and keeps doing so while other      *)
(* releases migrate the database further.                                   *)
MigratedIsCurrent ==
    \A i \in Instances :
        inst[i].step \in {"migrated", "absent", "ready"} =>
            LET r == inst[i].release IN
            Len(r) <= Len(history) /\ \A k \in 1..Len(r) : history[k] = r[k]

(* The statements with which the repositories create what is missing never  *)
(* find anything missing: were an instance to initialize before the         *)
(* migrations, or between two of another instance's, it would leave a       *)
(* schema that no migration run accepts any more.                           *)
StartupChangesNothing ==
    [][(\E i \in Instances : inst'[i].parts \ inst[i].parts # {}) => built' = built]_serviceVars

(* A start does not change an administrator's account that is there, its    *)
(* password or its being switched off, unless it had found none: starts     *)
(* that look together before there is one overwrite each other's, and no    *)
(* later start does, whatever became of the account in between.             *)
BootstrapKeepsAccounts ==
    [][account.by # Nobody /\ (account'.by # account.by \/ (account'.active /\ ~account.active))
         => \E i \in early : inst[i].step = "absent" /\ inst'[i].step = "ready"]_serviceVars

(* The migration history is the truth about the schema, and an instance     *)
(* that serves has the whole of its release in it.                          *)
HistoryIsTrue == HistoryMatchesSchema /\ MigratedIsCurrent

=============================================================================
