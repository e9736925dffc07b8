---------------------------- MODULE RequestImages ----------------------------
(***************************************************************************)
(* Creation of a service request with images, and the reconciliation of    *)
(* the object store.                                                       *)
(*                                                                         *)
(* An attempt is one call of createAuthenticatedServiceRequestWithImages   *)
(* (or of its JSON twin: the content without images).  It uploads objects  *)
(* under fresh keys, then runs the transaction of                          *)
(* ServiceRequestRepository.create, which is arbitrated per submission key *)
(* by a unique index, and deletes its objects when create() rejects.  The  *)
(* store and the database share no transaction.  RequestImageReconciler    *)
(* (an operator's command) removes what crashes and failed deletions left. *)
(*                                                                         *)
(* Time is counted in ticks and only where the code compares it: the age   *)
(* of an object (saturated at the grace period) and how long an attempt    *)
(* and a scan have been running.                                           *)
(***************************************************************************)
EXTENDS Naturals, FiniteSets

CONSTANTS
    Attempts,       \* calls, in whatever process they run
    Submissions,    \* (customer, client_submission_id) pairs
    Contents,       \* submission fingerprints
    NoContent,      \* what an unrecorded submission has for a content
    Nobody,         \* the holder of a submission key nobody is inserting
    Keys,           \* storage keys, in the order both listings use
    ImageCount,     \* [Contents -> Nat]: how many images a content has
    ImagesEnabled,  \* REQUEST_IMAGES_ENABLED
    Grace,          \* the orphan grace period
    MaxAttempt,     \* an attempt's uploads and COMMIT lie within this many ticks
    MaxScan,        \* so do a scan's first reference page and its threshold
    DbPageSize,     \* reference keys per page
    ListHorizon,    \* objects one run lists: MAX_LIST_PAGES pages
    DeleteBatchSize,
    LostAck         \* contents for which the acknowledgement of COMMIT may be lost

ASSUME KeysAssumption == Keys \subseteq Nat \ {0} /\ IsFiniteSet(Keys)
ASSUME SizesAssumption ==
    /\ ImageCount \in [Contents -> Nat]
    /\ {DbPageSize, ListHorizon, DeleteBatchSize} \subseteq Nat \ {0}
    /\ ImagesEnabled \in BOOLEAN
    /\ LostAck \subseteq Contents
ASSUME NamesAssumption ==
    /\ Nobody \notin Attempts /\ NoContent \notin Contents
    /\ Submissions # {}
\* The default grace period is a day; uploads and scans take minutes.
ASSUME GraceAssumption ==
    /\ {Grace, MaxAttempt, MaxScan} \subseteq Nat
    /\ MaxAttempt + MaxScan < Grace

VARIABLES
    request,    \* [Submissions -> committed row: fingerprint and image keys]
    holder,     \* [Submissions -> the attempt whose INSERT is uncommitted]
    store,      \* keys of the objects in the bucket
    age,        \* [Keys -> ticks since the object landed, at most Grace]
    used,       \* keys handed out (randomUUID never repeats)
    \* of an attempt
    phase, sub, content,
    planned,    \* the keys of its canonical images
    uploaded,   \* those it knows to have put
    clock,      \* ticks since it started uploading
    answer,     \* what its caller got
    \* of the reconciler
    scan,       \* its phase
    after,      \* the last reference key read
    refs,       \* the reference set
    orphans,    \* the keys still to be deleted
    scanClock   \* ticks since the first reference page

callVars == <<phase, sub, content, planned, uploaded, clock, answer>>
scanVars == <<scan, after, refs, orphans, scanClock>>
vars == <<request, holder, store, age, used, callVars, scanVars>>

Nothing == [content |-> NoContent, images |-> {}]

Phases == {"idle", "uploading", "inserted", "cleaning", "replaying", "done", "dead"}
Answers == {"none", "created", "replayed", "conflict", "error"}

\* service_request_images.storage_key of every committed row.
Referenced == UNION {request[s].images : s \in Submissions}

\* The uploads of the attempt may still be referenced by its COMMIT.
Live(a) == phase[a] \in {"uploading", "inserted"}

\* The first n members of a set of keys: a page of a sorted listing.
FirstOf(n, ks) == {k \in ks : Cardinality({j \in ks : j < k}) < n}

\* storage.put took effect.
Land(k) ==
    /\ store' = store \cup {k}
    /\ age' = [age EXCEPT ![k] = 0]

\* storage.deleteMany took effect on ks.
Forget(ks) ==
    /\ store' = store \ ks
    /\ age' = [k \in Keys |-> IF k \in ks THEN 0 ELSE age[k]]

\* create() or an upload rejected: what is left of the call is its catch.
Caught(a, result) ==
    /\ phase' = [phase EXCEPT ![a] = "cleaning"]
    /\ answer' = [answer EXCEPT ![a] = result]
    /\ clock' = [clock EXCEPT ![a] = 0]
    /\ UNCHANGED <<sub, content, planned, uploaded>>

\* The call got as far as p with its keys disposed of.
Finish(a, p, result) ==
    /\ phase' = [phase EXCEPT ![a] = p]
    /\ answer' = [answer EXCEPT ![a] = result]
    /\ clock' = [clock EXCEPT ![a] = 0]
    /\ planned' = [planned EXCEPT ![a] = {}]
    /\ uploaded' = [uploaded EXCEPT ![a] = {}]
    /\ UNCHANGED <<sub, content>>

-----------------------------------------------------------------------------
(* One attempt.                                                            *)

\* Keys canonicalizeOne may give the images of a content: fresh ones.
FreshKeys(c) == {ks \in SUBSET (Keys \ used) : Cardinality(ks) = ImageCount[c]}

\* Mutant: the names of the objects are derived from the upload.
CanonicalizeByContent(a, s, c) ==
    /\ phase[a] = "idle"
    /\ \E ks \in FreshKeys(c) : planned' = [planned EXCEPT ![a] = ks]
    /\ phase' = [phase EXCEPT ![a] = "uploading"]
    /\ sub' = [sub EXCEPT ![a] = s]
    /\ content' = [content EXCEPT ![a] = c]
    /\ UNCHANGED <<request, holder, store, age, used, uploaded, clock, answer, scanVars>>

\* Canonical images and the fingerprint exist before anything is uploaded.
Canonicalize(a, s, c) ==
    /\ phase[a] = "idle"
    /\ ImageCount[c] = 0 \/ ImagesEnabled
    /\ \E ks \in FreshKeys(c) :
        /\ used' = used \cup ks
        /\ planned' = [planned EXCEPT ![a] = ks]
    /\ phase' = [phase EXCEPT ![a] = "uploading"]
    /\ sub' = [sub EXCEPT ![a] = s]
    /\ content' = [content EXCEPT ![a] = c]
    /\ UNCHANGED <<request, holder, store, age, uploaded, clock, answer, scanVars>>

NextImage(a, k) == k \in FirstOf(1, planned[a] \ uploaded[a])

\* upload: the objects are put one after the other.
PutImage(a, k) ==
    /\ phase[a] = "uploading"
    /\ NextImage(a, k)
    /\ Land(k)
    /\ uploaded' = [uploaded EXCEPT ![a] = @ \cup {k}]
    /\ UNCHANGED <<request, holder, used, phase, sub, content, planned, clock, answer, scanVars>>

\* A put that fails, whether or not the object landed, ends the attempt; the
\* objects put before it are deleted, the failing one is not among them.
PutFails(a, k) ==
    /\ phase[a] = "uploading"
    /\ NextImage(a, k)
    /\ Land(k) \/ UNCHANGED <<store, age>>
    /\ Caught(a, "error")
    /\ UNCHANGED <<request, holder, used, scanVars>>

\* INSERT ... ON CONFLICT DO NOTHING.  While another transaction holds the
\* submission key the statement waits (this step is disabled).
InsertRequest(a) ==
    /\ phase[a] = "uploading"
    /\ uploaded[a] = planned[a]
    /\ holder[sub[a]] = Nobody
    /\ request[sub[a]] = Nothing
    /\ holder' = [holder EXCEPT ![sub[a]] = a]
    /\ phase' = [phase EXCEPT ![a] = "inserted"]
    /\ UNCHANGED <<request, store, age, used, sub, content, planned, uploaded,
                   clock, answer, scanVars>>

\* Mutant: the submission key alone makes a replay.
FoundByKey(a) == "replayed"

\* The fingerprint of the committed row decides.
Found(a) == IF request[sub[a]].content = content[a] THEN "replayed" ELSE "conflict"

\* The INSERT found a committed row: the transaction is rolled back.
FindCommitted(a) ==
    /\ phase[a] = "uploading"
    /\ uploaded[a] = planned[a]
    /\ holder[sub[a]] = Nobody
    /\ request[sub[a]] # Nothing
    /\ Caught(a, Found(a))
    /\ UNCHANGED <<request, holder, store, age, used, scanVars>>

Release(a) == holder' = [s \in Submissions |-> IF holder[s] = a THEN Nobody ELSE holder[s]]

\* The request row and the image rows become visible together.
CommitRows(a) ==
    /\ phase[a] = "inserted"
    /\ request' = [request EXCEPT ![sub[a]] =
                    [content |-> content[a], images |-> planned[a]]]
    /\ Release(a)
    /\ UNCHANGED <<store, age, used, scanVars>>

\* Mutant: the catch also covers what follows create().
CommitInsideTry(a) ==
    /\ CommitRows(a)
    /\ Finish(a, "done", "created") \/ Caught(a, "error")

\* create() resolves.  Signing the DTOs may still fail: the caller gets an
\* error and nothing is deleted.
Commit(a) ==
    /\ CommitRows(a)
    /\ \E result \in {"created", "error"} : Finish(a, "done", result)

\* COMMIT took effect but its acknowledgement did not arrive: create()
\* rejects, and its caller cannot tell this from a rollback.
CommitUnacknowledged(a) ==
    /\ content[a] \in LostAck
    /\ CommitRows(a)
    /\ Caught(a, "error")

\* A statement of the transaction fails: rollback, and create() rejects.
Abort(a) ==
    /\ phase[a] = "inserted"
    /\ Release(a)
    /\ Caught(a, "error")
    /\ UNCHANGED <<request, store, age, used, scanVars>>

\* The catch of the caller: delete what this attempt uploaded.  The deletion
\* is best effort, any part of it may fail.
Compensate(a) ==
    /\ phase[a] = "cleaning"
    /\ \E gone \in SUBSET uploaded[a] : Forget(gone)
    /\ Finish(a, IF answer[a] = "replayed" THEN "replaying" ELSE "done", answer[a])
    /\ UNCHANGED <<request, holder, used, scanVars>>

\* The replay answers with the committed request and its images.
Replay(a) ==
    /\ phase[a] = "replaying"
    /\ \E result \in {"replayed", "error"} :
        /\ result = "replayed" => request[sub[a]] # Nothing
        /\ Finish(a, "done", result)
    /\ UNCHANGED <<request, holder, store, age, used, scanVars>>

\* The process dies.  A put in flight may land, a COMMIT in flight may take
\* effect; the database rolls back whatever else was open.
Crash(a) ==
    /\ phase[a] \notin {"idle", "done", "dead"}
    /\ Finish(a, "dead", "none")
    /\ \/ Release(a) /\ UNCHANGED <<request, store, age, used, scanVars>>
       \/ CommitRows(a)
       \/ /\ phase[a] = "uploading"
          /\ \E k \in Keys : NextImage(a, k) /\ Land(k)
          /\ UNCHANGED <<request, holder, used, scanVars>>

-----------------------------------------------------------------------------
(* RequestImageReconciler.reconcile.                                       *)

rest == <<request, holder, used, callVars>>

SweepStart ==
    /\ scan = "idle"
    /\ scan' = "refs"
    /\ UNCHANGED <<rest, store, age, after, refs, orphans, scanClock>>

\* listImageStorageKeys: committed keys after the last one read.
ReferencePage == FirstOf(DbPageSize, {k \in Referenced : k > after})

\* Phase 1.  Every page is a query of its own: the set is no snapshot.
SweepPage ==
    /\ scan = "refs"
    /\ after' \in ReferencePage
    /\ \A k \in ReferencePage : k <= after'
    /\ refs' = refs \cup ReferencePage
    /\ UNCHANGED <<rest, store, age, scan, orphans, scanClock>>

\* No rows after the last one.
SweepPagesEnd ==
    /\ scan = "refs"
    /\ \A k \in Referenced : k <= after
    /\ scan' = "listing"
    /\ UNCHANGED <<rest, store, age, after, refs, orphans, scanClock>>

\* Mutant: no grace period.
AgedAny(k) == TRUE

\* Older than the grace period.
Aged(k) == age[k] >= Grace

\* Unreferenced, aged objects among the first n.  The threshold is fixed
\* when the listing starts.
Listed(n) ==
    /\ scan = "listing"
    /\ orphans' = {k \in FirstOf(n, store) : k \notin refs /\ Aged(k)}
    /\ scan' = "deleting"
    /\ refs' = {} /\ after' = 0 /\ scanClock' = 0
    /\ UNCHANGED <<rest, store, age>>

\* Mutant: the bound of the page loop is off by one.
SweepListShort == Listed(ListHorizon - 1)

\* Phase 2.  Every run lists from the start of the namespace to the horizon.
SweepList == Listed(ListHorizon)

\* A page of the listing fails: what was found so far is still deleted.
SweepListCut == \E n \in 0..(ListHorizon - 1) : Listed(n)

Batch == FirstOf(DeleteBatchSize, orphans)

\* Phase 3: exact keys, in batches.
SweepDelete ==
    /\ orphans # {}
    /\ Forget(Batch)
    /\ orphans' = orphans \ Batch
    /\ UNCHANGED <<rest, scan, after, refs, scanClock>>

\* A batch that fails, whatever part of it was deleted, is not retried.
SweepDeleteFails ==
    /\ orphans # {}
    /\ \E gone \in SUBSET Batch : Forget(gone)
    /\ orphans' = orphans \ Batch
    /\ UNCHANGED <<rest, scan, after, refs, scanClock>>

\* The end of a run; a failed reference page, a dry run and a killed process
\* end it earlier, without deleting anything more.
SweepEnd ==
    /\ scan # "idle"
    /\ scan' = "idle" /\ orphans' = {}
    /\ refs' = {} /\ after' = 0 /\ scanClock' = 0
    /\ UNCHANGED <<rest, store, age>>

-----------------------------------------------------------------------------

Scanning == scan \in {"refs", "listing"}

\* Time passes, but not beyond the two durations the grace period covers.
Tick ==
    /\ \A a \in Attempts : Live(a) => clock[a] < MaxAttempt
    /\ Scanning => scanClock < MaxScan
    /\ age' = [k \in Keys |-> IF k \in store /\ age[k] < Grace THEN age[k] + 1 ELSE age[k]]
    /\ clock' = [a \in Attempts |-> IF Live(a) THEN clock[a] + 1 ELSE clock[a]]
    /\ scanClock' = IF Scanning THEN scanClock + 1 ELSE scanClock
    /\ UNCHANGED <<request, holder, store, used, phase, sub, content, planned, uploaded,
                   answer, scan, after, refs, orphans>>

Init ==
    /\ request = [s \in Submissions |-> Nothing]
    /\ holder = [s \in Submissions |-> Nobody]
    /\ store = {} /\ used = {}
    /\ age = [k \in Keys |-> 0]
    /\ phase = [a \in Attempts |-> "idle"]
    /\ sub = [a \in Attempts |-> CHOOSE s \in Submissions : TRUE]
    /\ content = [a \in Attempts |-> NoContent]
    /\ planned = [a \in Attempts |-> {}] /\ uploaded = [a \in Attempts |-> {}]
    /\ clock = [a \in Attempts |-> 0]
    /\ answer = [a \in Attempts |-> "none"]
    /\ scan = "idle" /\ after = 0 /\ refs = {} /\ orphans = {} /\ scanClock = 0

AttemptStep(a) ==
    \/ \E s \in Submissions, c \in Contents : Canonicalize(a, s, c)
    \/ \E k \in Keys : PutImage(a, k)
    \/ \E k \in Keys : PutFails(a, k)
    \/ InsertRequest(a)
    \/ FindCommitted(a)
    \/ Commit(a)
    \/ CommitUnacknowledged(a)
    \/ Abort(a)
    \/ Compensate(a)
    \/ Replay(a)
    \/ Crash(a)

SweepStep ==
    \/ SweepStart
    \/ SweepPage
    \/ SweepPagesEnd
    \/ SweepList
    \/ SweepListCut
    \/ SweepDelete
    \/ SweepDeleteFails
    \/ SweepEnd

Next ==
    \/ \E a \in Attempts : AttemptStep(a)
    \/ SweepStep
    \/ Tick

Spec == Init /\ [][Next]_vars

\* An attempt that started ends or dies; the operator keeps running the
\* command with --apply; reads, listings and deletions do not fail for ever.
Fairness ==
    /\ WF_vars(Tick)
    /\ \A a \in Attempts : WF_vars(phase[a] # "idle" /\ AttemptStep(a))
    /\ WF_vars(SweepStart)
    /\ SF_vars(SweepPage)
    /\ SF_vars(SweepPagesEnd)
    /\ SF_vars(SweepList)
    /\ SF_vars(SweepDelete)
    /\ WF_vars(scan = "deleting" /\ SweepEnd)

FairSpec == Spec /\ Fairness

-----------------------------------------------------------------------------
(* Properties.                                                             *)

\* Type correctness of the attempts, the reconciler and the two stores.
ImTypeOK ==
    /\ request \in [Submissions -> [content : Contents \cup {NoContent}, images : SUBSET Keys]]
    /\ holder \in [Submissions -> Attempts \cup {Nobody}]
    /\ store \subseteq used /\ used \subseteq Keys
    /\ age \in [Keys -> 0..Grace]
    /\ phase \in [Attempts -> Phases]
    /\ sub \in [Attempts -> Submissions]
    /\ content \in [Attempts -> Contents \cup {NoContent}]
    /\ planned \in [Attempts -> SUBSET Keys]
    /\ uploaded \in [Attempts -> SUBSET Keys]
    /\ clock \in [Attempts -> 0..MaxAttempt]
    /\ answer \in [Attempts -> Answers]
    /\ scan \in {"idle", "refs", "listing", "deleting"}
    /\ after \in Keys \cup {0}
    /\ refs \subseteq Keys /\ orphans \subseteq Keys
    /\ scanClock \in 0..MaxScan

\* The images of a committed request are in the store: neither the
\* compensation of this or of a losing attempt nor a reconciliation that read
\* its references before the COMMIT deletes them.
CommittedImagesKept == Referenced \subseteq store

\* Attempts with one submission key agree: at most one created the request,
\* a replay was asked for the content that was committed, and a conflict for
\* another one.
AnswersAgree ==
    \A a \in Attempts :
        LET row == request[sub[a]] IN
        /\ answer[a] = "created" =>
            /\ row.content = content[a]
            /\ Cardinality(row.images) = ImageCount[row.content]
            /\ \A b \in Attempts : b # a /\ answer[b] = "created" => sub[b] # sub[a]
        /\ answer[a] = "replayed" => row.content = content[a]
        /\ answer[a] = "conflict" => row.content \notin {NoContent, content[a]}

\* Whatever the attempts and the reconciler do, the two stores behave as
\* ImageKeeping says.
Keeping == INSTANCE ImageKeeping WITH Submissions <- Submissions, Contents <- Contents,
             Keys <- Keys, NoContent <- NoContent, request <- request, store <- store
KeepsImages == Keeping!Spec

Orphan(k) ==
    /\ k \in store \ Referenced
    /\ \A a \in Attempts : Live(a) => k \notin planned[a]

\* An object nobody refers to any more is removed in the end, although the
\* process that left it died or its deletion failed.
OrphansGo == \A k \in Keys : Orphan(k) ~> k \notin store

=============================================================================
