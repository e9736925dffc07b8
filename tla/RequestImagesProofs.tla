------------------------- MODULE RequestImagesProofs -------------------------
(***************************************************************************)
(* What RequestImages keeps for any number of calls, submissions and keys  *)
(* and any page and batch sizes, as long as the durations satisfy          *)
(* GraceAssumption and no acknowledgement of a COMMIT with images is lost. *)
(***************************************************************************)
EXTENDS RequestImages, FiniteSetTheorems, TLAPS

(* Only submissions without images may lose an acknowledgement.            *)
Harmless == \A c \in LostAck : ImageCount[c] = 0

(* No two calls have a key in common, and what they uploaded they planned. *)
KeysApart ==
    /\ \A a \in Attempts : uploaded[a] \subseteq planned[a]
    /\ \A a \in Attempts : planned[a] \subseteq used
    /\ \A a, b \in Attempts : a # b => planned[a] \cap planned[b] = {}

(* A live call has what it uploaded in the store, and it is young; one     *)
(* inside the transaction holds its submission key; one that cleans up     *)
(* uploaded nothing anybody refers to.                                     *)
CallSafe(a) ==
    /\ Live(a) =>
        /\ planned[a] \cap Referenced = {}
        /\ uploaded[a] \subseteq store
        /\ (planned[a] \ uploaded[a]) \cap store = {}
        /\ \A k \in uploaded[a] : age[k] <= clock[a]
        /\ content[a] \in Contents
        /\ Cardinality(planned[a]) = ImageCount[content[a]]
    /\ phase[a] = "inserted" =>
        /\ uploaded[a] = planned[a]
        /\ holder[sub[a]] = a
        /\ request[sub[a]] = Nothing
    /\ phase[a] = "cleaning" => uploaded[a] \cap Referenced = {}
    /\ phase[a] = "idle" => uploaded[a] = {} /\ clock[a] = 0

CallsSafe == \A a \in Attempts : CallSafe(a)

(* A committed key the scan has not seen is still ahead of it, or too      *)
(* young to be taken for an orphan.                                        *)
ScanSafe ==
    /\ scan = "refs" =>
        \A k \in Referenced \ refs : k > after \/ age[k] <= MaxAttempt + scanClock
    /\ scan = "listing" =>
        \A k \in Referenced \ refs : age[k] <= MaxAttempt + scanClock
    /\ scan = "idle" => refs = {} /\ after = 0

(* What the scan is about to delete nobody refers to, or ever will.        *)
OrphansSafe ==
    /\ orphans \subseteq used
    /\ orphans \cap Referenced = {}
    /\ \A a \in Attempts : Live(a) => orphans \cap planned[a] = {}

IInv ==
    /\ ImTypeOK
    /\ KeysApart
    /\ CallsSafe
    /\ CommittedImagesKept
    /\ ScanSafe
    /\ OrphansSafe

-----------------------------------------------------------------------------

LEMMA Initially == Init => IInv
BY GraceAssumption, NamesAssumption
   DEF Init, IInv, ImTypeOK, KeysApart, CallsSafe, CallSafe, CommittedImagesKept, ScanSafe,
       OrphansSafe, Referenced, Nothing, Live, Phases, Answers

(* Steps that commit nothing leave the references as they are.             *)
LEMMA SameReferences == ASSUME UNCHANGED request PROVE Referenced' = Referenced
BY DEF Referenced

LEMMA TypeStep ==
    ASSUME IInv, [Next]_vars
    PROVE  ImTypeOK'
<1> USE GraceAssumption, NamesAssumption DEF IInv, ImTypeOK, Phases, Answers
<1>1. ASSUME NEW a \in Attempts, NEW s \in Submissions, NEW c \in Contents, Canonicalize(a, s, c)
      PROVE  ImTypeOK'
    BY <1>1 DEF Canonicalize, FreshKeys, scanVars
<1>2. ASSUME NEW a \in Attempts, NEW k \in Keys, PutImage(a, k)
      PROVE  ImTypeOK'
    BY <1>2 DEF PutImage, NextImage, FirstOf, Land, KeysApart, scanVars
<1>3. ASSUME NEW a \in Attempts, NEW k \in Keys, PutFails(a, k)
      PROVE  ImTypeOK'
    BY <1>3 DEF PutFails, NextImage, FirstOf, Land, KeysApart, Caught, scanVars
<1>4. ASSUME NEW a \in Attempts, InsertRequest(a)
      PROVE  ImTypeOK'
    BY <1>4 DEF InsertRequest, scanVars
<1>5. ASSUME NEW a \in Attempts, FindCommitted(a)
      PROVE  ImTypeOK'
    BY <1>5 DEF FindCommitted, Found, Caught, scanVars
<1>6. ASSUME NEW a \in Attempts, Commit(a)
      PROVE  ImTypeOK'
    BY <1>6 DEF Commit, CommitRows, Release, Finish, scanVars
<1>7. ASSUME NEW a \in Attempts, CommitUnacknowledged(a)
      PROVE  ImTypeOK'
    BY <1>7 DEF CommitUnacknowledged, CommitRows, Release, Caught, scanVars
<1>8. ASSUME NEW a \in Attempts, Abort(a)
      PROVE  ImTypeOK'
    BY <1>8 DEF Abort, Release, Caught, scanVars
<1>9. ASSUME NEW a \in Attempts, Compensate(a)
      PROVE  ImTypeOK'
    BY <1>9 DEF Compensate, Forget, Finish, scanVars
<1>10. ASSUME NEW a \in Attempts, Replay(a)
       PROVE  ImTypeOK'
    BY <1>10 DEF Replay, Finish, scanVars
<1>11. ASSUME NEW a \in Attempts, Crash(a)
       PROVE  ImTypeOK'
  <2>1. CASE Release(a) /\ UNCHANGED <<request, store, age, used, scanVars>>
    BY <1>11, <2>1 DEF Crash, Release, Finish, scanVars
  <2>2. CASE CommitRows(a)
    BY <1>11, <2>2 DEF Crash, CommitRows, Release, Finish, scanVars
  <2>3. ASSUME NEW k \in Keys, NextImage(a, k), Land(k), UNCHANGED <<request, holder, used, scanVars>>
        PROVE  ImTypeOK'
    BY <1>11, <2>3 DEF Crash, Finish, NextImage, FirstOf, Land, KeysApart, scanVars
  <2> QED
    BY <1>11, <2>1, <2>2, <2>3 DEF Crash
<1>12. ASSUME SweepStep
       PROVE  ImTypeOK'
  <2>1. CASE SweepStart \/ SweepPagesEnd \/ SweepEnd
    BY <2>1 DEF SweepStart, SweepPagesEnd, SweepEnd, rest, callVars
  <2>2. CASE SweepPage
    BY <2>2 DEF SweepPage, ReferencePage, FirstOf, Referenced, rest, callVars
  <2>3. ASSUME NEW n, Listed(n)
        PROVE  ImTypeOK'
    BY <2>3 DEF Listed, FirstOf, rest, callVars
  <2>4. ASSUME NEW gone, Forget(gone), orphans' = orphans \ Batch,
               UNCHANGED <<rest, scan, after, refs, scanClock>>
        PROVE  ImTypeOK'
    BY <2>4 DEF Forget, rest, callVars
  <2> QED
    BY <1>12, <2>1, <2>2, <2>3, <2>4
       DEF SweepStep, SweepList, SweepListCut, SweepDelete, SweepDeleteFails
<1>13. ASSUME Tick
       PROVE  ImTypeOK'
  <2>1. age' \in [Keys -> 0..Grace]
    BY <1>13 DEF Tick
  <2>2. clock' \in [Attempts -> 0..MaxAttempt]
    BY <1>13 DEF Tick
  <2>3. scanClock' \in 0..MaxScan
    BY <1>13 DEF Tick
  <2> QED
    BY <1>13, <2>1, <2>2, <2>3 DEF Tick
<1>14. ASSUME UNCHANGED vars
       PROVE  ImTypeOK'
    BY <1>14 DEF vars, callVars, scanVars
<1> QED
    BY <1>1, <1>2, <1>3, <1>4, <1>5, <1>6, <1>7, <1>8, <1>9, <1>10, <1>11, <1>12, <1>13, <1>14
       DEF Next, AttemptStep

LEMMA ApartStep ==
    ASSUME IInv, [Next]_vars
    PROVE  KeysApart'
<1> USE DEF IInv, ImTypeOK, KeysApart, CallsSafe, CallSafe
<1>1. ASSUME NEW a \in Attempts, NEW s \in Submissions, NEW c \in Contents, Canonicalize(a, s, c)
      PROVE  KeysApart'
    BY <1>1 DEF Canonicalize, FreshKeys
<1>2. ASSUME NEW a \in Attempts, NEW k \in Keys, PutImage(a, k)
      PROVE  KeysApart'
    BY <1>2 DEF PutImage, NextImage, FirstOf
<1>3. ASSUME NEW a \in Attempts, NEW k \in Keys, PutFails(a, k)
      PROVE  KeysApart'
    BY <1>3 DEF PutFails, Caught
<1>4. ASSUME NEW a \in Attempts, InsertRequest(a)
      PROVE  KeysApart'
    BY <1>4 DEF InsertRequest
<1>5. ASSUME NEW a \in Attempts, FindCommitted(a)
      PROVE  KeysApart'
    BY <1>5 DEF FindCommitted, Found, Caught
<1>6. ASSUME NEW a \in Attempts, Commit(a)
      PROVE  KeysApart'
    BY <1>6 DEF Commit, CommitRows, Finish
<1>7. ASSUME NEW a \in Attempts, CommitUnacknowledged(a)
      PROVE  KeysApart'
    BY <1>7 DEF CommitUnacknowledged, CommitRows, Caught
<1>8. ASSUME NEW a \in Attempts, Abort(a)
      PROVE  KeysApart'
    BY <1>8 DEF Abort, Caught
<1>9. ASSUME NEW a \in Attempts, Compensate(a)
      PROVE  KeysApart'
    BY <1>9 DEF Compensate, Finish
<1>10. ASSUME NEW a \in Attempts, Replay(a)
      PROVE  KeysApart'
    BY <1>10 DEF Replay, Finish
<1>11. ASSUME NEW a \in Attempts, Crash(a)
      PROVE  KeysApart'
    BY <1>11 DEF Crash, Finish, CommitRows
<1>12. ASSUME SweepStep
      PROVE  KeysApart'
    BY <1>12 DEF SweepStep, SweepStart, SweepPage, SweepPagesEnd, SweepList, SweepListCut, Listed,
         SweepDelete, SweepDeleteFails, SweepEnd, rest, callVars
<1>13. ASSUME Tick
      PROVE  KeysApart'
    BY <1>13 DEF Tick
<1>14. ASSUME UNCHANGED vars
      PROVE  KeysApart'
    BY <1>14 DEF vars, callVars
<1> QED
    BY <1>1, <1>2, <1>3, <1>4, <1>5, <1>6, <1>7, <1>8, <1>9, <1>10, <1>11, <1>12, <1>13, <1>14
       DEF Next, AttemptStep

(* COMMIT adds the keys of the call to the references, and no others.      *)
LEMMA NewReferences ==
    ASSUME IInv, NEW a \in Attempts, CommitRows(a)
    PROVE  Referenced' = Referenced \cup planned[a]
<1>1. request[sub[a]].images = {} /\ sub[a] \in Submissions
    BY DEF IInv, ImTypeOK, CallsSafe, CallSafe, CommitRows, Nothing
<1>2. request'[sub[a]].images = planned[a]
    BY <1>1 DEF IInv, ImTypeOK, CommitRows
<1>3. \A s \in Submissions \ {sub[a]} : request'[s] = request[s]
    BY <1>1 DEF IInv, ImTypeOK, CommitRows
<1> QED
    BY <1>1, <1>2, <1>3 DEF Referenced

(* An acknowledgement is lost only by a call without images.               *)
LEMMA NothingToLose ==
    ASSUME IInv, Harmless, NEW a \in Attempts, CommitUnacknowledged(a)
    PROVE  planned[a] = {} /\ uploaded[a] = {}
<1>1. Cardinality(planned[a]) = 0 /\ IsFiniteSet(planned[a])
    BY KeysAssumption, FS_Subset
       DEF IInv, ImTypeOK, Harmless, CommitUnacknowledged, CommitRows, CallsSafe, CallSafe, Live
<1> QED
    BY <1>1, FS_EmptySet DEF IInv, KeysApart

(* The orphans stay safe when nobody plans or refers to more keys.         *)
LEMMA OrphansFrame ==
    ASSUME IInv, orphans' \subseteq orphans, used \subseteq used', Referenced' = Referenced,
           \A a \in Attempts : Live(a)' => Live(a) /\ planned'[a] = planned[a]
    PROVE  OrphansSafe'
BY DEF IInv, OrphansSafe

(* The scan stays safe when it stands still and no object grows older.     *)
LEMMA ScanFrame ==
    ASSUME IInv, UNCHANGED scanVars, Referenced' = Referenced,
           age' \in [Keys -> 0..Grace], \A k \in Keys : age'[k] <= age[k]
    PROVE  ScanSafe'
<1>1. Referenced \subseteq Keys
    BY DEF IInv, ImTypeOK, CommittedImagesKept
<1> QED
    BY <1>1, GraceAssumption DEF IInv, ImTypeOK, ScanSafe, scanVars

(* No object a committed row refers to leaves the store.                   *)
LEMMA KeptFrame ==
    ASSUME IInv, Referenced' = Referenced, Referenced \cap store \subseteq store'
    PROVE  CommittedImagesKept'
BY DEF IInv, CommittedImagesKept

(* A call that a step leaves alone stays safe when the objects it uploaded *)
(* stay and grow no older, none of its others lands, and nobody else gets  *)
(* its keys or its submission.                                             *)
LEMMA CallFrame ==
    ASSUME IInv, NEW b \in Attempts,
           phase'[b] = phase[b], sub'[b] = sub[b], content'[b] = content[b],
           planned'[b] = planned[b], uploaded'[b] = uploaded[b], clock'[b] = clock[b],
           planned[b] \cap (Referenced' \ Referenced) = {},
           Live(b) =>
               /\ uploaded[b] \cap store \subseteq store'
               /\ planned[b] \cap (store' \ store) = {}
               /\ \A k \in uploaded[b] : age'[k] <= age[k]
               /\ age' \in [Keys -> 0..Grace],
           phase[b] = "inserted" =>
               holder'[sub[b]] = holder[sub[b]] /\ request'[sub[b]] = request[sub[b]]
    PROVE  CallSafe(b)'
<1>1. CallSafe(b) /\ uploaded[b] \subseteq planned[b] /\ planned[b] \subseteq Keys
    BY DEF IInv, CallsSafe, KeysApart, ImTypeOK
<1>2. Live(b)' <=> Live(b)
    BY DEF Live
<1> QED
    BY <1>1, <1>2, GraceAssumption DEF CallSafe, IInv, ImTypeOK

(* What COMMIT does, and what becomes of the call.                         *)
LEMMA CommitStep ==
    ASSUME IInv, NEW a \in Attempts, CommitRows(a),
           phase' = [phase EXCEPT ![a] = phase'[a]], phase'[a] \in {"done", "dead", "cleaning"},
           \A b \in Attempts \ {a} :
               /\ sub'[b] = sub[b] /\ content'[b] = content[b] /\ planned'[b] = planned[b]
               /\ uploaded'[b] = uploaded[b] /\ clock'[b] = clock[b],
           phase'[a] = "cleaning" => planned[a] = {} /\ uploaded'[a] = {}
    PROVE  CallsSafe' /\ CommittedImagesKept' /\ ScanSafe' /\ OrphansSafe'
<1>1. /\ Live(a) /\ CallSafe(a) /\ uploaded[a] = planned[a] /\ planned[a] \subseteq Keys
      /\ holder[sub[a]] = a /\ sub[a] \in Submissions
    BY DEF CommitRows, Live, IInv, CallsSafe, CallSafe, ImTypeOK
<1>2. Referenced' = Referenced \cup planned[a]
    BY NewReferences
<1>3. UNCHANGED <<store, age, used, scan, after, refs, orphans, scanClock>>
    BY DEF CommitRows, scanVars
<1>4. ASSUME NEW b \in Attempts, b # a
      PROVE  CallSafe(b)'
  <2>1. planned[b] \cap planned[a] = {} /\ phase'[b] = phase[b]
    BY <1>4 DEF IInv, KeysApart, ImTypeOK
  <2>2. phase[b] = "inserted" => sub[b] # sub[a] /\ sub[b] \in Submissions
    BY <1>1, <1>4 DEF IInv, CallsSafe, CallSafe, ImTypeOK
  <2>3. phase[b] = "inserted" =>
            holder'[sub[b]] = holder[sub[b]] /\ request'[sub[b]] = request[sub[b]]
    BY <2>2, <1>4 DEF CommitRows, Release, IInv, ImTypeOK, CallsSafe, CallSafe
  <2>4. age' \in [Keys -> 0..Grace] /\ \A k \in Keys : age[k] \in 0..Grace
    BY <1>3 DEF IInv, ImTypeOK
  <2>5. uploaded[b] \subseteq Keys
    BY DEF IInv, ImTypeOK
  <2>6. \A k \in uploaded[b] : age'[k] <= age[k]
    BY <2>4, <2>5, <1>3, GraceAssumption
  <2> QED
    BY <1>2, <1>3, <1>4, <2>1, <2>3, <2>4, <2>6, CallFrame
<1>5. CallSafe(a)'
    BY <1>1 DEF CallSafe, Live
<1>6. CommittedImagesKept'
    BY <1>1, <1>2, <1>3 DEF CallSafe, IInv, CommittedImagesKept
<1>7. \A k \in planned[a] : age[k] \in Nat /\ age[k] <= MaxAttempt + scanClock
  <2>1. \A k \in planned[a] : age[k] \in 0..Grace /\ age[k] <= clock[a]
    BY <1>1 DEF CallSafe, IInv, ImTypeOK
  <2>2. clock[a] \in 0..MaxAttempt /\ scanClock \in 0..MaxScan
    BY DEF IInv, ImTypeOK
  <2> QED
    BY <2>1, <2>2, GraceAssumption
<1>8. ScanSafe'
    BY <1>2, <1>3, <1>7 DEF IInv, ScanSafe
<1>9. OrphansSafe'
  <2>1. \A b \in Attempts : Live(b)' => b # a /\ Live(b) /\ planned'[b] = planned[b]
    BY DEF Live, IInv, ImTypeOK
  <2> QED
    BY <1>1, <1>2, <1>3, <2>1 DEF IInv, OrphansSafe
<1> QED
    BY <1>4, <1>5, <1>6, <1>8, <1>9 DEF CallsSafe

(* Steps of a call that commit nothing: the four parts from their frames.  *)
LEMMA QuietStep ==
    ASSUME IInv, NEW a \in Attempts, UNCHANGED <<request, scanVars>>, used \subseteq used',
           \A b \in Attempts \ {a} :
               /\ phase'[b] = phase[b] /\ sub'[b] = sub[b] /\ content'[b] = content[b]
               /\ planned'[b] = planned[b] /\ uploaded'[b] = uploaded[b] /\ clock'[b] = clock[b]
               /\ planned[b] \cap (store' \ store) = {}
               /\ uploaded[b] \cap store \subseteq store'
               /\ phase[b] = "inserted" => holder'[sub[b]] = holder[sub[b]],
           Referenced \cap store \subseteq store',
           age' \in [Keys -> 0..Grace], \A k \in Keys : age'[k] <= age[k],
           Live(a)' => orphans \cap planned'[a] = {},
           CallSafe(a)'
    PROVE  CallsSafe' /\ CommittedImagesKept' /\ ScanSafe' /\ OrphansSafe'
<1>1. Referenced' = Referenced
    BY SameReferences
<1>2. ASSUME NEW b \in Attempts \ {a}
      PROVE  CallSafe(b)' /\ (Live(b)' => Live(b))
  <2>1. uploaded[b] \subseteq Keys
    BY DEF IInv, ImTypeOK
  <2> QED
    BY <1>1, <1>2, <2>1, CallFrame DEF Live
<1>3. CommittedImagesKept' /\ ScanSafe'
    BY <1>1, KeptFrame, ScanFrame
<1>4. OrphansSafe'
    BY <1>1, <1>2 DEF IInv, OrphansSafe, scanVars
<1> QED
    BY <1>2, <1>3, <1>4 DEF CallsSafe

(* The store and the ages after objects landed or went.                    *)
LEMMA Landed ==
    ASSUME IInv, NEW k \in Keys, Land(k)
    PROVE  age' \in [Keys -> 0..Grace] /\ \A j \in Keys : age'[j] <= age[j] /\ age'[k] = 0
BY GraceAssumption DEF IInv, ImTypeOK, Land

LEMMA Forgotten ==
    ASSUME IInv, NEW gone, Forget(gone)
    PROVE  age' \in [Keys -> 0..Grace] /\ \A j \in Keys : age'[j] <= age[j]
BY GraceAssumption DEF IInv, ImTypeOK, Forget

LEMMA Ageless ==
    ASSUME IInv, UNCHANGED age
    PROVE  age' \in [Keys -> 0..Grace] /\ \A j \in Keys : age'[j] <= age[j]
BY GraceAssumption DEF IInv, ImTypeOK

LEMMA CallStep ==
    ASSUME IInv, Harmless, NEW a \in Attempts, AttemptStep(a)
    PROVE  CallsSafe' /\ CommittedImagesKept' /\ ScanSafe' /\ OrphansSafe'
<1> DEFINE Goal == CallsSafe' /\ CommittedImagesKept' /\ ScanSafe' /\ OrphansSafe'
<1> USE DEF IInv, ImTypeOK
<1>1. ASSUME NEW s \in Submissions, NEW c \in Contents, Canonicalize(a, s, c)
      PROVE  Goal
  <2>1. /\ planned'[a] \cap used = {} /\ Cardinality(planned'[a]) = ImageCount[c]
        /\ content'[a] = c /\ phase'[a] = "uploading"
        /\ uploaded'[a] = {} /\ Referenced' = Referenced /\ UNCHANGED store
    BY <1>1, SameReferences DEF Canonicalize, FreshKeys, CallsSafe, CallSafe
  <2>2. CallSafe(a)' /\ orphans \cap planned'[a] = {}
    BY <2>1 DEF CallSafe, Live, CommittedImagesKept, OrphansSafe
  <2> HIDE DEF CallSafe
  <2> QED
    BY <1>1, <2>2, QuietStep, Ageless DEF Canonicalize, FreshKeys
<1>2. ASSUME NEW k \in Keys, PutImage(a, k)
      PROVE  Goal
  <2>1. /\ k \in planned[a] /\ Live(a) /\ CallSafe(a) /\ k \in Keys
        /\ clock[a] \in Nat /\ orphans \cap planned[a] = {}
    BY <1>2 DEF PutImage, NextImage, FirstOf, Live, CallsSafe, OrphansSafe
  <2>2. \A b \in Attempts \ {a} : k \notin planned[b]
    BY <2>1 DEF KeysApart
  <2>3. /\ uploaded'[a] = uploaded[a] \cup {k} /\ store' = store \cup {k}
        /\ Referenced' = Referenced /\ UNCHANGED <<phase, content, planned, clock, holder, request>>
    BY <1>2, SameReferences DEF PutImage, Land
  <2>4. CallSafe(a)'
    BY <1>2, <2>1, <2>3, Landed DEF PutImage, CallSafe, Live, Land
  <2> HIDE DEF CallSafe
  <2>5. age' \in [Keys -> 0..Grace] /\ \A j \in Keys : age'[j] <= age[j]
    BY <1>2, Landed DEF PutImage
  <2>6. \A b \in Attempts \ {a} : uploaded'[b] = uploaded[b]
    BY <1>2 DEF PutImage
  <2> HIDE DEF IInv, ImTypeOK
  <2>7. UNCHANGED <<request, scanVars, holder, used, phase, sub, content, planned, clock>>
    BY <1>2 DEF PutImage
  <2>8. Referenced \cap store \subseteq store' /\ store' \ store \subseteq {k} /\ store \subseteq store'
    BY <2>3
  <2> QED
    BY <2>1, <2>2, <2>4, <2>5, <2>6, <2>7, <2>8, QuietStep
<1>3. ASSUME NEW k \in Keys, PutFails(a, k)
      PROVE  Goal
  <2>1. k \in planned[a] /\ Live(a) /\ CallSafe(a)
    BY <1>3 DEF PutFails, NextImage, FirstOf, Live, CallsSafe
  <2>2. \A b \in Attempts \ {a} : k \notin planned[b]
    BY <2>1 DEF KeysApart
  <2>3. uploaded[a] \cap Referenced = {} /\ Referenced' = Referenced
    BY <1>3, <2>1, SameReferences DEF CallSafe, KeysApart, PutFails
  <2>4. CallSafe(a)' /\ ~ Live(a)'
    BY <1>3, <2>3 DEF PutFails, Caught, CallSafe, Live
  <2>5. store \subseteq store' /\ store' \subseteq store \cup {k}
    BY <1>3 DEF PutFails, Land
  <2>6. age' \in [Keys -> 0..Grace] /\ \A j \in Keys : age'[j] <= age[j]
    BY <1>3, Landed, Ageless DEF PutFails
  <2> QED
    BY <1>3, <2>2, <2>4, <2>5, <2>6, QuietStep DEF PutFails, Caught
<1>4. CASE InsertRequest(a)
  <2>1. Live(a) /\ CallSafe(a) /\ orphans \cap planned[a] = {} /\ sub[a] \in Submissions
    BY <1>4 DEF InsertRequest, Live, CallsSafe, OrphansSafe
  <2>2. Referenced' = Referenced /\ holder'[sub[a]] = a
    BY <1>4, <2>1, SameReferences DEF InsertRequest
  <2>3. CallSafe(a)'
    BY <1>4, <2>1, <2>2 DEF InsertRequest, CallSafe, Live
  <2>4. \A b \in Attempts \ {a} : phase[b] = "inserted" => holder'[sub[b]] = holder[sub[b]]
    BY <1>4, NamesAssumption DEF InsertRequest, CallsSafe, CallSafe
  <2> QED
    BY <1>4, <2>1, <2>3, <2>4, QuietStep, Ageless DEF InsertRequest
<1>5. CASE FindCommitted(a)
  <2>1. Live(a) /\ CallSafe(a) /\ uploaded[a] \subseteq planned[a] /\ Referenced' = Referenced
    BY <1>5, SameReferences DEF FindCommitted, Live, CallsSafe, KeysApart
  <2>2. CallSafe(a)' /\ ~ Live(a)'
    BY <1>5, <2>1 DEF FindCommitted, Found, Caught, CallSafe, Live
  <2> QED
    BY <1>5, <2>2, QuietStep, Ageless DEF FindCommitted, Found, Caught
<1>6. CASE Commit(a)
  <2>1. phase'[a] = "done" /\ phase' = [phase EXCEPT ![a] = phase'[a]] /\ CommitRows(a)
    BY <1>6 DEF Commit, Finish
  <2> QED
    BY <1>6, <2>1, CommitStep DEF Commit, Finish
<1>7. CASE CommitUnacknowledged(a)
  <2>1. phase'[a] = "cleaning" /\ phase' = [phase EXCEPT ![a] = phase'[a]] /\ CommitRows(a)
    BY <1>7 DEF CommitUnacknowledged, Caught
  <2>2. planned[a] = {} /\ uploaded'[a] = {}
    BY <1>7, NothingToLose DEF CommitUnacknowledged, Caught
  <2> QED
    BY <1>7, <2>1, <2>2, CommitStep DEF CommitUnacknowledged, Caught
<1>8. CASE Abort(a)
  <2>1. Live(a) /\ CallSafe(a) /\ uploaded[a] \subseteq planned[a] /\ Referenced' = Referenced
    BY <1>8, SameReferences DEF Abort, Live, CallsSafe, KeysApart
  <2>2. CallSafe(a)' /\ ~ Live(a)'
    BY <1>8, <2>1 DEF Abort, Caught, CallSafe, Live
  <2>3. \A b \in Attempts \ {a} : phase[b] = "inserted" => holder'[sub[b]] = holder[sub[b]]
    BY <1>8 DEF Abort, Release, CallsSafe, CallSafe
  <2> QED
    BY <1>8, <2>2, <2>3, QuietStep, Ageless DEF Abort, Caught
<1>9. CASE Compensate(a)
  <2>1. PICK gone \in SUBSET uploaded[a] : Forget(gone)
    BY <1>9 DEF Compensate
  <2>2. gone \cap Referenced = {} /\ Referenced' = Referenced
    BY <1>9, SameReferences DEF Compensate, CallsSafe, CallSafe
  <2>3. \A b \in Attempts \ {a} : gone \cap uploaded[b] = {}
    BY DEF KeysApart
  <2>4. phase'[a] \in {"replaying", "done"} /\ CallSafe(a)' /\ ~ Live(a)'
    BY <1>9 DEF Compensate, Finish, CallSafe, Live
  <2> QED
    BY <1>9, <2>1, <2>2, <2>3, <2>4, QuietStep, Forgotten DEF Compensate, Finish, Forget
<1>10. CASE Replay(a)
  <2>1. CallSafe(a)' /\ ~ Live(a)'
    BY <1>10 DEF Replay, Finish, CallSafe, Live
  <2> QED
    BY <1>10, <2>1, QuietStep, Ageless DEF Replay, Finish
<1>11. CASE Crash(a)
  <2>1. phase'[a] = "dead" /\ CallSafe(a)' /\ ~ Live(a)'
    BY <1>11 DEF Crash, Finish, CallSafe, Live
  <2>2. CASE Release(a) /\ UNCHANGED <<request, store, age, used, scanVars>>
    <3>1. \A b \in Attempts \ {a} : phase[b] = "inserted" => holder'[sub[b]] = holder[sub[b]]
      BY <2>2 DEF Release, CallsSafe, CallSafe
    <3> QED
      BY <1>11, <2>1, <2>2, <3>1, QuietStep, Ageless DEF Crash, Finish
  <2>3. CASE CommitRows(a)
    <3>1. phase' = [phase EXCEPT ![a] = phase'[a]]
      BY <1>11 DEF Crash, Finish
    <3> QED
      BY <1>11, <2>1, <2>3, <3>1, CommitStep DEF Crash, Finish
  <2>4. ASSUME NEW k \in Keys, NextImage(a, k), Land(k), UNCHANGED <<request, holder, used, scanVars>>
        PROVE  Goal
    <3>1. \A b \in Attempts \ {a} : k \notin planned[b]
      BY <2>4 DEF KeysApart, NextImage, FirstOf
    <3>2. age' \in [Keys -> 0..Grace] /\ \A j \in Keys : age'[j] <= age[j]
      BY <2>4, Landed
    <3>3. store \subseteq store' /\ store' \ store \subseteq {k}
      BY <2>4 DEF Land
    <3>4. \A b \in Attempts \ {a} :
            /\ phase'[b] = phase[b] /\ sub'[b] = sub[b] /\ content'[b] = content[b]
            /\ planned'[b] = planned[b] /\ uploaded'[b] = uploaded[b] /\ clock'[b] = clock[b]
      BY <1>11 DEF Crash, Finish
    <3> HIDE DEF IInv, ImTypeOK
    <3> QED
      BY <2>1, <2>4, <3>1, <3>2, <3>3, <3>4, QuietStep
  <2> QED
    BY <1>11, <2>2, <2>3, <2>4 DEF Crash
<1> QED
    BY <1>1, <1>2, <1>3, <1>4, <1>5, <1>6, <1>7, <1>8, <1>9, <1>10, <1>11 DEF AttemptStep

-----------------------------------------------------------------------------
(* A page of a sorted listing: what is left out lies behind what is in it. *)
LEMMA PageOrder ==
    ASSUME NEW S \in SUBSET Keys, NEW n \in Nat, NEW m \in FirstOf(n, S), NEW k \in S \ FirstOf(n, S)
    PROVE  k > m
<1> DEFINE Below(x) == {j \in S : j < x}
<1>1. k \in Nat /\ m \in Nat /\ \A j \in S : j \in Nat
    BY KeysAssumption DEF FirstOf
<1>2. IsFiniteSet(Below(m)) /\ IsFiniteSet(Below(k))
    BY KeysAssumption, FS_Subset
<1>3. Cardinality(Below(m)) \in Nat /\ Cardinality(Below(k)) \in Nat
    BY <1>2, FS_CardinalityType
<1>4. Cardinality(Below(m)) < n /\ ~ (Cardinality(Below(k)) < n)
    BY DEF FirstOf
<1>5. ASSUME k <= m
      PROVE  FALSE
  <2>1. Below(k) \subseteq Below(m)
    <3> SUFFICES ASSUME NEW j \in S, j < k
                 PROVE  j < m
      OBVIOUS
    <3>1. j \in Nat /\ k \in Nat /\ m \in Nat
      BY <1>1
    <3> QED
      BY <3>1, <1>5
  <2>2. Cardinality(Below(k)) <= Cardinality(Below(m))
    BY <1>2, <2>1, FS_Subset
  <2> HIDE DEF Below
  <2> QED
    BY <1>3, <1>4, <2>2
<1> QED
    BY <1>1, <1>5

LEMMA SweepKeeps ==
    ASSUME IInv, SweepStep
    PROVE  CallsSafe' /\ CommittedImagesKept' /\ ScanSafe' /\ OrphansSafe'
<1> DEFINE Goal == CallsSafe' /\ CommittedImagesKept' /\ ScanSafe' /\ OrphansSafe'
<1>1. Referenced' = Referenced /\ UNCHANGED <<used, callVars, holder, request>>
    BY SameReferences DEF SweepStep, SweepStart, SweepPage, SweepPagesEnd, SweepList, SweepListCut,
       Listed, SweepDelete, SweepDeleteFails, SweepEnd, rest
<1>2. Referenced \subseteq Keys /\ \A k \in Keys : age[k] \in 0..Grace
    BY DEF IInv, ImTypeOK, CommittedImagesKept
<1>3. ASSUME UNCHANGED <<store, age>>
      PROVE  CallsSafe' /\ CommittedImagesKept'
    BY <1>1, <1>3 DEF IInv, CallsSafe, CallSafe, CommittedImagesKept, Live, callVars
<1>4. ASSUME orphans' \subseteq orphans
      PROVE  OrphansSafe'
    BY <1>1, <1>4, OrphansFrame DEF Live, callVars
<1>5. CASE SweepStart
  <2>1. \A k \in Referenced : k > 0
    BY <1>2, KeysAssumption
  <2>2. ScanSafe'
    BY <1>1, <1>5, <2>1 DEF SweepStart, IInv, ScanSafe
  <2> QED
    BY <1>3, <1>4, <1>5, <2>2 DEF SweepStart
<1>6. CASE SweepPage
  <2>1. \A k \in Referenced \ refs' : k > after' \/ age[k] <= MaxAttempt + scanClock
    <3> SUFFICES ASSUME NEW k \in Referenced \ refs'
                 PROVE  k > after' \/ age[k] <= MaxAttempt + scanClock
      OBVIOUS
    <3>1. k \notin refs /\ k \notin ReferencePage /\ after' \in ReferencePage
      BY <1>6 DEF SweepPage
    <3>2. k > after \/ age[k] <= MaxAttempt + scanClock
      BY <1>6, <3>1 DEF SweepPage, IInv, ScanSafe
    <3>3. CASE k > after
      <4> DEFINE S == {j \in Referenced : j > after}
      <4>1. S \in SUBSET Keys /\ k \in S \ FirstOf(DbPageSize, S) /\ after' \in FirstOf(DbPageSize, S)
        BY <1>2, <3>1, <3>3 DEF ReferencePage
      <4> HIDE DEF S
      <4> QED
        BY <4>1, PageOrder, SizesAssumption
    <3> QED
      BY <3>2, <3>3
  <2>2. ScanSafe'
    BY <1>1, <1>6, <2>1 DEF SweepPage, ScanSafe
  <2> QED
    BY <1>3, <1>4, <1>6, <2>2 DEF SweepPage
<1>7. CASE SweepPagesEnd
  <2>1. \A k \in Referenced : k \in Nat /\ after \in Nat /\ k <= after
    BY <1>2, <1>7, KeysAssumption DEF SweepPagesEnd, IInv, ImTypeOK
  <2>2. ScanSafe'
    BY <1>1, <1>7, <2>1 DEF SweepPagesEnd, IInv, ScanSafe
  <2> QED
    BY <1>3, <1>4, <1>7, <2>2 DEF SweepPagesEnd
<1>8. ASSUME NEW n, Listed(n)
      PROVE  Goal
  <2>1. orphans' \subseteq store /\ \A k \in orphans' : k \notin refs /\ age[k] >= Grace
    BY <1>8 DEF Listed, FirstOf, Aged
  <2>2. \A k \in Referenced \ refs : ~ (age[k] >= Grace)
    BY <1>2, <1>8, GraceAssumption DEF Listed, IInv, ScanSafe, ImTypeOK
  <2>3. ASSUME NEW a \in Attempts, Live(a), NEW k \in planned[a] \cap store
        PROVE  ~ (age[k] >= Grace)
    <3>1. age[k] <= clock[a] /\ clock[a] \in 0..MaxAttempt /\ k \in Keys
      BY <2>3 DEF IInv, ImTypeOK, CallsSafe, CallSafe
    <3> QED
      BY <1>2, <3>1, GraceAssumption
  <2>4. OrphansSafe'
    BY <1>1, <2>1, <2>2, <2>3 DEF OrphansSafe, IInv, ImTypeOK, Live, callVars
  <2>5. ScanSafe'
    BY <1>8 DEF Listed, ScanSafe
  <2> QED
    BY <1>3, <1>8, <2>4, <2>5 DEF Listed
<1>9. ASSUME NEW gone \in SUBSET orphans, Forget(gone), orphans' \subseteq orphans,
             UNCHANGED <<scan, after, refs, scanClock>>
      PROVE  Goal
  <2>1. gone \cap Referenced = {} /\ \A a \in Attempts : Live(a) => gone \cap planned[a] = {}
    BY DEF IInv, OrphansSafe
  <2>2. age' \in [Keys -> 0..Grace] /\ \A k \in Keys : age'[k] <= age[k]
    BY <1>9, Forgotten
  <2>3. store' = store \ gone
    BY <1>9 DEF Forget
  <2>4. ASSUME NEW a \in Attempts
        PROVE  CallSafe(a)'
    <3>1. uploaded[a] \subseteq planned[a] /\ uploaded[a] \subseteq Keys
      BY DEF IInv, KeysApart, ImTypeOK
    <3> QED
      BY <1>1, <2>1, <2>2, <2>3, <3>1, CallFrame DEF callVars
  <2>5. CommittedImagesKept'
    BY <1>1, <2>1, <2>3, KeptFrame
  <2>6. ScanSafe'
    BY <1>1, <1>2, <1>9, <2>2, GraceAssumption DEF IInv, ScanSafe, ImTypeOK
  <2> QED
    BY <1>4, <1>9, <2>4, <2>5, <2>6 DEF CallsSafe
<1>10. CASE SweepEnd
  <2>1. ScanSafe'
    BY <1>10 DEF SweepEnd, ScanSafe
  <2> QED
    BY <1>3, <1>4, <1>10, <2>1 DEF SweepEnd
<1>11. Batch \subseteq orphans
    BY DEF Batch, FirstOf
<1> QED
    BY <1>5, <1>6, <1>7, <1>8, <1>9, <1>10, <1>11
       DEF SweepStep, SweepList, SweepListCut, SweepDelete, SweepDeleteFails

LEMMA TickKeeps ==
    ASSUME IInv, Tick
    PROVE  CallsSafe' /\ CommittedImagesKept' /\ ScanSafe' /\ OrphansSafe'
<1>1. Referenced' = Referenced /\ Referenced \subseteq Keys
    BY SameReferences DEF Tick, IInv, ImTypeOK, CommittedImagesKept
<1>2. \A k \in Keys : age[k] \in Nat /\ age'[k] \in Nat /\ age'[k] <= age[k] + 1
    BY GraceAssumption DEF Tick, IInv, ImTypeOK
<1>3. ASSUME NEW a \in Attempts
      PROVE  CallSafe(a)'
  <2>1. /\ CallSafe(a) /\ clock[a] \in Nat /\ uploaded[a] \subseteq Keys
        /\ clock'[a] = IF Live(a) THEN clock[a] + 1 ELSE clock[a]
    BY GraceAssumption DEF IInv, CallsSafe, ImTypeOK, Tick
  <2>2. Live(a) => \A k \in uploaded[a] : age'[k] <= clock'[a]
    BY <1>2, <2>1 DEF CallSafe
  <2> QED
    BY <1>1, <2>1, <2>2 DEF Tick, CallSafe, Live
<1>4. ScanSafe'
  <2>1. scanClock \in Nat /\ (Scanning => scanClock' = scanClock + 1)
    BY GraceAssumption DEF Tick, IInv, ImTypeOK
  <2> QED
    BY <1>1, <1>2, <2>1, GraceAssumption DEF Tick, IInv, ScanSafe, Scanning
<1> QED
    BY <1>1, <1>3, <1>4 DEF Tick, IInv, CallsSafe, CommittedImagesKept, OrphansSafe, Live

LEMMA Inductive == ASSUME Harmless, IInv, [Next]_vars PROVE IInv'
<1>1. CASE \E a \in Attempts : AttemptStep(a)
    BY <1>1, CallStep, TypeStep, ApartStep DEF IInv
<1>2. CASE SweepStep
    BY <1>2, SweepKeeps, TypeStep, ApartStep DEF IInv
<1>3. CASE Tick
    BY <1>3, TickKeeps, TypeStep, ApartStep DEF IInv
<1>4. CASE UNCHANGED vars
    BY <1>4 DEF vars, callVars, scanVars, IInv, ImTypeOK, KeysApart, CallsSafe, CallSafe,
       CommittedImagesKept, ScanSafe, OrphansSafe, Referenced, Live
<1> QED
    BY <1>1, <1>2, <1>3, <1>4 DEF Next

(* Every behaviour without a lost acknowledgement that matters satisfies   *)
(* the inductive invariant.                                                *)
THEOREM Invariance == ASSUME Harmless PROVE Spec => []IInv
<1>1. Init => IInv
    BY Initially
<1>2. IInv /\ [Next]_vars => IInv'
    BY Inductive
<1> QED
    BY <1>1, <1>2, PTL DEF Spec

(* The calls, the reconciler and the two stores keep their types.          *)
THEOREM TypesKept == ASSUME Harmless PROVE Spec => []ImTypeOK
<1>1. IInv => ImTypeOK
    BY DEF IInv
<1> QED
    BY <1>1, Invariance, PTL

(* Neither a compensation nor a reconciliation deletes an object that a    *)
(* committed request refers to.                                            *)
THEOREM ImagesKept == ASSUME Harmless PROVE Spec => []CommittedImagesKept
<1>1. IInv => CommittedImagesKept
    BY DEF IInv
<1> QED
    BY <1>1, Invariance, PTL

-----------------------------------------------------------------------------
(* The two stores implement ImageKeeping.                                  *)

LEMMA Forgetting ==
    ASSUME NEW gone \in SUBSET Keys, gone \cap Referenced = {}, Forget(gone), UNCHANGED request
    PROVE  Keeping!Next
<1>1. Keeping!Drop(gone)
    BY DEF Forget, Keeping!Drop, Keeping!Referenced, Referenced
<1> QED
    BY <1>1 DEF Keeping!Next

LEMMA Landing ==
    ASSUME IInv, NEW a \in Attempts, phase[a] = "uploading", NEW k \in Keys, NextImage(a, k),
           Land(k), UNCHANGED request
    PROVE  Keeping!Next
<1>1. k \notin store
    BY DEF IInv, CallsSafe, CallSafe, Live, NextImage, FirstOf
<1>2. Keeping!Arrive(k)
    BY <1>1 DEF Land, Keeping!Arrive
<1> QED
    BY <1>2 DEF Keeping!Next

LEMMA Recording ==
    ASSUME IInv, NEW a \in Attempts, CommitRows(a)
    PROVE  Keeping!Next
<1>1. /\ request[sub[a]] = Nothing /\ planned[a] \subseteq store
      /\ sub[a] \in Submissions /\ content[a] \in Contents /\ planned[a] \subseteq Keys
    BY DEF CommitRows, IInv, ImTypeOK, CallsSafe, CallSafe, Live
<1>2. Keeping!Record(sub[a], content[a], planned[a])
    BY <1>1 DEF CommitRows, Keeping!Record, Keeping!Nothing, Nothing
<1> QED
    BY <1>1, <1>2 DEF Keeping!Next

LEMMA StepRefines ==
    ASSUME IInv, [Next]_vars
    PROVE  [Keeping!Next]_<<request, store>>
<1>1. ASSUME NEW a \in Attempts, AttemptStep(a)
      PROVE  [Keeping!Next]_<<request, store>>
  <2>1. CASE \E s \in Submissions, c \in Contents : Canonicalize(a, s, c)
    BY <2>1 DEF Canonicalize
  <2>2. ASSUME NEW k \in Keys, PutImage(a, k) \/ PutFails(a, k)
        PROVE  [Keeping!Next]_<<request, store>>
    BY <2>2, Landing DEF PutImage, PutFails
  <2>3. CASE InsertRequest(a) \/ FindCommitted(a) \/ Abort(a) \/ Replay(a)
    BY <2>3 DEF InsertRequest, FindCommitted, Abort, Replay
  <2>4. CASE Commit(a) \/ CommitUnacknowledged(a)
    BY <2>4, Recording DEF Commit, CommitUnacknowledged
  <2>5. CASE Compensate(a)
    <3>1. PICK gone \in SUBSET uploaded[a] : Forget(gone)
      BY <2>5 DEF Compensate
    <3>2. gone \cap Referenced = {} /\ gone \subseteq Keys
      BY <2>5 DEF Compensate, IInv, CallsSafe, CallSafe, ImTypeOK
    <3> QED
      BY <2>5, <3>1, <3>2, Forgetting DEF Compensate
  <2>6. CASE Crash(a)
    BY <2>6, Recording, Landing DEF Crash
  <2> QED
    BY <1>1, <2>1, <2>2, <2>3, <2>4, <2>5, <2>6 DEF AttemptStep
<1>2. CASE SweepStep
  <2>1. CASE SweepStart \/ SweepPage \/ SweepPagesEnd \/ SweepList \/ SweepListCut \/ SweepEnd
    BY <2>1 DEF SweepStart, SweepPage, SweepPagesEnd, SweepList, SweepListCut, Listed, SweepEnd, rest
  <2>2. ASSUME NEW gone \in SUBSET Batch, Forget(gone), UNCHANGED rest
        PROVE  Keeping!Next
    <3>1. gone \subseteq Keys /\ gone \cap Referenced = {}
      BY DEF Batch, FirstOf, IInv, ImTypeOK, OrphansSafe
    <3> QED
      BY <2>2, <3>1, Forgetting DEF rest
  <2> QED
    BY <1>2, <2>1, <2>2 DEF SweepStep, SweepDelete, SweepDeleteFails
<1>3. CASE Tick \/ UNCHANGED vars
    BY <1>3 DEF Tick, vars
<1> QED
    BY <1>1, <1>2, <1>3 DEF Next

(* Uploads, compensations, crashes and reconciliations together implement  *)
(* the promise of ImageKeeping: a submission is recorded once, with its    *)
(* images in the store, and what is referenced never goes.                 *)
THEOREM Implements == ASSUME Harmless PROVE Spec => KeepsImages
<1>1. Init => Keeping!Init
    BY DEF Init, Keeping!Init, Keeping!Nothing, Nothing
<1>2. IInv /\ [Next]_vars => [Keeping!Next]_<<request, store>>
    BY StepRefines
<1>3. [Keeping!Next]_<<request, store>> => [Keeping!Next]_(Keeping!keeping)
    BY DEF Keeping!keeping
<1> QED
    BY <1>1, <1>2, <1>3, Invariance, PTL DEF Spec, KeepsImages, Keeping!Spec

-----------------------------------------------------------------------------
(* The answers of the calls.                                               *)

(* A call that has not returned has no answer, one that has an answer has  *)
(* a content, and one that replays found its own content.                  *)
AInv ==
    /\ AnswersAgree
    /\ \A s \in Submissions : request[s] # Nothing => request[s].content \in Contents
    /\ \A a \in Attempts :
        /\ phase[a] \in {"idle", "uploading", "inserted"} => answer[a] = "none"
        /\ phase[a] = "cleaning" => answer[a] # "created"
        /\ phase[a] = "replaying" => answer[a] = "replayed"
        /\ phase[a] # "idle" => content[a] \in Contents
        /\ answer[a] # "none" => phase[a] # "idle"

(* A step of one call that leaves the committed rows alone.                *)
LEMMA AnswerFrame ==
    ASSUME IInv, AInv, NEW a \in Attempts, UNCHANGED <<request, sub, content>>,
           \A b \in Attempts \ {a} : phase'[b] = phase[b] /\ answer'[b] = answer[b],
           answer'[a] \in {"none", "error", answer[a]},
           phase'[a] \in {"inserted", "uploading"} => answer'[a] = "none",
           phase'[a] = "cleaning" => answer'[a] # "created",
           phase'[a] = "replaying" => answer'[a] = "replayed",
           phase'[a] # "idle", phase[a] # "idle"
    PROVE  AInv'
BY DEF AInv, AnswersAgree

LEMMA AnswersCommit ==
    ASSUME IInv, AInv, NEW a \in Attempts, CommitRows(a), UNCHANGED <<sub, content>>,
           \A b \in Attempts \ {a} : phase'[b] = phase[b] /\ answer'[b] = answer[b],
           answer'[a] \in {"none", "error", "created"},
           phase'[a] \in {"done", "cleaning", "dead"},
           phase'[a] = "cleaning" => answer'[a] = "error"
    PROVE  AInv'
<1>1. /\ request[sub[a]] = Nothing /\ sub[a] \in Submissions /\ content[a] \in Contents
      /\ phase[a] = "inserted"
      /\ Cardinality(planned[a]) = ImageCount[content[a]]
    BY DEF CommitRows, IInv, ImTypeOK, CallsSafe, CallSafe, Live
<1>2. /\ request'[sub[a]] = [content |-> content[a], images |-> planned[a]]
      /\ \A s \in Submissions : s # sub[a] => request'[s] = request[s]
    BY <1>1 DEF CommitRows, IInv, ImTypeOK
<1>3. ASSUME NEW b \in Attempts, b # a, sub[b] = sub[a]
      PROVE  answer[b] \notin {"created", "replayed", "conflict"}
    BY <1>1, <1>3, NamesAssumption DEF AInv, AnswersAgree, Nothing
<1>4. AnswersAgree'
    BY <1>1, <1>2, <1>3 DEF AInv, AnswersAgree, IInv, ImTypeOK
<1>5. \A s \in Submissions : request'[s] # Nothing => request'[s].content \in Contents
    BY <1>1, <1>2 DEF AInv
<1> QED
    BY <1>1, <1>4, <1>5 DEF AInv

LEMMA AnswersStep ==
    ASSUME IInv, AInv, [Next]_vars
    PROVE  AInv'
<1>1. ASSUME NEW a \in Attempts, AttemptStep(a)
      PROVE  AInv'
  <2> USE DEF IInv, ImTypeOK
  <2>1. ASSUME NEW s \in Submissions, NEW c \in Contents, Canonicalize(a, s, c)
        PROVE  AInv'
    <3>1. answer[a] = "none" /\ answer' = answer /\ request' = request
      BY <2>1 DEF Canonicalize, AInv
    <3>2. \A b \in Attempts \ {a} : phase'[b] = phase[b] /\ sub'[b] = sub[b] /\ content'[b] = content[b]
      BY <2>1 DEF Canonicalize
    <3>3. AnswersAgree'
      BY <3>1, <3>2 DEF AInv, AnswersAgree
    <3>4. phase'[a] = "uploading" /\ content'[a] = c
      BY <2>1 DEF Canonicalize
    <3> QED
      BY <3>1, <3>2, <3>3, <3>4 DEF AInv
  <2>2. ASSUME NEW k \in Keys, PutImage(a, k)
        PROVE  AInv'
    BY <2>2 DEF PutImage, AInv, AnswersAgree
  <2>3. ASSUME NEW k \in Keys, PutFails(a, k)
        PROVE  AInv'
    BY <2>3, AnswerFrame DEF PutFails, Caught
  <2>4. CASE InsertRequest(a)
    BY <2>4, AnswerFrame DEF InsertRequest, AInv
  <2>5. CASE FindCommitted(a)
    <3>1. /\ UNCHANGED <<request, sub, content>> /\ phase'[a] = "cleaning" /\ phase[a] = "uploading"
          /\ \A b \in Attempts \ {a} : phase'[b] = phase[b] /\ answer'[b] = answer[b]
      BY <2>5 DEF FindCommitted, Found, Caught
    <3>2. request[sub[a]].content # NoContent
      BY <2>5, NamesAssumption DEF FindCommitted, AInv
    <3>3. \/ answer'[a] = "replayed" /\ request[sub[a]].content = content[a]
          \/ answer'[a] = "conflict" /\ request[sub[a]].content \notin {NoContent, content[a]}
      BY <2>5, <3>2 DEF FindCommitted, Found, Caught
    <3>4. AnswersAgree'
      BY <3>1, <3>3 DEF AInv, AnswersAgree
    <3> QED
      BY <2>5, <3>1, <3>3, <3>4 DEF AInv
  <2>6. CASE Commit(a)
    BY <2>6, AnswersCommit DEF Commit, Finish
  <2>7. CASE CommitUnacknowledged(a)
    BY <2>7, AnswersCommit DEF CommitUnacknowledged, Caught
  <2>8. CASE Abort(a)
    BY <2>8, AnswerFrame DEF Abort, Caught
  <2>9. CASE Compensate(a)
    BY <2>9, AnswerFrame DEF Compensate, Finish
  <2>10. CASE Replay(a)
    BY <2>10, AnswerFrame DEF Replay, Finish, AInv
  <2>11. CASE Crash(a)
    <3>1. /\ UNCHANGED <<sub, content>> /\ phase'[a] = "dead" /\ answer'[a] = "none"
          /\ phase[a] # "idle"
          /\ \A b \in Attempts \ {a} : phase'[b] = phase[b] /\ answer'[b] = answer[b]
      BY <2>11 DEF Crash, Finish
    <3>2. CASE CommitRows(a)
      BY <3>1, <3>2, AnswersCommit
    <3>3. CASE UNCHANGED request
      BY <3>1, <3>3, AnswerFrame
    <3> QED
      BY <2>11, <3>2, <3>3 DEF Crash
  <2> QED
    BY <1>1, <2>1, <2>2, <2>3, <2>4, <2>5, <2>6, <2>7, <2>8, <2>9, <2>10, <2>11 DEF AttemptStep
<1>2. CASE SweepStep \/ Tick \/ UNCHANGED vars
  <2>1. UNCHANGED <<request, phase, sub, content, answer>>
    BY <1>2 DEF SweepStep, SweepStart, SweepPage, SweepPagesEnd, SweepList, SweepListCut, Listed,
       SweepDelete, SweepDeleteFails, SweepEnd, rest, callVars, Tick, vars
  <2> QED
    BY <2>1 DEF AInv, AnswersAgree
<1> QED
    BY <1>1, <1>2 DEF Next

(* Calls with one submission key agree about what was created.             *)
THEOREM AnswersAgreed == ASSUME Harmless PROVE Spec => []AnswersAgree
<1>1. Init => AInv
    BY NamesAssumption DEF Init, AInv, AnswersAgree
<1>2. IInv /\ AInv /\ [Next]_vars => AInv'
    BY AnswersStep
<1>3. AInv => AnswersAgree
    BY DEF AInv
<1> QED
    BY <1>1, <1>2, <1>3, Invariance, PTL DEF Spec

=============================================================================
