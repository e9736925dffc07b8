--------------------------- MODULE LocationSamples ---------------------------
(* The live positions of one request on the server.                         *)
(*                                                                          *)
(* submitProviderLocationSample is one transaction under the locks of the   *)
(* request and of its tracking session. The provider's app sends a sample   *)
(* again when it did not hear the answer, and what it sends can be held up, *)
(* so any sample may arrive at any moment, any number of times.             *)
EXTENDS Integers, FiniteSets

CONSTANTS
    Places,             \* positions, with their accuracy
    Near,               \* those that qualify as an arrival
    SampleAge,          \* SAMPLE_MAXIMUM_AGE_MILLISECONDS
    SampleSkew,         \* SAMPLE_MAXIMUM_FUTURE_SKEW_MILLISECONDS
    ArrivalCount,       \* ARRIVAL_REQUIRED_SAMPLE_COUNT
    ArrivalSpan,        \* ARRIVAL_REQUIRED_SPAN_MILLISECONDS
    RawRetention,       \* PROVIDER_TRACKING_RAW_RETENTION_DAYS
    DerivedRetention,   \* PROVIDER_TRACKING_DERIVED_RETENTION_DAYS
    LastMoment          \* bound of the clock

ASSUME SamplesAssumption ==
    /\ Near \subseteq Places
    /\ {SampleAge, SampleSkew, ArrivalSpan, DerivedRetention, LastMoment} \subseteq Nat
    /\ ArrivalCount \in Nat \ {0}
    /\ RawRetention \in Nat /\ RawRetention >= SampleAge + SampleSkew

VARIABLES
    moment,     \* the time
    journey,    \* service_requests.status
    session,    \* the request's row of provider_tracking_sessions
    samples,    \* provider_location_samples, with the time each was received
    position,   \* provider_current_positions
    taken       \* history: the samples that were accepted

sampleVars == <<moment, journey, session, samples, position, taken>>

Moments == 0..LastMoment
Never == -1
Captured == 0..(LastMoment + SampleSkew)
Sample == [at : Captured, place : Places]
NoSample == [at |-> Never, place |-> "none"]

NoSession == [state |-> "none", started |-> Never, stopped |-> Never, count |-> 0,
              first |-> Never, last |-> Never, arrived |-> FALSE]

SessionRows ==
    [state : {"none", "active", "stopped"}, started : Moments \cup {Never},
     stopped : Moments \cup {Never}, count : Nat, first : Captured \cup {Never},
     last : Captured \cup {Never}, arrived : BOOLEAN]

SamplesTypeOK ==
    /\ moment \in Moments
    /\ journey \in {"assigned", "underway", "over"}
    /\ session \in SessionRows
    /\ samples \subseteq [sample : Sample, received : Moments]
    /\ position \in Sample \cup {NoSample}
    /\ taken \subseteq Sample

SamplesInit ==
    /\ moment = 0
    /\ journey = "assigned"
    /\ session = NoSession
    /\ samples = {}
    /\ position = NoSample
    /\ taken = {}

-----------------------------------------------------------------------------
SessionRow(state, started, stopped, e) ==
    [state |-> state, started |-> started, stopped |-> stopped, count |-> e.count,
     first |-> e.first, last |-> e.last, arrived |-> e.arrived]

\* The provider sets out: startProviderTracking.
StartSession ==
    /\ journey = "assigned"
    /\ journey' = "underway"
    /\ session' = SessionRow("active", moment, Never, NoSession)
    /\ UNCHANGED <<moment, samples, position, taken>>

\* validateProviderLocationSample
Timely(s) == s.at >= moment - SampleAge /\ s.at <= moment + SampleSkew

\* What the transaction requires before it looks at the positions.
Admissible(s) ==
    /\ Timely(s)
    /\ journey = "underway" /\ session.state = "active"
    /\ s.at >= session.started

StoredAt(at) == {x.sample : x \in {y \in samples : y.sample.at = at}}

\* Mutant: only the current position is compared with.
AnotherAtPosition(s) == position.at = s.at /\ position # s

\* Another sample was taken at that moment.
AnotherAt(s) ==
    IF position.at = s.at THEN position # s
    ELSE position.at > s.at /\ StoredAt(s.at) \notin {{}, {s}}

\* Mutant: a sample older than the current position is out of order.
TakenAtPosition(s) == position = s

TakenBefore(s) ==
    IF position.at = s.at THEN position = s
    ELSE position.at > s.at /\ StoredAt(s.at) = {s}

\* What submitProviderLocationSample answers.
Answer(s) ==
    IF ~Admissible(s) THEN "refused"
    ELSE IF position.at < s.at THEN "accepted"
    ELSE IF TakenBefore(s) THEN "duplicate"
    ELSE IF AnotherAt(s) THEN "conflict"
    ELSE "out_of_order"

\* arrivalSampleQualifies
Qualifies(s) == s.place \in Near

\* Mutant: the time between the samples is not looked at.
ArrivalByCount(e) == e.count >= ArrivalCount

\* evaluateObservedArrival
ObservedArrival(e) == e.count >= ArrivalCount /\ e.last - e.first >= ArrivalSpan

\* Mutant: the span starts again with every sample.
EvidenceFromLast(s) ==
    LET e == [session EXCEPT !.count = @ + 1, !.first = session.last, !.last = s.at]
    IN  IF ~Qualifies(s) THEN session
        ELSE [e EXCEPT !.arrived = @ \/ ObservedArrival(e)]

\* The session's columns after a sample.
Evidence(s) ==
    LET first == IF session.first = Never THEN s.at ELSE session.first
        e == [count |-> session.count + 1, first |-> first, last |-> s.at]
    IN  IF ~Qualifies(s) THEN session
        ELSE SessionRow(session.state, session.started, session.stopped,
                        [count |-> e.count, first |-> e.first, last |-> e.last,
                         arrived |-> session.arrived \/ ObservedArrival(e)])

\* Only a sample that is accepted changes anything.
AcceptSample(s) ==
    /\ Answer(s) = "accepted"
    /\ session' = Evidence(s)
    /\ samples' = samples \cup {[sample |-> s, received |-> moment]}
    /\ position' = s
    /\ taken' = taken \cup {s}
    /\ UNCHANGED <<moment, journey>>

\* Mutant: the current position is left for the next sample to overwrite.
StopKeepsPosition ==
    /\ session' = IF session.state # "active" THEN session
                  ELSE SessionRow("stopped", session.started, moment, session)
    /\ UNCHANGED position

\* stopProviderTracking
StopSession ==
    /\ session' = IF session.state # "active" THEN session
                  ELSE SessionRow("stopped", session.started, moment, session)
    /\ position' = NoSample

\* The request is completed or cancelled.
FinishJourney ==
    /\ journey # "over"
    /\ journey' = "over"
    /\ StopSession
    /\ UNCHANGED <<moment, samples, taken>>

\* Staff stop the tracking, or suspend the provider; the request goes on.
StopForOperations ==
    /\ session.state = "active"
    /\ StopSession
    /\ UNCHANGED <<moment, journey, samples, taken>>

\* pruneProviderTrackingData: one transaction, which takes no more than a batch.
OldSamples == {x \in samples : x.received < moment - RawRetention}

PruneSamples ==
    /\ \E some \in SUBSET OldSamples : samples' = samples \ some
    /\ session' = IF /\ session.state = "stopped"
                     /\ session.stopped < moment - DerivedRetention
                     /\ samples' = {}
                  THEN NoSession ELSE session
    /\ <<samples', session'>> # <<samples, session>>
    /\ UNCHANGED <<moment, journey, position, taken>>

\* findCurrentProviderPosition: what the customer and staff are shown.
ShownPosition ==
    IF session.state = "active" /\ journey = "underway" THEN position ELSE NoSample

MomentPasses ==
    /\ moment < LastMoment
    /\ moment' = moment + 1
    /\ UNCHANGED <<journey, session, samples, position, taken>>

SamplesNext ==
    \/ StartSession \/ FinishJourney \/ StopForOperations
    \/ \E s \in Sample : AcceptSample(s)
    \/ PruneSamples \/ MomentPasses

SamplesSpec == SamplesInit /\ [][SamplesNext]_sampleVars

-----------------------------------------------------------------------------
TakenNear == {s \in taken : s.place \in Near}

(* The position shown to the customer and to staff is the newest sample     *)
(* accepted, in whatever order samples arrive, and none is even kept once   *)
(* the tracking has been stopped: a sample that was on its way does not     *)
(* bring it back.                                                           *)
PositionIsNewest ==
    /\ session.state = "active" =>
           /\ taken = {} <=> ShownPosition = NoSample
           /\ \A s \in taken : s.at <= ShownPosition.at
    /\ session.state # "active" => position = NoSample

(* A sample that is sent again because the answer was lost is recognized    *)
(* for what it is, however many others were accepted in between and         *)
(* whatever the retention has removed: it is answered as a duplicate and    *)
(* never refused, and nothing that was not accepted is answered so.         *)
AnswersAreTrue ==
    \A s \in {t \in Sample : Admissible(t)} :
        /\ s \in taken <=> Answer(s) = "duplicate"
        /\ (\E t \in taken : t.at = s.at /\ t # s) <=> Answer(s) = "conflict"

(* Samples are kept once each, the newest of them is what is shown, and     *)
(* whoever sends one again is told so.                                      *)
SamplesAreKept ==
    /\ \A s, t \in taken : s.at = t.at => s = t
    /\ PositionIsNewest /\ AnswersAreTrue

(* An arrival is observed when and only when enough of the accepted samples *)
(* were near the place for long enough; duplicates, refused samples, a stop *)
(* or the removal of the raw samples change nothing about it.               *)
ArrivalIsEarned ==
    session.state # "none" =>
        /\ session.count = Cardinality(TakenNear)
        /\ session.arrived <=>
             /\ Cardinality(TakenNear) >= ArrivalCount
             /\ \E s, t \in TakenNear : t.at - s.at >= ArrivalSpan

=============================================================================
