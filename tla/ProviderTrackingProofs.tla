----------------------- MODULE ProviderTrackingProofs -----------------------
(***************************************************************************)
(* Proofs about ProviderTracking, for any number of generations, failures  *)
(* and messages under way, whatever the app, the worker and Android do in  *)
(* between.                                                                *)
(*                                                                         *)
(* The argument about the no-ops follows the messages of one generation:   *)
(* they arrive in order, so what the app will believe once it has read     *)
(* them all is the last thing the worker has said, and the worker says     *)
(* otherwise before it gives up its position stream for good.              *)
(***************************************************************************)
EXTENDS ProviderTracking, SequenceTheorems, TLAPS

-----------------------------------------------------------------------------
(* The inductive invariant.                                                *)

Queued == [by : Reads \cup {"advance"}, says : Says, revision : Nat]
Alive == {"started", "sampled", "restored"}
Messages == [is : Alive \cup {"paused", "unauthorized", "not_found", "inactive", "network",
                              "location_unavailable", "off"}, gen : Generations]
Readings == [step : {"idle", "loading", "claimed", "answered", "queued", "done"},
             revision : Nat, off : BOOLEAN, says : Says \cup {"failed", "unauthorized"}]
Advances == [step : {"idle", "sent", "queued"}, says : Says \cup {"refused", "unauthorized"}]
Runnings == [step : {"idle", "starting", "awaiting", "stopping", "stopped"},
             kind : {"start", "update", "stop"}, by : Reads \cup {"advance"}, says : Says,
             ack : {"none", "yes", "no"}]
Asides == [step : {"idle", "stopping", "stopped"}, why : {"logout", "expiry", "refresh"}]
Runtimes == [gen : Generations \cup {None}, active : BOOLEAN, status : Says]
Natives == [gen : Generations \cup {None}, last : 0 .. MaxGenerations, pending : BOOLEAN,
            service : BOOLEAN, stopped : SUBSET Generations]
Setups == [step : {"idle", "asked", "cancelling"}, config : Configs \cup {NoConfig},
           owned : BOOLEAN]
Workers == [owner : Generations \cup {None}, config : Configs \cup {NoConfig},
            stream : Configs \cup {NoConfig}, buffer : Generations \cup {None},
            terminal : Generations \cup {None}, stopped : BOOLEAN]

(* The types, where the queues are sequences, and an action that will      *)
(* configure a collector has a generation and a status for it.             *)
ServerOK == server \in [job : {"assigned", "off"} \cup Trackable, bearer : BOOLEAN]
AppOK == app \in [signedIn : BOOLEAN, revision : Nat]
ReadsOK == reads \in [Reads -> Readings]
AdvanceOK == advance \in Advances
ActionsOK == actions \in Seq(Queued)
RunningOK ==
  /\ running \in Runnings
  /\ running.step \in {"starting", "awaiting"} => native.last \in Generations
  /\ running.step = "starting" => running.says \in Trackable
AsideOK == aside \in Asides
RuntimeOK == runtime \in Runtimes /\ (runtime.active => runtime.gen # None)
NativeOK == native \in Natives
SetupOK ==
  /\ setup \in [inbox : Seq(Configs), now : Setups]
  /\ setup.now.step # "idle" => setup.now.config \in Configs
WorkerOK == worker \in Workers
TasksOK == tasks \subseteq Tasks /\ \A t \in tasks : t.kind = "stopping" => t.what \notin Trackable
EventsOK == events \in Seq(Messages)
FaultsOK == faults \in 0 .. MaxFaults

TypesHold ==
  /\ ServerOK /\ AppOK /\ ReadsOK /\ AdvanceOK /\ ActionsOK /\ RunningOK /\ AsideOK
  /\ RuntimeOK /\ NativeOK /\ SetupOK /\ WorkerOK /\ TasksOK /\ EventsOK /\ FaultsOK

(* The service that is ending belongs to nobody, and only a service that   *)
(* is not ending has stopped no generation.                                *)
NativeHolds ==
  /\ native.gen \in {None, native.last}
  /\ native.pending => native.service /\ native.gen = None
  /\ native.service /\ ~native.pending => native.stopped = {} /\ ~worker.stopped
  /\ ~native.service => worker = Dead /\ tasks = {} /\ setup = [inbox |-> <<>>, now |-> NoSetup]
  /\ running.step = "starting" => ~native.service /\ runtime = NoRuntime

(* Nobody has heard of a generation that is not yet claimed, nor of one    *)
(* whose service is still to be started.                                   *)
Known(g) == g <= native.last
GensAreKnown ==
  /\ Known(runtime.gen) /\ Known(worker.owner) /\ Known(worker.stream.gen)
  /\ Known(worker.config.gen) /\ Known(setup.now.config.gen)
  /\ \A i \in DOMAIN setup.inbox : Known(setup.inbox[i].gen)
  /\ \A t \in tasks : Known(t.config.gen)
  /\ \A i \in DOMAIN events :
       /\ Known(events[i].gen)
       /\ running.step = "starting" => events[i].gen # native.last

(* The position stream is of the current configuration, which has one      *)
(* unless it is being replaced; it is of the worker's generation, or of    *)
(* one that has just been given up.                                        *)
StreamHolds ==
  /\ worker.stream # NoConfig => worker.stream = worker.config
                                 /\ worker.owner \in {worker.stream.gen, None}
  /\ worker.config # NoConfig /\ ~worker.stopped =>
       worker.stream # NoConfig \/ setup.now.step = "cancelling"
  /\ worker.stopped => worker.stream = NoConfig
  /\ setup.now.step = "cancelling" =>
       setup.now.owned /\ worker.owner \in {setup.now.config.gen, None}

(* No trace of the generation but for the configuration that will set it   *)
(* up.                                                                     *)
Fresh(g) ==
  /\ worker.owner # g /\ worker.stream.gen # g
  /\ \A t \in tasks : t.config.gen # g
  /\ \A i \in DOMAIN events : events[i].gen # g
  /\ runtime.gen = g => ~runtime.active

(* A setup for an earlier generation began before the current one was      *)
(* claimed.                                                                *)
SetupsAreInOrder ==
  native.gen # None /\ setup.now.step # "idle" /\ setup.now.owned
    /\ setup.now.config.gen # native.gen => Fresh(native.gen)

(* The app believes, or is about to, that its collector is running.        *)
LastWord(k) ==
  \A j \in DOMAIN events : j > k => events[j].gen # runtime.gen \/ events[j].is \in Alive
Believed ==
  \/ runtime.active /\ LastWord(0)
  \/ \E k \in DOMAIN events :
       events[k].gen = runtime.gen /\ events[k].is \in Alive /\ LastWord(k)

(* The worker is about to say that it does not collect, or to collect.     *)
Busy(g) ==
  \/ \E t \in tasks : t.kind = "stopping" /\ t.config.gen = g
  \/ \E t \in tasks : t.kind = "pausing" /\ t.config.gen = g /\ PausedFor(t.config)
  \/ setup.now.step = "cancelling" /\ setup.now.config.gen = g

BeliefsAreTrue ==
  native.gen # None /\ runtime.gen = native.gen /\ native.service /\ Believed
    => worker.stream.gen = native.gen \/ Busy(native.gen)

TrackingInv ==
  /\ TypesHold
  /\ NativeHolds
  /\ GensAreKnown
  /\ StreamHolds
  /\ SetupsAreInOrder
  /\ BeliefsAreTrue

-----------------------------------------------------------------------------
(* The types.                                                              *)

USE TrackingAssumption DEF None, Trackable, Says, Reads

(* The members of a typed sequence.                                        *)
LEMMA Members ==
  ASSUME NEW S, NEW s \in Seq(S)
  PROVE  /\ \A i \in DOMAIN s : s[i] \in S
         /\ Len(s) \in Nat /\ DOMAIN s = 1 .. Len(s)
         /\ s # <<>> => /\ Head(s) \in S /\ Head(s) = s[1] /\ Tail(s) \in Seq(S)
                        /\ 1 \in DOMAIN s
                        /\ Len(Tail(s)) = Len(s) - 1
                        /\ \A i \in DOMAIN Tail(s) : Tail(s)[i] = s[i + 1] /\ i + 1 \in DOMAIN s
<1>1. /\ \A i \in DOMAIN s : s[i] \in S
      /\ Len(s) \in Nat /\ DOMAIN s = 1 .. Len(s)
  OBVIOUS
<1>2. ASSUME s # <<>>
      PROVE  /\ Head(s) \in S /\ Head(s) = s[1] /\ Tail(s) \in Seq(S)
             /\ 1 \in DOMAIN s
             /\ Len(Tail(s)) = Len(s) - 1
             /\ \A i \in DOMAIN Tail(s) : Tail(s)[i] = s[i + 1] /\ i + 1 \in DOMAIN s
  BY <1>2, EmptySeq, HeadTailProperties
<1>3. QED
  BY <1>1, <1>2

LEMMA Appended ==
  ASSUME NEW S, NEW s \in Seq(S), NEW x \in S
  PROVE  /\ Append(s, x) \in Seq(S) /\ DOMAIN Append(s, x) = 1 .. Len(s) + 1
         /\ \A i \in DOMAIN s : Append(s, x)[i] = s[i]
         /\ Append(s, x)[Len(s) + 1] = x
  BY AppendProperties

(* A generation is a number, of which the last one claimed is an example.  *)
LEMMA GenerationFacts ==
  /\ Generations \subseteq Nat /\ 0 \notin Generations
  /\ \A n \in 0 .. MaxGenerations : n \in Generations <=> n # 0
  /\ \A n \in 0 .. MaxGenerations : n < MaxGenerations => n + 1 \in Generations
  /\ Generations \subseteq 0 .. MaxGenerations /\ 0 \in 0 .. MaxGenerations
  /\ 0 .. MaxGenerations \subseteq Nat
  /\ 1 \in Generations /\ 1 \in 0 .. MaxGenerations
BY DEF Generations

(* The records a component is reset to.                                    *)
LEMMA Resets ==
  /\ NoConfig.gen = 0 /\ NoConfig \notin Configs
  /\ \A c \in Configs : c.gen \in Generations /\ c.status \in Trackable
  /\ NoSetup \in Setups /\ NoSetup.step = "idle" /\ NoSetup.config = NoConfig
  /\ NoRuntime \in Runtimes /\ NoRuntime.gen = 0 /\ NoRuntime.active = FALSE
  /\ NoAction \in Runnings /\ NoAction.step = "idle"
  /\ NoRead \in Readings /\ [NoRead EXCEPT !.step = "done"] \in Readings
<1>1. NoConfig.gen = 0 /\ NoConfig \notin Configs
  BY DEF NoConfig, Configs
<1>2. \A c \in Configs : c.gen \in Generations /\ c.status \in Trackable
  BY DEF Configs
<1>3. NoSetup \in Setups /\ NoSetup.step = "idle" /\ NoSetup.config = NoConfig
  BY DEF NoSetup, Setups
<1>4. NoRuntime \in Runtimes /\ NoRuntime.gen = 0 /\ NoRuntime.active = FALSE
  BY DEF NoRuntime, Runtimes
<1>5. NoAction \in Runnings /\ NoAction.step = "idle"
  BY DEF NoAction, Runnings
<1>6. NoRead \in Readings /\ [NoRead EXCEPT !.step = "done"] \in Readings
  BY DEF NoRead, Readings
<1>7. QED
  BY <1>1, <1>2, <1>3, <1>4, <1>5, <1>6

(* A worker that knows nothing, and one that has ended.                    *)
LEMMA Workless ==
  /\ Blank \in Workers /\ Blank.owner = 0 /\ Blank.config = NoConfig
  /\ Blank.stream = NoConfig /\ Blank.buffer = 0 /\ Blank.terminal = 0
  /\ Blank.stopped = FALSE
  /\ Dead \in Workers /\ Dead.owner = 0 /\ Dead.config = NoConfig
  /\ Dead.stream = NoConfig /\ Dead.buffer = 0 /\ Dead.terminal = 0 /\ Dead.stopped = TRUE
BY DEF Blank, Dead, Workers

(* The types imply those that the model states.                            *)
LEMMA TypesSuffice == TypesHold => TrackingTypeOK
<1> SUFFICES ASSUME TypesHold PROVE TrackingTypeOK
  OBVIOUS
<1>1. /\ \A i \in DOMAIN actions : actions[i] \in Queued
      /\ \A i \in DOMAIN events : events[i] \in Messages
      /\ \A i \in DOMAIN setup.inbox : setup.inbox[i] \in Configs
  BY Members DEF TypesHold, ActionsOK, EventsOK, SetupOK
<1>2. \A e \in Messages : e.gen \in Generations
  BY DEF Messages
<1>3. setup.now \in Setups
  BY DEF TypesHold, SetupOK
<1>4. QED
  BY <1>1, <1>2, <1>3 DEF TypesHold, TrackingTypeOK, ServerOK, AppOK, ReadsOK, AdvanceOK,
    RunningOK, AsideOK, RuntimeOK, NativeOK, WorkerOK, TasksOK, FaultsOK, Queued, Readings,
    Advances, Runnings, Asides, Runtimes, Natives, Setups, Workers

(* The invariant holds in every first state.                               *)
LEMMA FirstTracking == TrackingInit => TrackingInv
<1> SUFFICES ASSUME TrackingInit PROVE TrackingInv
  OBVIOUS
<1> DEFINE old == [gen |-> 1, status |-> "on_the_way", by |-> "app"]
<1>1. /\ actions = <<>> /\ events = <<>> /\ tasks = {} /\ faults = 0
      /\ setup = [inbox |-> <<>>, now |-> NoSetup]
      /\ setup.inbox = <<>> /\ setup.now = NoSetup
      /\ runtime = NoRuntime /\ running = NoAction
      /\ reads = [r \in Reads |-> NoRead]
  BY DEF TrackingInit
<1>2. old \in Configs /\ old.gen = 1
  BY GenerationFacts DEF Configs
<1>3. \/ /\ worker = Dead
         /\ native = [gen |-> None, last |-> 0, pending |-> FALSE,
                       service |-> FALSE, stopped |-> {}]
      \/ /\ native = [gen |-> 1, last |-> 1, pending |-> FALSE,
                       service |-> TRUE, stopped |-> {}]
         /\ worker = [owner |-> 1, config |-> old, stream |-> old, buffer |-> 1,
                      terminal |-> 0, stopped |-> FALSE]
  BY DEF TrackingInit, Blank
<1> HIDE DEF old
<1>4. NativeOK /\ WorkerOK
  <2>1. NativeOK
    <3>1. \A n \in {0, 1}, b \in BOOLEAN :
            [gen |-> n, last |-> n, pending |-> FALSE, service |-> b, stopped |-> {}] \in Natives
      BY GenerationFacts DEF Natives
    <3>2. QED
      BY <1>3, <3>1 DEF NativeOK
  <2>2. [owner |-> 1, config |-> old, stream |-> old, buffer |-> 1,
         terminal |-> 0, stopped |-> FALSE] \in Workers
    BY <1>2, GenerationFacts DEF Workers
  <2>3. QED
    BY <1>3, <2>1, <2>2, Workless DEF WorkerOK
<1>5. ServerOK /\ AppOK /\ AdvanceOK /\ AsideOK
  BY DEF TrackingInit, ServerOK, AppOK, AdvanceOK, AsideOK, Advances, Asides
<1>6. ReadsOK /\ ActionsOK /\ RunningOK /\ RuntimeOK /\ SetupOK /\ TasksOK /\ EventsOK /\ FaultsOK
  BY <1>1, Resets DEF ReadsOK, ActionsOK, RunningOK, RuntimeOK, SetupOK, TasksOK, EventsOK,
    FaultsOK
<1>7. TypesHold
  BY <1>4, <1>5, <1>6 DEF TypesHold
<1>8. NativeHolds
  BY <1>1, <1>3, Resets, Workless DEF NativeHolds
<1>9. GensAreKnown
  BY <1>1, <1>2, <1>3, Resets, Workless DEF GensAreKnown, Known
<1>10. StreamHolds
  BY <1>1, <1>2, <1>3, Resets, Workless DEF StreamHolds
<1>11. SetupsAreInOrder
  BY <1>1, Resets DEF SetupsAreInOrder
<1>12. BeliefsAreTrue
  BY <1>1, Resets DEF BeliefsAreTrue, Believed, LastWord
<1>13. QED
  BY <1>7, <1>8, <1>9, <1>10, <1>11, <1>12 DEF TrackingInv

(* What the native authority does to stop a generation: nothing, or that   *)
(* the generation is given up and the service, if there is one, will end.  *)
GivesUp(n) ==
  /\ n \in Natives /\ n.last = native.last /\ n.service = native.service
  /\ n = native \/ (n.gen = None /\ n.pending = native.service)

LEMMA StopsGiveUp ==
  ASSUME NativeOK
  PROVE  /\ \A g \in Generations : GivesUp(StoppedBy(g))
         /\ \A g \in Generations : StoppedBy(g) = native \/ native.gen = g
         /\ GivesUp(StoppedForZero)
<1>1. GivesUp(native)
  BY DEF NativeOK, GivesUp
<1>2. ASSUME NEW g \in Generations
      PROVE  GivesUp([native EXCEPT !.gen = None, !.pending = native.service, !.stopped = @ \cup {g}])
  BY DEF NativeOK, GivesUp, Natives
<1>3. GivesUp([native EXCEPT !.gen = None, !.pending = native.service])
  BY DEF NativeOK, GivesUp, Natives
<1>4. QED
  BY <1>1, <1>2, <1>3 DEF StoppedBy, StoppedForZero

LEMMA StopBegun ==
  ASSUME NativeOK, RuntimeOK, StopBegins
  PROVE  GivesUp(native') /\ StopStep \in {"stopping", "stopped"}
<1>1. runtime.gen # None => runtime.gen \in Generations
  BY DEF RuntimeOK, Runtimes
<1>2. QED
  BY <1>1, StopsGiveUp DEF StopBegins, StopStep

(* The end of an action leaves its caller's record as one.                 *)
LEMMA Ended ==
  ASSUME ReadsOK, AdvanceOK, NEW by \in Reads \cup {"advance"}, NEW again, Ends(by, again)
  PROVE  ReadsOK' /\ AdvanceOK' /\ running' = NoAction
<1>1. CASE by = "advance"
  BY <1>1 DEF Ends, ReadsOK, AdvanceOK, Advances
<1>2. CASE by # "advance"
  <2>1. [reads[by] EXCEPT !.step = "claimed"] \in Readings
    BY <1>2 DEF ReadsOK, Readings
  <2>2. QED
    BY <1>2, <2>1, Resets DEF Ends, ReadsOK, AdvanceOK
<1>3. QED
  BY <1>1, <1>2

(* A configuration of the app.                                             *)
LEMMA Configured ==
  ASSUME SetupOK, NEW kind \in {"start", "update"}, NEW by \in Reads \cup {"advance"},
         NEW g \in Generations, NEW says \in Trackable,
         NEW c, c = [gen |-> g, status |-> says, by |-> "app"],
         Configures(kind, by, c), native'.last \in Generations
  PROVE  /\ c \in Configs /\ RunningOK' /\ RuntimeOK' /\ SetupOK'
         /\ runtime'.gen = g /\ ~runtime'.active /\ running'.step = "awaiting"
         /\ setup'.now = setup.now
         /\ setup'.inbox \in {setup.inbox, Append(setup.inbox, c)}
         /\ native'.service = FALSE => setup' = setup
<1>1. c \in Configs /\ c.gen = g /\ c.status = says
  BY DEF Configs
<1>2. RunningOK'
  BY <1>1 DEF Configures, RunningOK, Runnings
<1>3. RuntimeOK'
  BY <1>1 DEF Configures, RuntimeOK, Runtimes
<1>4. setup' = setup \/ setup' = [setup EXCEPT !.inbox = Append(@, c)]
  BY DEF Configures, SetupOK
<1>5. /\ setup'.now = setup.now /\ setup' \in [inbox : Seq(Configs), now : Setups]
      /\ setup'.inbox \in {setup.inbox, Append(setup.inbox, c)}
  BY <1>1, <1>4, Appended DEF SetupOK
<1>6. QED
  BY <1>1, <1>2, <1>3, <1>5 DEF Configures, SetupOK

LEMMA ClaimMade ==
  ASSUME NativeOK, MayClaim
  PROVE  /\ Claimed \in Natives /\ native.last + 1 \in Generations
         /\ Claimed.gen = native.last + 1 /\ Claimed.last = native.last + 1
         /\ Claimed.pending = FALSE /\ Claimed.service = native.service
         /\ Claimed.stopped = native.stopped
<1>1. native \in Natives /\ native.last \in 0 .. MaxGenerations /\ native.last < MaxGenerations
  BY DEF NativeOK, Natives, MayClaim
<1>2. native.last + 1 \in Generations /\ native.last + 1 \in 0 .. MaxGenerations
  BY <1>1, GenerationFacts
<1>3. /\ Claimed.gen = native.last + 1 /\ Claimed.last = native.last + 1
      /\ Claimed.pending = FALSE /\ Claimed.service = native.service
      /\ Claimed.stopped = native.stopped
  BY <1>1 DEF Claimed, Natives
<1>4. Claimed \in Natives
  BY <1>1, <1>2 DEF Claimed, Natives
<1>5. QED
  BY <1>2, <1>3, <1>4

-----------------------------------------------------------------------------
(* What the app does, other than to take in a message or to start the      *)
(* service: the worker is as it was, and the generation is kept, given up  *)
(* or replaced by a new one that the app does not believe in yet.          *)

Decides ==
  /\ UNCHANGED <<worker, tasks, events>>
  /\ native'.service = native.service
  /\ setup'.now = setup.now
  /\ \/ setup' = setup
     \/ /\ native.service
        /\ \E c \in Configs : c.gen <= native'.last /\ setup'.inbox = Append(setup.inbox, c)
  /\ running'.step = "starting" =>
       /\ ~native.service /\ runtime' = NoRuntime
       /\ \/ running.step = "starting" /\ native'.last = native.last
          \/ native'.last = native.last + 1
  /\ \/ /\ GivesUp(native')
        /\ \/ runtime' = runtime \/ runtime' = NoRuntime
           \/ native' = native /\ runtime'.gen = runtime.gen /\ ~runtime'.active
     \/ /\ native' = Claimed /\ MayClaim
        /\ runtime'.gen \in {None, native'.last} /\ ~runtime'.active

LEMMA ActionBeginsWell ==
  ASSUME TrackingInv, ActionBegins
  PROVE  TypesHold' /\ Decides
<1> DEFINE a == Head(actions)
<1>1. /\ ServerOK /\ AppOK /\ ReadsOK /\ AdvanceOK /\ ActionsOK /\ RunningOK /\ AsideOK
      /\ RuntimeOK /\ NativeOK /\ SetupOK /\ WorkerOK /\ TasksOK /\ EventsOK /\ FaultsOK
      /\ NativeHolds
  BY DEF TrackingInv, TypesHold
<1>2. /\ actions # <<>> /\ running.step = "idle" /\ actions' = Tail(actions)
      /\ UNCHANGED <<server, app, aside, events, faults>>
  BY DEF ActionBegins
<1>3. a \in Queued /\ ActionsOK'
  BY <1>1, <1>2, Members DEF ActionsOK
<1>4. a.by \in Reads \cup {"advance"} /\ a.says \in Says
  BY <1>3 DEF Queued
<1>5. ServerOK' /\ AppOK' /\ AsideOK' /\ EventsOK' /\ FaultsOK'
  BY <1>1, <1>2 DEF ServerOK, AppOK, AsideOK, EventsOK, FaultsOK
<1>6. CASE ActionIsOver(a.by)
  <2>1. /\ UNCHANGED <<runtime, native, setup, worker, tasks>>
        /\ ReadsOK' /\ AdvanceOK' /\ running' = NoAction
    BY <1>1, <1>4, <1>6, Ended DEF ActionIsOver, workerVars
  <2>2. TypesHold'
    BY <1>1, <1>3, <1>5, <2>1, Resets DEF TypesHold, RunningOK, RuntimeOK, NativeOK, SetupOK,
      WorkerOK, TasksOK
  <2>3. QED
    BY <1>1, <1>2, <2>1, <2>2, Resets DEF Decides, GivesUp, NativeOK
<1>7. CASE ActionStops(a.by, a.says)
  <2>1. /\ UNCHANGED <<reads, advance, runtime, setup, worker, tasks>>
        /\ GivesUp(native') /\ running'.step \in {"stopping", "stopped"}
        /\ running' \in Runnings
    <3>1. GivesUp(native') /\ StopStep \in {"stopping", "stopped"}
      BY <1>1, <1>7, StopBegun DEF ActionStops
    <3>2. running' = [NoAction EXCEPT !.step = StopStep, !.by = a.by, !.says = a.says]
      BY <1>7 DEF ActionStops
    <3> HIDE DEF a
    <3>3. running' \in Runnings /\ running'.step = StopStep
      BY <1>4, <3>1, <3>2 DEF NoAction, Runnings
    <3>4. QED
      BY <1>7, <3>1, <3>3 DEF ActionStops, workerVars
  <2>2. TypesHold'
    BY <1>1, <1>3, <1>5, <2>1 DEF TypesHold, RunningOK, RuntimeOK, NativeOK, SetupOK,
      WorkerOK, TasksOK, ReadsOK, AdvanceOK, GivesUp
  <2>3. QED
    BY <1>2, <2>1, <2>2 DEF Decides, GivesUp
<1>8. CASE a.says # "off" /\ IsRunning /\ ActionUpdates(a.by, a.says)
  <2> DEFINE c == [gen |-> runtime.gen, status |-> a.says, by |-> "app"]
  <2>1. /\ UNCHANGED <<reads, advance, native, worker, tasks>>
        /\ Configures("update", a.by, c)
    BY <1>8 DEF ActionUpdates
  <2>2. /\ runtime.gen \in Generations /\ runtime.gen = native.last
        /\ a.says \in Trackable /\ native.service
    BY <1>1, <1>4, <1>8 DEF IsRunning, RuntimeOK, Runtimes, NativeHolds
  <2>3. /\ c \in Configs /\ RunningOK' /\ RuntimeOK' /\ SetupOK'
        /\ runtime'.gen = runtime.gen /\ ~runtime'.active /\ running'.step = "awaiting"
        /\ setup'.now = setup.now
        /\ setup'.inbox \in {setup.inbox, Append(setup.inbox, c)}
    <3> DEFINE g == runtime.gen
               says == a.says
               by == a.by
    <3>1. /\ g \in Generations /\ says \in Trackable /\ by \in Reads \cup {"advance"}
          /\ native'.last \in Generations /\ SetupOK /\ Configures("update", by, c)
          /\ c = [gen |-> g, status |-> says, by |-> "app"]
      BY <1>1, <1>4, <2>1, <2>2
    <3> HIDE DEF g, says, by, c
    <3>2. /\ c \in Configs /\ RunningOK' /\ RuntimeOK' /\ SetupOK'
          /\ runtime'.gen = g /\ ~runtime'.active /\ running'.step = "awaiting"
          /\ setup'.now = setup.now
          /\ setup'.inbox \in {setup.inbox, Append(setup.inbox, c)}
      BY <3>1, Configured
    <3>3. QED
      BY <3>2 DEF g
  <2>4. c.gen = native'.last
    BY <2>1, <2>2
  <2> HIDE DEF c
  <2>5. TypesHold'
    BY <1>1, <1>3, <1>5, <2>1, <2>3 DEF TypesHold, NativeOK, WorkerOK, TasksOK, ReadsOK,
      AdvanceOK
  <2>6. setup' = setup \/ setup'.inbox = Append(setup.inbox, c)
    BY <1>1, <2>3 DEF SetupOK
  <2>7. c.gen <= native'.last
    <3>1. native'.last \in Nat
      BY <1>1, <2>1, GenerationFacts DEF NativeOK, Natives
    <3>2. QED
      BY <2>4, <3>1
  <2>8. GivesUp(native')
    BY <1>1, <2>1 DEF GivesUp, NativeOK
  <2>9. QED
    BY <1>2, <2>1, <2>2, <2>3, <2>5, <2>6, <2>7, <2>8 DEF Decides
<1>9. CASE a.says # "off" /\ ActionStarts(a.by, a.says)
  <2>1. /\ MayClaim /\ native' = Claimed
        /\ UNCHANGED <<reads, advance, worker, tasks>>
    BY <1>9 DEF ActionStarts
  <2>2. /\ native' \in Natives /\ native'.last = native.last + 1 /\ native'.gen = native'.last
        /\ native'.last \in Generations /\ native'.service = native.service
        /\ native'.pending = FALSE
    BY <1>1, <2>1, ClaimMade
  <2>3. CASE native.service
    <3> DEFINE c == [gen |-> native'.gen, status |-> a.says, by |-> "app"]
    <3>1. Configures("start", a.by, c) /\ a.says \in Trackable
      BY <1>4, <1>9, <2>3 DEF ActionStarts
    <3>2. /\ c \in Configs /\ RunningOK' /\ RuntimeOK' /\ SetupOK'
          /\ runtime'.gen = native'.last /\ ~runtime'.active /\ running'.step = "awaiting"
          /\ setup'.now = setup.now
          /\ setup'.inbox \in {setup.inbox, Append(setup.inbox, c)}
      <4> DEFINE g == native'.gen
                 says == a.says
                 by == a.by
      <4>1. /\ g \in Generations /\ says \in Trackable /\ by \in Reads \cup {"advance"}
            /\ native'.last \in Generations /\ SetupOK /\ Configures("start", by, c)
            /\ c = [gen |-> g, status |-> says, by |-> "app"] /\ g = native'.last
        BY <1>1, <1>4, <2>2, <3>1
      <4> HIDE DEF g, says, by, c
      <4>2. /\ c \in Configs /\ RunningOK' /\ RuntimeOK' /\ SetupOK'
            /\ runtime'.gen = g /\ ~runtime'.active /\ running'.step = "awaiting"
            /\ setup'.now = setup.now
            /\ setup'.inbox \in {setup.inbox, Append(setup.inbox, c)}
        BY <4>1, Configured
      <4>3. QED
        BY <4>1, <4>2
    <3>3. c.gen = native'.last
      BY <2>2
    <3> HIDE DEF c
    <3>4. TypesHold'
      BY <1>1, <1>3, <1>5, <2>1, <2>2, <3>2 DEF TypesHold, NativeOK, WorkerOK, TasksOK, ReadsOK,
        AdvanceOK
    <3>5. setup' = setup \/ setup'.inbox = Append(setup.inbox, c)
      BY <1>1, <3>2 DEF SetupOK
    <3>6. c.gen <= native'.last
      <4>1. native'.last \in Nat
        BY <2>2, GenerationFacts
      <4>2. QED
        BY <3>3, <4>1
    <3>7. QED
      BY <1>2, <2>1, <2>2, <2>3, <3>2, <3>4, <3>5, <3>6 DEF Decides
  <2>4. CASE ~native.service
    <3>1. /\ runtime' = NoRuntime /\ setup' = setup
          /\ running' = [NoAction EXCEPT !.step = "starting", !.kind = "start",
                                         !.by = a.by, !.says = a.says]
      BY <1>9, <2>4 DEF ActionStarts
    <3> HIDE DEF a
    <3>2. /\ running' \in Runnings /\ running'.step = "starting" /\ running'.says \in Trackable
      <4>1. running' = [step |-> "starting", kind |-> "start", by |-> a.by, says |-> a.says,
                        ack |-> "none"]
        BY <3>1 DEF NoAction
      <4>2. a.says \in Trackable
        BY <1>4, <1>9
      <4>3. QED
        BY <1>4, <4>1, <4>2 DEF Runnings
    <3>3. TypesHold'
      BY <1>1, <1>3, <1>5, <2>1, <2>2, <3>1, <3>2, Resets DEF TypesHold, NativeOK, WorkerOK,
        TasksOK, ReadsOK, AdvanceOK, RunningOK, RuntimeOK, SetupOK
    <3>4. QED
      BY <1>2, <2>1, <2>2, <2>4, <3>1, <3>3, Resets DEF Decides
  <2>5. QED
    BY <2>3, <2>4
<1>10. CASE ActionRefused(a.by)
  <2>1. /\ UNCHANGED <<native, setup, worker, tasks>> /\ runtime' = NoRuntime
        /\ ReadsOK' /\ AdvanceOK' /\ running' = NoAction
    BY <1>1, <1>4, <1>10, Ended DEF ActionRefused, workerVars
  <2>2. TypesHold'
    BY <1>1, <1>3, <1>5, <2>1, Resets DEF TypesHold, RunningOK, RuntimeOK, NativeOK, SetupOK,
      WorkerOK, TasksOK
  <2>3. QED
    BY <1>1, <1>2, <2>1, <2>2, Resets DEF Decides, GivesUp, NativeOK
<1>11. QED
  BY <1>6, <1>7, <1>8, <1>9, <1>10 DEF ActionBegins

LEMMA CollectorMissingWell ==
  ASSUME TrackingInv, CollectorMissing
  PROVE  TypesHold' /\ Decides
<1>1. TypesHold /\ NativeHolds
  BY DEF TrackingInv
<1>2. /\ UNCHANGED <<server, app, reads, advance, actions, aside, runtime, setup, worker,
                     tasks, events>>
      /\ native' = StoppedBy(native.last)
      /\ running' = [running EXCEPT !.step =
                       IF Stale(native.last) THEN "stopped" ELSE "stopping"]
      /\ FaultsOK' /\ running.step = "awaiting"
  BY <1>1 DEF CollectorMissing, workerVars, Fails, TypesHold, FaultsOK
<1>3. native.last \in Generations
  BY <1>1, <1>2 DEF TypesHold, RunningOK
<1>4. GivesUp(native')
  BY <1>1, <1>2, <1>3, StopsGiveUp DEF TypesHold
<1>5. running' \in Runnings /\ running'.step \in {"stopped", "stopping"}
  BY <1>1, <1>2 DEF TypesHold, RunningOK, Runnings
<1>6. RunningOK'
  BY <1>5 DEF RunningOK
<1>7. TypesHold'
  BY <1>1, <1>2, <1>4, <1>6 DEF TypesHold, ServerOK, AppOK, ReadsOK, AdvanceOK, ActionsOK,
    AsideOK, RuntimeOK, NativeOK, SetupOK, WorkerOK, TasksOK, EventsOK, GivesUp
<1>8. QED
  BY <1>2, <1>4, <1>5, <1>7 DEF Decides, GivesUp

LEMMA ActionStoppedWell ==
  ASSUME TrackingInv, ActionStopped
  PROVE  TypesHold' /\ Decides
<1>1. TypesHold
  BY DEF TrackingInv
<1>2. /\ UNCHANGED <<server, app, actions, aside, events, faults, setup, worker, tasks>>
      /\ IsOver(running.step)
  BY DEF ActionStopped, ActionStops, workerVars
<1>3. running.by \in Reads \cup {"advance"} /\ running.says \in Says
  BY <1>1 DEF TypesHold, RunningOK, Runnings
<1>4. CASE ActionStops(running.by, running.says)
  <2>1. GivesUp(native') /\ StopStep \in {"stopping", "stopped"}
    BY <1>1, <1>4, StopBegun DEF ActionStops, TypesHold
  <2>2. UNCHANGED <<reads, advance, runtime>>
    BY <1>4 DEF ActionStops
  <2>3. running' = [NoAction EXCEPT !.step = StopStep, !.by = running.by, !.says = running.says]
    BY <1>4 DEF ActionStops
  <2>4. running' \in Runnings /\ running'.step = StopStep
    BY <1>3, <2>1, <2>3 DEF NoAction, Runnings
  <2>5. TypesHold'
    BY <1>1, <1>2, <2>1, <2>2, <2>4 DEF TypesHold, ServerOK, AppOK, ReadsOK, AdvanceOK,
      ActionsOK, RunningOK, AsideOK, RuntimeOK, NativeOK, SetupOK, WorkerOK, TasksOK, EventsOK,
      FaultsOK, GivesUp
  <2>6. QED
    BY <1>2, <2>1, <2>2, <2>4, <2>5 DEF Decides, GivesUp
<1>5. CASE ~(running.kind = "update" /\ running.by # "advance")
  <2>1. /\ runtime' = runtime \/ runtime' = NoRuntime
        /\ UNCHANGED native
    BY <1>5 DEF ActionStopped
  <2>2. ReadsOK' /\ AdvanceOK' /\ running' = NoAction
    <3>1. PICK again : Ends(running.by, again)
      BY <1>5 DEF ActionStopped
    <3>2. QED
      BY <1>1, <1>3, <3>1, Ended DEF TypesHold
  <2>3. TypesHold'
    BY <1>1, <1>2, <2>1, <2>2, Resets DEF TypesHold, ServerOK, AppOK, ActionsOK, RunningOK,
      AsideOK, RuntimeOK, NativeOK, SetupOK, WorkerOK, TasksOK, EventsOK, FaultsOK
  <2>4. QED
    BY <1>1, <1>2, <2>1, <2>2, <2>3, Resets DEF Decides, GivesUp, TypesHold, NativeOK
<1>6. QED
  BY <1>4, <1>5 DEF ActionStopped

(* A stop beside the actions.                                              *)
LEMMA AsideBegun ==
  ASSUME TypesHold, NEW why \in {"logout", "expiry", "refresh"}, AsideBegins(why)
  PROVE  GivesUp(native') /\ AsideOK'
<1>1. GivesUp(native') /\ StopStep \in {"stopping", "stopped"}
  BY StopBegun DEF AsideBegins, TypesHold
<1>2. QED
  BY <1>1 DEF AsideBegins, AsideOK, Asides

(* The steps of the app that leave its actions alone.                      *)
LEMMA StandsAside ==
  ASSUME TrackingInv, UNCHANGED <<running, setup, worker, tasks, events>>,
         ServerOK', AppOK', ReadsOK', AdvanceOK', ActionsOK', AsideOK', FaultsOK',
         GivesUp(native'), runtime' = runtime \/ runtime' = NoRuntime
  PROVE  TypesHold' /\ Decides
<1>1. TypesHold /\ NativeHolds
  BY DEF TrackingInv
<1>2. TypesHold'
  BY <1>1, Resets DEF TypesHold, RunningOK, RuntimeOK, NativeOK, SetupOK, WorkerOK, TasksOK,
    EventsOK, GivesUp
<1>3. QED
  BY <1>1, <1>2 DEF Decides, GivesUp, NativeHolds

LEMMA ReadBeginsWell ==
  ASSUME TrackingInv, NEW r \in Reads, ReadBegins(r)
  PROVE  TypesHold' /\ Decides
<1>1. TypesHold
  BY DEF TrackingInv
<1>2. UNCHANGED <<server, app, advance, actions, running, aside, runtime, native, setup, worker,
                  tasks, events, faults>>
  BY DEF ReadBegins, workerVars
<1>3. ReadsOK'
  <2>1. [reads[r] EXCEPT !.step = "loading"] \in Readings
    BY <1>1 DEF TypesHold, ReadsOK, Readings
  <2>2. reads' = [reads EXCEPT ![r] = [reads[r] EXCEPT !.step = "loading"]]
    BY <1>1 DEF ReadBegins, TypesHold, ReadsOK
  <2>3. QED
    BY <1>1, <2>1, <2>2 DEF TypesHold, ReadsOK
<1>4. GivesUp(native')
  BY <1>1, <1>2 DEF GivesUp, TypesHold, NativeOK
<1>5. QED
  BY <1>1, <1>2, <1>3, <1>4, StandsAside DEF TypesHold, ServerOK, AppOK, AdvanceOK, ActionsOK,
    AsideOK, FaultsOK

LEMMA DashboardArrivesWell ==
  ASSUME TrackingInv, NEW r \in Reads, DashboardArrives(r)
  PROVE  TypesHold' /\ Decides
<1>1. TypesHold
  BY DEF TrackingInv
<1>2. UNCHANGED <<server, advance, actions, running, runtime, setup, worker, tasks, events>>
  BY DEF DashboardArrives, workerVars
<1>3. ReadsOK'
  <2>1. /\ [reads[r] EXCEPT !.step = "claimed", !.revision = app.revision] \in Readings
        /\ [reads[r] EXCEPT !.step = "done"] \in Readings
    BY <1>1 DEF TypesHold, ReadsOK, AppOK, Readings
  <2>2. reads' = [reads EXCEPT ![r] = [reads[r] EXCEPT !.step = "claimed",
                                                       !.revision = app.revision]]
        \/ reads' = [reads EXCEPT ![r] = [reads[r] EXCEPT !.step = "done"]]
    BY <1>1 DEF DashboardArrives, Claims, TypesHold, ReadsOK
  <2>3. QED
    BY <1>1, <2>1, <2>2 DEF TypesHold, ReadsOK
<1>4. AppOK'
  <2>1. app' = [app EXCEPT !.signedIn = TRUE] \/ app' = app
    BY DEF DashboardArrives
  <2>2. QED
    BY <1>1, <2>1 DEF TypesHold, AppOK
<1>5. GivesUp(native') /\ AsideOK' /\ FaultsOK'
  <2>1. CASE UNCHANGED <<aside, native, faults>>
    BY <1>1, <2>1 DEF GivesUp, TypesHold, NativeOK, AsideOK, FaultsOK
  <2>2. CASE \E why \in {"expiry", "refresh"} :
               AsideBegins(why) /\ (Fails \/ UNCHANGED faults)
    BY <1>1, <2>2, AsideBegun DEF Fails, TypesHold, FaultsOK
  <2>3. QED
    BY <2>1, <2>2 DEF DashboardArrives
<1>6. QED
  BY <1>1, <1>2, <1>3, <1>4, <1>5, StandsAside DEF TypesHold, ServerOK, AdvanceOK, ActionsOK

LEMMA ReadAnsweredWell ==
  ASSUME TrackingInv, NEW r \in Reads, ReadAnswered(r)
  PROVE  TypesHold' /\ Decides
<1>1. TypesHold
  BY DEF TrackingInv
<1>2. UNCHANGED <<server, app, advance, actions, running, aside, runtime, native, setup, worker,
                  tasks, events>>
  BY DEF ReadAnswered, workerVars
<1>3. Authority \in Says \cup {"failed", "unauthorized"}
  BY DEF Authority
<1>4. ReadsOK'
  <2>1. PICK says \in Says \cup {"failed", "unauthorized"} :
           reads' = [reads EXCEPT ![r].step = "answered", ![r].says = says]
    BY <1>3 DEF ReadAnswered
  <2>2. reads[r] \in Readings
    BY <1>1 DEF TypesHold, ReadsOK
  <2>3. [reads[r] EXCEPT !.step = "answered", !.says = says] \in Readings
    BY <2>2 DEF Readings
  <2>4. reads' = [reads EXCEPT ![r] = [reads[r] EXCEPT !.step = "answered", !.says = says]]
    BY <1>1, <2>1 DEF TypesHold, ReadsOK
  <2>5. QED
    BY <1>1, <2>3, <2>4 DEF TypesHold, ReadsOK
<1>5. FaultsOK'
  BY <1>1 DEF ReadAnswered, Fails, TypesHold, FaultsOK
<1>6. GivesUp(native')
  BY <1>1, <1>2 DEF GivesUp, TypesHold, NativeOK
<1>7. QED
  BY <1>1, <1>2, <1>4, <1>5, <1>6, StandsAside DEF TypesHold, ServerOK, AppOK, AdvanceOK,
    ActionsOK, AsideOK

LEMMA ActionQueued ==
  ASSUME ActionsOK, NEW by \in Reads \cup {"advance"}, NEW says \in Says,
         NEW revision \in Nat, Queues(by, says, revision)
  PROVE  ActionsOK'
<1>1. [by |-> by, says |-> says, revision |-> revision] \in Queued
  BY DEF Queued
<1>2. QED
  BY <1>1, Appended DEF Queues, ActionsOK

LEMMA ReadArrivesWell ==
  ASSUME TrackingInv, NEW r \in Reads, ReadArrives(r)
  PROVE  TypesHold' /\ Decides
<1> DEFINE says == reads[r].says
<1>1. TypesHold
  BY DEF TrackingInv
<1>2. UNCHANGED <<server, app, advance, running, runtime, setup, worker, tasks, events, faults>>
  BY DEF ReadArrives, workerVars
<1>3. reads[r] \in Readings
  BY <1>1 DEF TypesHold, ReadsOK
<1>4. reads[r].says \in Says \cup {"failed", "unauthorized"} /\ reads[r].revision \in Nat
  BY <1>3 DEF Readings
<1>5. [reads[r] EXCEPT !.step = "claimed"] \in Readings
  BY <1>3 DEF Readings
<1>6. \A b \in BOOLEAN : [reads[r] EXCEPT !.step = "queued", !.off = b] \in Readings
  BY <1>3 DEF Readings
<1>7. CASE says = "unauthorized"
  <2>1. /\ AsideBegins("expiry") /\ UNCHANGED actions
        /\ reads' = [reads EXCEPT ![r] = [NoRead EXCEPT !.step = "done"]]
    BY <1>7 DEF ReadArrives
  <2>2. ReadsOK'
    BY <1>1, <2>1, Resets DEF TypesHold, ReadsOK
  <2>3. GivesUp(native') /\ AsideOK'
    BY <1>1, <2>1, AsideBegun
  <2>4. QED
    BY <1>1, <1>2, <2>1, <2>2, <2>3, StandsAside DEF TypesHold, ServerOK, AppOK, AdvanceOK,
      ActionsOK, FaultsOK
<1>8. CASE says = "failed" /\ reads[r].off
  <2>1. /\ UNCHANGED <<actions, aside, native>>
        /\ \/ reads' = [reads EXCEPT ![r] = [reads[r] EXCEPT !.step = "claimed"]]
           \/ reads' = [reads EXCEPT ![r] = [NoRead EXCEPT !.step = "done"]]
    BY <1>1, <1>8 DEF ReadArrives, TypesHold, ReadsOK
  <2>2. ReadsOK'
    BY <1>1, <1>5, <2>1, Resets DEF TypesHold, ReadsOK
  <2>3. GivesUp(native')
    BY <1>1, <2>1 DEF GivesUp, TypesHold, NativeOK
  <2>4. QED
    BY <1>1, <1>2, <2>1, <2>2, <2>3, StandsAside DEF TypesHold, ServerOK, AppOK, AdvanceOK,
      ActionsOK, AsideOK, FaultsOK
<1>9. CASE ~(says = "unauthorized") /\ ~(says = "failed" /\ reads[r].off)
  <2>1. /\ UNCHANGED <<aside, native>>
        /\ Queues(r, IF says = "failed" THEN "off" ELSE says, reads[r].revision)
        /\ reads' = [reads EXCEPT ![r].step = "queued",
                                  ![r].off = @ \/ says = "failed"]
    BY <1>9 DEF ReadArrives
  <2>2. PICK b \in BOOLEAN :
           reads' = [reads EXCEPT ![r].step = "queued", ![r].off = b]
    BY <2>1
  <2>3. reads' = [reads EXCEPT ![r] = [reads[r] EXCEPT !.step = "queued", !.off = b]]
    BY <1>1, <2>2 DEF TypesHold, ReadsOK
  <2>4. ReadsOK'
    BY <1>1, <1>6, <2>3 DEF TypesHold, ReadsOK
  <2>5. (IF says = "failed" THEN "off" ELSE says) \in Says
    BY <1>4, <1>9
  <2>6. ActionsOK'
    BY <1>1, <1>4, <2>1, <2>5, ActionQueued DEF TypesHold
  <2>7. GivesUp(native')
    BY <1>1, <2>1 DEF GivesUp, TypesHold, NativeOK
  <2>8. QED
    BY <1>1, <1>2, <2>1, <2>4, <2>6, <2>7, StandsAside DEF TypesHold, ServerOK, AppOK,
      AdvanceOK, AsideOK, FaultsOK
<1>10. QED
  BY <1>7, <1>8, <1>9

LEMMA AdvanceSentWell ==
  ASSUME TrackingInv, AdvanceSent
  PROVE  TypesHold' /\ Decides
<1>1. TypesHold
  BY DEF TrackingInv
<1>2. UNCHANGED <<app, reads, actions, running, aside, runtime, native, setup, worker, tasks,
                  events, faults>>
  BY DEF AdvanceSent, workerVars
<1>3. ServerOK' /\ AdvanceOK'
  <2>1. CASE server.bearer /\ server.job # "off"
    <3>1. NextStatus[server.job] \in Says
      BY <1>1, <2>1 DEF NextStatus, TypesHold, ServerOK
    <3>2. server' = [server EXCEPT !.job = NextStatus[@]]
          /\ advance' = [step |-> "sent", says |-> server'.job]
      BY <2>1 DEF AdvanceSent
    <3>3. server'.job = NextStatus[server.job] /\ ServerOK'
      BY <1>1, <3>1, <3>2 DEF TypesHold, ServerOK
    <3>4. QED
      BY <3>1, <3>2, <3>3 DEF AdvanceOK, Advances
  <2>2. CASE ~(server.bearer /\ server.job # "off")
    BY <1>1, <2>2 DEF AdvanceSent, TypesHold, ServerOK, AdvanceOK, Advances
  <2>3. QED
    BY <2>1, <2>2
<1>4. GivesUp(native')
  BY <1>1, <1>2 DEF GivesUp, TypesHold, NativeOK
<1>5. QED
  BY <1>1, <1>2, <1>3, <1>4, StandsAside DEF TypesHold, AppOK, ReadsOK, ActionsOK, AsideOK,
    FaultsOK

LEMMA AdvanceArrivesWell ==
  ASSUME TrackingInv, AdvanceArrives
  PROVE  TypesHold' /\ Decides
<1>1. TypesHold
  BY DEF TrackingInv
<1>2. UNCHANGED <<server, reads, running, runtime, setup, worker, tasks, events>>
  BY DEF AdvanceArrives, workerVars
<1>3. advance \in Advances /\ app.revision \in Nat
  BY <1>1 DEF TypesHold, AdvanceOK, AppOK
<1>4. CASE /\ advance.says \in Says
           /\ app' = [app EXCEPT !.revision = @ + 1]
           /\ Queues("advance", advance.says, app.revision + 1)
           /\ advance' = [advance EXCEPT !.step = "queued"]
           /\ UNCHANGED <<aside, native, faults>>
  <2>1. AppOK' /\ AdvanceOK'
    BY <1>1, <1>3, <1>4 DEF TypesHold, AppOK, AdvanceOK, Advances
  <2>2. app.revision + 1 \in Nat
    BY <1>3
  <2>3. ActionsOK'
    BY <1>1, <1>4, <2>2, ActionQueued DEF TypesHold
  <2>4. GivesUp(native')
    BY <1>1, <1>4 DEF GivesUp, TypesHold, NativeOK
  <2>5. QED
    BY <1>1, <1>2, <1>4, <2>1, <2>3, <2>4, StandsAside DEF TypesHold, ServerOK, ReadsOK,
      AsideOK, FaultsOK
<1>5. CASE /\ AsideBegins("expiry")
           /\ advance' = [step |-> "idle", says |-> "off"]
           /\ UNCHANGED <<app, actions, faults>>
  <2>1. GivesUp(native') /\ AsideOK'
    BY <1>1, <1>5, AsideBegun
  <2>2. AdvanceOK'
    BY <1>5 DEF AdvanceOK, Advances
  <2>3. QED
    BY <1>1, <1>2, <1>5, <2>1, <2>2, StandsAside DEF TypesHold, ServerOK, ReadsOK, AppOK,
      ActionsOK, FaultsOK
<1>6. CASE /\ UNCHANGED faults \/ Fails
           /\ advance' = [step |-> "idle", says |-> "off"]
           /\ UNCHANGED <<app, actions, aside, native>>
  <2>1. AdvanceOK'
    BY <1>6 DEF AdvanceOK, Advances
  <2>2. FaultsOK'
    BY <1>1, <1>6 DEF Fails, TypesHold, FaultsOK
  <2>3. GivesUp(native')
    BY <1>1, <1>6 DEF GivesUp, TypesHold, NativeOK
  <2>4. QED
    BY <1>1, <1>2, <1>6, <2>1, <2>2, <2>3, StandsAside DEF TypesHold, ServerOK, ReadsOK, AppOK,
      ActionsOK, AsideOK
<1>7. QED
  BY <1>4, <1>5, <1>6 DEF AdvanceArrives

LEMMA AsideWell ==
  ASSUME TrackingInv, LogoutBegins \/ AsideEnds
  PROVE  TypesHold' /\ Decides
<1>1. TypesHold
  BY DEF TrackingInv
<1>2. CASE LogoutBegins
  <2>1. UNCHANGED <<server, app, reads, advance, actions, running, runtime, setup, worker, tasks,
                    events, faults>>
    BY <1>2 DEF LogoutBegins, workerVars
  <2>2. GivesUp(native') /\ AsideOK'
    BY <1>1, <1>2, AsideBegun DEF LogoutBegins
  <2>3. QED
    BY <1>1, <2>1, <2>2, StandsAside DEF TypesHold, ServerOK, AppOK, ReadsOK, AdvanceOK,
      ActionsOK, FaultsOK
<1>3. CASE AsideEnds
  <2>1. /\ UNCHANGED <<reads, advance, actions, running, native, setup, worker, tasks, events>>
        /\ runtime' = NoRuntime
    BY <1>3 DEF AsideEnds, workerVars
  <2>2. ServerOK' /\ FaultsOK'
    <3>1. [server EXCEPT !.bearer = FALSE]
            \in [job : {"assigned", "off"} \cup Trackable, bearer : BOOLEAN]
      BY <1>1 DEF TypesHold, ServerOK
    <3>2. server' = server \/ server' = [server EXCEPT !.bearer = FALSE]
      BY <1>3 DEF AsideEnds
    <3>3. faults' = faults \/ (faults < MaxFaults /\ faults' = faults + 1)
      BY <1>3 DEF AsideEnds, Fails
    <3>4. ServerOK'
      BY <1>1, <3>1, <3>2 DEF TypesHold, ServerOK
    <3>5. FaultsOK'
      BY <1>1, <3>3 DEF TypesHold, FaultsOK
    <3>6. QED
      BY <3>4, <3>5
  <2>3. AppOK' /\ AsideOK'
    BY <1>1, <1>3 DEF AsideEnds, TypesHold, AppOK, AsideOK, Asides
  <2>4. GivesUp(native')
    BY <1>1, <2>1 DEF GivesUp, TypesHold, NativeOK
  <2>5. QED
    BY <1>1, <2>1, <2>2, <2>3, <2>4, StandsAside DEF TypesHold, ReadsOK, AdvanceOK, ActionsOK
<1>4. QED
  BY <1>2, <1>3

LEMMA AuthorityEndsWell ==
  ASSUME TrackingInv, AuthorityEnds
  PROVE  TypesHold' /\ Decides
<1>1. TypesHold
  BY DEF TrackingInv
<1>2. UNCHANGED <<app, reads, advance, actions, running, aside, runtime, native, setup, worker,
                  tasks, events, faults>>
  BY DEF AuthorityEnds, appVars, workerVars
<1>3. ServerOK'
  BY <1>1 DEF AuthorityEnds, TypesHold, ServerOK
<1>4. GivesUp(native')
  BY <1>1, <1>2 DEF GivesUp, TypesHold, NativeOK
<1>5. QED
  BY <1>1, <1>2, <1>3, <1>4, StandsAside DEF TypesHold, AppOK, ReadsOK, AdvanceOK, ActionsOK,
    AsideOK, FaultsOK

(* The action at the head is over, with a collector or with none.          *)
LEMMA ActionEndsWell ==
  ASSUME TrackingInv, NEW again, Ends(running.by, again),
         UNCHANGED <<server, app, actions, aside, setup, worker, tasks, events>>,
         FaultsOK', GivesUp(native'), runtime' = runtime \/ runtime' = NoRuntime
  PROVE  TypesHold' /\ Decides
<1>1. TypesHold
  BY DEF TrackingInv
<1>2. running.by \in Reads \cup {"advance"}
  BY <1>1 DEF TypesHold, RunningOK, Runnings
<1>3. ReadsOK' /\ AdvanceOK' /\ running' = NoAction
  BY <1>1, <1>2, Ended DEF TypesHold
<1>4. TypesHold'
  BY <1>1, <1>3, Resets DEF TypesHold, ServerOK, AppOK, ActionsOK, RunningOK, AsideOK, RuntimeOK,
    NativeOK, SetupOK, WorkerOK, TasksOK, EventsOK, GivesUp
<1>5. QED
  BY <1>3, <1>4, Resets DEF Decides, GivesUp

LEMMA CollectorReadyWell ==
  ASSUME TrackingInv, CollectorReady
  PROVE  TypesHold' /\ Decides
<1>1. TypesHold
  BY DEF TrackingInv
<1>2. /\ UNCHANGED <<server, app, actions, aside, runtime, native, setup, worker, tasks, events,
                     faults>>
      /\ Ends(running.by, FALSE)
  BY DEF CollectorReady, workerVars
<1>3. GivesUp(native') /\ FaultsOK'
  BY <1>1, <1>2 DEF GivesUp, TypesHold, NativeOK, FaultsOK
<1>4. QED
  BY <1>2, <1>3, ActionEndsWell

(* Android refuses to start the service.                                   *)
ServiceRefused ==
  /\ running.step = "starting" /\ Fails
  /\ native' = [native EXCEPT !.gen = IF @ = native.last THEN None ELSE @]
  /\ runtime' = NoRuntime /\ Ends(running.by, FALSE)
  /\ UNCHANGED <<server, app, actions, aside, setup, worker, tasks, events>>

LEMMA ServiceRefusedWell ==
  ASSUME TrackingInv, ServiceRefused
  PROVE  TypesHold' /\ Decides
<1>1. TypesHold /\ NativeHolds
  BY DEF TrackingInv
<1>2. GivesUp(native')
  <2>1. native'.gen = None /\ native'.pending = native.service
    BY <1>1 DEF ServiceRefused, NativeHolds, TypesHold, NativeOK, Natives
  <2>2. native' \in Natives /\ native'.last = native.last /\ native'.service = native.service
    BY <1>1 DEF ServiceRefused, TypesHold, NativeOK, Natives
  <2>3. QED
    BY <2>1, <2>2 DEF GivesUp
<1>3. FaultsOK'
  BY <1>1 DEF ServiceRefused, Fails, TypesHold, FaultsOK
<1>4. QED
  BY <1>2, <1>3, ActionEndsWell DEF ServiceRefused

(* The generations that anyone has heard of are numbers.                   *)
LEMMA Numbers ==
  ASSUME TypesHold
  PROVE  /\ \A i \in DOMAIN events : events[i] \in Messages /\ events[i].gen \in Nat
         /\ worker.owner \in Nat /\ worker.stream.gen \in Nat /\ worker.config.gen \in Nat
         /\ setup.now.config.gen \in Nat /\ \A t \in tasks : t.config.gen \in Nat
         /\ \A i \in DOMAIN setup.inbox : setup.inbox[i] \in Configs /\ setup.inbox[i].gen \in Nat
         /\ runtime.gen \in Nat
<1>1. /\ \A i \in DOMAIN events : events[i] \in Messages
      /\ \A i \in DOMAIN setup.inbox : setup.inbox[i] \in Configs
  BY Members DEF TypesHold, EventsOK, SetupOK
<1>2. \A e \in Messages : e.gen \in Nat
  BY GenerationFacts DEF Messages
<1>3. \A c \in Configs \cup {NoConfig} : c.gen \in Nat
  BY Resets, GenerationFacts
<1>4. /\ worker.stream \in Configs \cup {NoConfig} /\ worker.config \in Configs \cup {NoConfig}
      /\ worker.owner \in Generations \cup {None}
  BY DEF TypesHold, WorkerOK, Workers
<1>5. setup.now.config \in Configs \cup {NoConfig}
  BY DEF TypesHold, SetupOK, Setups
<1>6. \A t \in tasks : t.config \in Configs
  BY DEF TypesHold, TasksOK, Tasks
<1>7. runtime.gen \in Generations \cup {None}
  BY DEF TypesHold, RuntimeOK, Runtimes
<1>8. QED
  BY <1>1, <1>2, <1>3, <1>4, <1>5, <1>6, <1>7, GenerationFacts

(* What the app decides keeps the invariant.                               *)
LEMMA DecidesKeeps ==
  ASSUME TrackingInv, TypesHold', Decides
  PROVE  TrackingInv'
<1>1. /\ TypesHold /\ NativeHolds /\ GensAreKnown /\ StreamHolds /\ SetupsAreInOrder
      /\ BeliefsAreTrue
  BY DEF TrackingInv
<1>2. native \in Natives /\ native' \in Natives
  BY <1>1 DEF TypesHold, NativeOK
<1>3. /\ native.last \in Nat /\ native'.last \in Nat
      /\ native.service \in BOOLEAN /\ native.pending \in BOOLEAN
  BY <1>2, GenerationFacts DEF Natives
<1>4. \/ GivesUp(native')
      \/ /\ native'.gen = native.last + 1 /\ native'.last = native.last + 1
         /\ native'.pending = FALSE /\ native'.stopped = native.stopped
         /\ MayClaim
  BY <1>1, ClaimMade DEF Decides, TypesHold
<1>5. native.last <= native'.last
  BY <1>3, <1>4 DEF GivesUp
<1>6. NativeHolds'
  <2>1. native'.gen \in {None, native'.last}
    BY <1>1, <1>4 DEF NativeHolds, GivesUp
  <2>2. native'.pending => native'.service /\ native'.gen = None
    BY <1>1, <1>4 DEF NativeHolds, GivesUp
  <2>3. native'.service /\ ~native'.pending => native'.stopped = {} /\ ~worker'.stopped
    <3>1. CASE native' = native
      BY <1>1, <3>1 DEF Decides, NativeHolds
    <3>2. CASE native'.gen = None /\ native'.pending = native.service /\ GivesUp(native')
      BY <3>2 DEF GivesUp
    <3>3. CASE MayClaim /\ native'.stopped = native.stopped
      BY <1>1, <3>3 DEF Decides, NativeHolds, MayClaim
    <3>4. QED
      BY <1>4, <3>1, <3>2, <3>3 DEF GivesUp
  <2>4. ~native'.service => /\ worker' = Dead /\ tasks' = {}
                            /\ setup' = [inbox |-> <<>>, now |-> NoSetup]
    BY <1>1 DEF Decides, NativeHolds
  <2>5. running'.step = "starting" => ~native'.service /\ runtime' = NoRuntime
    BY DEF Decides
  <2>6. QED
    BY <2>1, <2>2, <2>3, <2>4, <2>5 DEF NativeHolds
<1>7. /\ \A i \in DOMAIN events : events[i] \in Messages /\ events[i].gen \in Nat
      /\ worker.owner \in Nat /\ worker.stream.gen \in Nat /\ worker.config.gen \in Nat
      /\ setup.now.config.gen \in Nat /\ \A t \in tasks : t.config.gen \in Nat
      /\ \A i \in DOMAIN setup.inbox : setup.inbox[i] \in Configs /\ setup.inbox[i].gen \in Nat
      /\ runtime.gen \in Nat
  BY <1>1, Numbers
<1>8. GensAreKnown'
  <2>1. \A n \in Nat : n <= native.last => n <= native'.last
    BY <1>3, <1>5
  <2>2. runtime'.gen \in {0, runtime.gen, native'.last}
    BY Resets DEF Decides
  <2>3. runtime'.gen <= native'.last
    BY <1>1, <1>3, <1>7, <2>1, <2>2 DEF GensAreKnown, Known
  <2>4. \A i \in DOMAIN setup'.inbox : setup'.inbox[i].gen <= native'.last
    <3>1. CASE setup' = setup
      BY <1>1, <1>7, <2>1, <3>1 DEF GensAreKnown, Known
    <3>2. CASE \E c \in Configs : c.gen <= native'.last /\ setup'.inbox = Append(setup.inbox, c)
      <4>1. PICK c \in Configs : c.gen <= native'.last /\ setup'.inbox = Append(setup.inbox, c)
        BY <3>2
      <4>2. /\ setup.inbox \in Seq(Configs) /\ Len(setup.inbox) \in Nat
            /\ DOMAIN setup.inbox = 1 .. Len(setup.inbox)
        BY <1>1, Members DEF TypesHold, SetupOK
      <4>3. /\ DOMAIN setup'.inbox = 1 .. Len(setup.inbox) + 1
            /\ \A i \in DOMAIN setup.inbox : setup'.inbox[i] = setup.inbox[i]
            /\ setup'.inbox[Len(setup.inbox) + 1] = c
        BY <4>1, <4>2, Appended
      <4>4. \A i \in DOMAIN setup'.inbox : i \in DOMAIN setup.inbox \/ i = Len(setup.inbox) + 1
        BY <4>2, <4>3
      <4>5. QED
        BY <1>1, <1>7, <2>1, <4>1, <4>3, <4>4 DEF GensAreKnown, Known
    <3>3. QED
      BY <3>1, <3>2 DEF Decides
  <2>5. running'.step = "starting" => \A i \in DOMAIN events : events[i].gen # native'.last
    BY <1>1, <1>3, <1>7 DEF Decides, GensAreKnown, Known
  <2>6. QED
    BY <1>1, <1>7, <2>1, <2>3, <2>4, <2>5 DEF Decides, GensAreKnown, Known
<1>9. StreamHolds'
  BY <1>1 DEF Decides, StreamHolds
<1>10. native'.gen \in {native.gen, None} \/ native'.gen = native.last + 1
  BY <1>4 DEF GivesUp
<1>11. SetupsAreInOrder'
  <2>1. CASE native'.gen = native.last + 1 /\ ~runtime'.active
    <3>1. \A n \in Nat : n <= native.last => n # native'.gen
      BY <1>3, <2>1
    <3>2. Fresh(native.gen)'
      BY <1>1, <1>7, <2>1, <3>1 DEF Decides, GensAreKnown, Known, Fresh
    <3>3. QED
      BY <3>2 DEF SetupsAreInOrder
  <2>2. CASE native'.gen = native.gen /\ (runtime'.active => runtime' = runtime)
    BY <1>1, <2>2 DEF Decides, SetupsAreInOrder, Fresh
  <2>3. CASE native'.gen = None
    BY <2>3 DEF SetupsAreInOrder
  <2>4. CASE GivesUp(native')
    <3>1. runtime'.active => runtime' = runtime
      BY <1>1, <2>4, Resets, ClaimMade DEF Decides, TypesHold, GivesUp
    <3>2. QED
      BY <2>2, <2>3, <2>4, <3>1 DEF GivesUp
  <2>5. CASE native' = Claimed /\ MayClaim /\ ~runtime'.active
    BY <1>1, <2>1, <2>5, ClaimMade DEF TypesHold
  <2>6. QED
    BY <2>4, <2>5 DEF Decides
<1>12. BeliefsAreTrue'
  <2> SUFFICES ASSUME native'.gen # None, runtime'.gen = native'.gen, native'.service,
                      Believed'
               PROVE  worker'.stream.gen = native'.gen \/ Busy(native.gen)'
    BY DEF BeliefsAreTrue
  <2>1. native' = native
    <3>1. CASE GivesUp(native')
      BY <3>1 DEF GivesUp
    <3>2. CASE native'.gen = native.last + 1 /\ ~runtime'.active
      <4>1. \A i \in DOMAIN events : events[i].gen # runtime'.gen
        BY <1>1, <1>3, <1>7, <3>2 DEF GensAreKnown, Known
      <4>2. QED
        BY <3>2, <4>1 DEF Decides, Believed
    <3>3. QED
      BY <1>4, <3>1, <3>2, ClaimMade DEF Decides
  <2>2. runtime'.gen = runtime.gen /\ (runtime'.active => runtime.active)
    <3>1. ASSUME native' = Claimed, MayClaim PROVE FALSE
      <4>1. native'.last = native.last + 1
        BY <1>1, <3>1, ClaimMade DEF TypesHold
      <4>2. QED
        BY <1>3, <2>1, <4>1
    <3>2. runtime' = runtime \/ (runtime'.gen = runtime.gen /\ ~runtime'.active)
      BY <3>1, Resets DEF Decides
    <3>3. QED
      BY <3>2
  <2>3. Believed
    BY <2>2 DEF Believed, LastWord, Decides
  <2>4. worker.stream.gen = native.gen \/ Busy(native.gen)
    BY <1>1, <2>1, <2>2, <2>3 DEF BeliefsAreTrue
  <2>5. QED
    BY <2>1, <2>4 DEF Decides, Busy, PausedFor
<1>13. QED
  BY <1>6, <1>8, <1>9, <1>11, <1>12 DEF TrackingInv

-----------------------------------------------------------------------------
(* The service starts, and ends.                                           *)

LEMMA ServiceStartsKeeps ==
  ASSUME TrackingInv, ServiceStarts
  PROVE  TrackingInv'
<1>1. CASE ServiceRefused
  BY <1>1, ServiceRefusedWell, DecidesKeeps
<1>2. CASE ~ServiceRefused
  <2> DEFINE c == [gen |-> native.last, status |-> running.says, by |-> "app"]
  <2>1. /\ TypesHold /\ NativeHolds /\ GensAreKnown /\ StreamHolds /\ SetupsAreInOrder
        /\ BeliefsAreTrue
    BY DEF TrackingInv
  <2>2. /\ running.step = "starting"
        /\ native' = [native EXCEPT !.service = TRUE, !.stopped = {}]
        /\ worker' = Blank
        /\ Configures("start", running.by, c)
        /\ UNCHANGED <<server, app, reads, advance, actions, aside, tasks, events, faults>>
    BY <1>2 DEF ServiceStarts, ServiceRefused
  <2>3. /\ ~native.service /\ tasks = {} /\ setup = [inbox |-> <<>>, now |-> NoSetup]
        /\ native.last \in Generations
        /\ running.says \in Trackable /\ running.by \in Reads \cup {"advance"}
    BY <2>1, <2>2 DEF NativeHolds, TypesHold, RunningOK, Runnings
  <2>4. native' \in Natives /\ native'.gen = native.gen /\ native'.last = native.last
        /\ native'.pending = native.pending /\ native'.service = TRUE /\ native'.stopped = {}
    BY <2>1, <2>2 DEF TypesHold, NativeOK, Natives
  <2>5. /\ c \in Configs /\ RunningOK' /\ RuntimeOK' /\ SetupOK'
        /\ runtime'.gen = native.last /\ ~runtime'.active /\ running'.step = "awaiting"
        /\ setup'.now = setup.now
        /\ setup'.inbox \in {setup.inbox, Append(setup.inbox, c)}
    <3> DEFINE g == native.last
               says == running.says
               by == running.by
    <3>1. /\ g \in Generations /\ says \in Trackable /\ by \in Reads \cup {"advance"}
          /\ native'.last \in Generations /\ SetupOK /\ Configures("start", by, c)
          /\ c = [gen |-> g, status |-> says, by |-> "app"]
      BY <2>1, <2>2, <2>3, <2>4 DEF TypesHold
    <3> HIDE DEF g, says, by, c
    <3>2. /\ c \in Configs /\ RunningOK' /\ RuntimeOK' /\ SetupOK'
          /\ runtime'.gen = g /\ ~runtime'.active /\ running'.step = "awaiting"
          /\ setup'.now = setup.now
          /\ setup'.inbox \in {setup.inbox, Append(setup.inbox, c)}
      BY <3>1, Configured
    <3>3. QED
      BY <3>2 DEF g
  <2>6. c.gen = native.last
    OBVIOUS
  <2> HIDE DEF c
  <2>7. TypesHold'
    BY <2>1, <2>2, <2>4, <2>5, Workless DEF TypesHold, ServerOK, AppOK, ReadsOK, AdvanceOK,
      ActionsOK, AsideOK, NativeOK, WorkerOK, TasksOK, EventsOK, FaultsOK
  <2>8. setup'.now = NoSetup /\ setup'.now.step = "idle" /\ setup'.now.config.gen = 0
    BY <2>3, <2>5, Resets
  <2>9. NativeHolds'
    BY <2>1, <2>2, <2>3, <2>4, <2>5, Workless DEF NativeHolds
  <2>10. GensAreKnown'
    <3>1. native.last \in Nat
      BY <2>3, GenerationFacts
    <3>2. \A i \in DOMAIN setup'.inbox : setup'.inbox[i].gen = native.last
      <4>1. setup.inbox = <<>>
        BY <2>3
      <4>2. setup'.inbox = <<>> \/ setup'.inbox = <<c>>
        BY <2>5, <4>1
      <4>3. QED
        BY <2>6, <4>2
    <3>3. QED
      BY <2>1, <2>2, <2>3, <2>4, <2>5, <2>8, <3>1, <3>2, Workless, Resets DEF GensAreKnown, Known
  <2>11. StreamHolds'
    BY <2>2, <2>8, Workless DEF StreamHolds
  <2>12. SetupsAreInOrder'
    BY <2>8 DEF SetupsAreInOrder
  <2>13. BeliefsAreTrue'
    <3>1. \A i \in DOMAIN events : events[i].gen # native.last
      BY <2>1, <2>2 DEF GensAreKnown
    <3>2. QED
      BY <2>2, <2>5, <3>1 DEF BeliefsAreTrue, Believed
  <2>14. QED
    BY <2>7, <2>9, <2>10, <2>11, <2>12, <2>13 DEF TrackingInv
<1>3. QED
  BY <1>1, <1>2

LEMMA ServiceEndsKeeps ==
  ASSUME TrackingInv, ServiceEnds
  PROVE  TrackingInv'
<1>1. /\ TypesHold /\ NativeHolds /\ GensAreKnown /\ StreamHolds /\ SetupsAreInOrder
      /\ BeliefsAreTrue
  BY DEF TrackingInv
<1>2. /\ native.pending /\ native.gen = None /\ native.service
      /\ UNCHANGED <<server, app, reads, advance, actions, running, aside, runtime, events,
                     faults>>
      /\ worker' = Dead /\ setup' = [inbox |-> <<>>, now |-> NoSetup] /\ tasks' = {}
  BY <1>1 DEF ServiceEnds, appVars, NativeHolds
<1>3. native' \in Natives /\ native'.gen = None /\ native'.last = native.last
      /\ native'.pending = FALSE /\ native'.service = FALSE
  BY <1>1, <1>2 DEF ServiceEnds, TypesHold, NativeOK, Natives
<1>4. setup'.now = NoSetup /\ setup'.inbox = <<>>
  BY <1>2
<1>5. TypesHold'
  <2>1. SetupOK'
    BY <1>2, Resets DEF SetupOK
  <2>2. QED
    BY <1>1, <1>2, <1>3, <2>1, Workless DEF TypesHold, ServerOK, AppOK, ReadsOK, AdvanceOK,
      ActionsOK, RunningOK, AsideOK, RuntimeOK, NativeOK, WorkerOK, TasksOK, EventsOK, FaultsOK
<1>6. NativeHolds'
  BY <1>1, <1>2, <1>3 DEF NativeHolds
<1>7. GensAreKnown'
  <2>1. native.last \in Nat /\ 0 <= native.last
    BY <1>1, GenerationFacts DEF TypesHold, NativeOK, Natives
  <2>2. QED
    BY <1>1, <1>2, <1>3, <1>4, <2>1, Workless, Resets DEF GensAreKnown, Known
<1>8. StreamHolds'
  BY <1>2, <1>4, Workless, Resets DEF StreamHolds
<1>9. SetupsAreInOrder' /\ BeliefsAreTrue'
  BY <1>3 DEF SetupsAreInOrder, BeliefsAreTrue
<1>10. QED
  BY <1>5, <1>6, <1>7, <1>8, <1>9 DEF TrackingInv

-----------------------------------------------------------------------------
(* The app takes in the next message.                                      *)

LEMMA Heard ==
  ASSUME TrackingInv, EventArrives
  PROVE  /\ TypesHold' /\ UNCHANGED <<setup, worker, tasks>>
         /\ events # <<>> /\ events' = Tail(events) /\ running'.step = running.step
         /\ GivesUp(native')
         /\ \/ /\ native' = native /\ runtime' = runtime
               /\ events[1].gen # runtime.gen
            \/ /\ native' = native /\ runtime'.gen = runtime.gen /\ events[1].gen = runtime.gen
               /\ runtime'.active => events[1].is \in Alive
            \/ runtime' = NoRuntime
<1> DEFINE e == events[1]
<1>1. TypesHold
  BY DEF TrackingInv
<1>2. /\ UNCHANGED <<server, app, advance, actions, setup, worker, tasks, faults>>
      /\ events # <<>> /\ events' = Tail(events)
  BY DEF EventArrives, workerVars
<1>3. e \in Messages /\ EventsOK' /\ e = Head(events)
  BY <1>1, <1>2, Members DEF TypesHold, EventsOK
<1>4. e.gen \in Generations /\ e.gen # None
  BY <1>3, GenerationFacts DEF Messages
<1>5. /\ [running EXCEPT !.ack = "yes"] \in Runnings /\ [running EXCEPT !.ack = "no"] \in Runnings
      /\ [running EXCEPT !.ack = "yes"].step = running.step
      /\ [running EXCEPT !.ack = "no"].step = running.step
      /\ [running EXCEPT !.ack = "yes"].says = running.says
      /\ [running EXCEPT !.ack = "no"].says = running.says
  BY <1>1 DEF TypesHold, RunningOK, Runnings
<1>6. \A is \in {"yes", "no"} : Acknowledged(is) =>
        running' \in Runnings /\ running'.step = running.step /\ running'.says = running.says
  BY <1>1, <1>5 DEF Acknowledged, TypesHold, RunningOK
<1>7. GivesUp(native)
  BY <1>1 DEF GivesUp, TypesHold, NativeOK
<1>8. \A b \in BOOLEAN :
        /\ [runtime EXCEPT !.active = b] \in Runtimes
        /\ [runtime EXCEPT !.active = b].gen = runtime.gen
        /\ [runtime EXCEPT !.active = b].active = b
  BY <1>1 DEF TypesHold, RuntimeOK, Runtimes
<1> HIDE DEF e
<1>9. CASE e.gen # runtime.gen
  <2>1. UNCHANGED <<runtime, running, aside, native, reads>>
    BY <1>3, <1>9 DEF EventArrives, OfThisGeneration
  <2>2. TypesHold'
    BY <1>1, <1>2, <1>3, <2>1 DEF TypesHold, ServerOK, AppOK, ReadsOK, AdvanceOK, ActionsOK,
      RunningOK, AsideOK, RuntimeOK, NativeOK, SetupOK, WorkerOK, TasksOK, FaultsOK
  <2>3. QED
    BY <1>2, <1>7, <1>9, <2>1, <2>2 DEF e
<1>10. CASE e.gen = runtime.gen /\ e.is \in Alive
  <2>1. /\ runtime' = [runtime EXCEPT !.active = TRUE]
        /\ Acknowledged("yes") \/ UNCHANGED running
        /\ UNCHANGED <<aside, native, reads>>
    BY <1>3, <1>10 DEF EventArrives, OfThisGeneration, Alive
  <2>2. running' \in Runnings /\ running'.step = running.step /\ running'.says = running.says
    BY <1>1, <1>6, <2>1 DEF TypesHold, RunningOK
  <2>3. runtime' \in Runtimes /\ runtime'.gen = runtime.gen
    BY <1>8, <2>1
  <2>4. TypesHold'
    BY <1>1, <1>2, <1>3, <1>4, <1>10, <2>1, <2>2, <2>3 DEF TypesHold, ServerOK, AppOK, ReadsOK,
      AdvanceOK, ActionsOK, RunningOK, AsideOK, RuntimeOK, NativeOK, SetupOK, WorkerOK, TasksOK,
      FaultsOK
  <2>5. QED
    BY <1>2, <1>7, <1>10, <2>1, <2>2, <2>3, <2>4 DEF e
<1>11. CASE e.gen = runtime.gen /\ e.is = "paused"
  <2>1. /\ runtime' = [runtime EXCEPT !.active = FALSE]
        /\ UNCHANGED <<running, aside, native, reads>>
    BY <1>3, <1>11 DEF EventArrives, OfThisGeneration
  <2>2. runtime' \in Runtimes /\ runtime'.gen = runtime.gen /\ runtime'.active = FALSE
    BY <1>8, <2>1
  <2>3. TypesHold'
    BY <1>1, <1>2, <1>3, <2>1, <2>2 DEF TypesHold, ServerOK, AppOK, ReadsOK,
      AdvanceOK, ActionsOK, RunningOK, AsideOK, RuntimeOK, NativeOK, SetupOK, WorkerOK, TasksOK,
      FaultsOK
  <2>4. QED
    BY <1>2, <1>7, <1>11, <2>1, <2>2, <2>3 DEF e
<1>12. CASE e.gen = runtime.gen /\ e.is \notin Alive \cup {"paused"}
  <2>1. /\ runtime' = NoRuntime /\ Acknowledged("no")
        /\ \/ native' = StoppedForZero /\ aside' = [step |-> "stopping", why |-> "expiry"]
           \/ UNCHANGED <<aside, native>>
        /\ \/ reads' = [reads EXCEPT !["refresh"].step = "loading"]
           \/ UNCHANGED reads
    BY <1>3, <1>12 DEF EventArrives, OfThisGeneration, Alive
  <2>2. running' \in Runnings /\ running'.step = running.step /\ running'.says = running.says
    BY <1>6, <2>1
  <2>3. GivesUp(native') /\ AsideOK'
    BY <1>1, <1>7, <2>1, StopsGiveUp DEF TypesHold, AsideOK, Asides
  <2>4. ReadsOK'
    <3>1. [reads["refresh"] EXCEPT !.step = "loading"] \in Readings
      BY <1>1 DEF TypesHold, ReadsOK, Readings
    <3>2. \/ reads' = [reads EXCEPT !["refresh"] = [reads["refresh"] EXCEPT !.step = "loading"]]
          \/ UNCHANGED reads
      BY <1>1, <2>1 DEF TypesHold, ReadsOK
    <3>3. QED
      BY <1>1, <3>1, <3>2 DEF TypesHold, ReadsOK
  <2>5. TypesHold'
    BY <1>1, <1>2, <1>3, <2>1, <2>2, <2>3, <2>4, Resets DEF TypesHold, ServerOK, AppOK, AdvanceOK,
      ActionsOK, RunningOK, RuntimeOK, NativeOK, SetupOK, WorkerOK, TasksOK, FaultsOK, GivesUp
  <2>6. QED
    BY <1>2, <2>1, <2>2, <2>3, <2>5
<1>13. QED
  BY <1>9, <1>10, <1>11, <1>12

LEMMA EventArrivesKeeps ==
  ASSUME TrackingInv, EventArrives
  PROVE  TrackingInv'
<1>1. /\ TypesHold /\ NativeHolds /\ GensAreKnown /\ StreamHolds /\ SetupsAreInOrder
      /\ BeliefsAreTrue
  BY DEF TrackingInv
<1>2. /\ TypesHold' /\ UNCHANGED <<setup, worker, tasks>>
      /\ events # <<>> /\ events' = Tail(events) /\ running'.step = running.step
      /\ GivesUp(native')
  BY Heard
<1>3. \/ /\ native' = native /\ runtime' = runtime
         /\ events[1].gen # runtime.gen
      \/ /\ native' = native /\ runtime'.gen = runtime.gen /\ events[1].gen = runtime.gen
         /\ runtime'.active => events[1].is \in Alive
      \/ runtime' = NoRuntime
  BY Heard
<1>4. /\ 1 \in DOMAIN events /\ DOMAIN events = 1 .. Len(events) /\ Len(events) \in Nat
      /\ DOMAIN events' = 1 .. Len(events) - 1
      /\ \A i \in DOMAIN events' : events'[i] = events[i + 1] /\ i + 1 \in DOMAIN events
      /\ events[1].gen # 0
  <2>1. events \in Seq(Messages) /\ events' \in Seq(Messages)
    BY <1>1, <1>2, Members DEF TypesHold, EventsOK
  <2>2. \A e \in Messages : e.gen # 0
    BY GenerationFacts DEF Messages
  <2>3. QED
    BY <1>2, <2>1, <2>2, Members
<1>5. runtime'.gen \in {runtime.gen, 0}
  BY <1>3, Resets
<1>6. native'.last = native.last /\ native.last \in Nat /\ 0 <= native.last
  BY <1>1, <1>2, GenerationFacts DEF TypesHold, NativeOK, Natives, GivesUp
<1>7. NativeHolds'
  <2>1. running.step = "starting" => runtime' = NoRuntime
    BY <1>1, <1>3, <1>4, Resets DEF NativeHolds
  <2>2. QED
    BY <1>1, <1>2, <2>1 DEF NativeHolds, GivesUp
<1>8. GensAreKnown'
  BY <1>1, <1>2, <1>4, <1>5, <1>6 DEF GensAreKnown, Known
<1>9. StreamHolds'
  BY <1>1, <1>2 DEF StreamHolds
<1>10. CASE native'.gen # None
  <2>1. native' = native
    BY <1>2, <1>10 DEF GivesUp
  <2>2. SetupsAreInOrder'
    <3> SUFFICES ASSUME setup.now.step # "idle", setup.now.owned,
                        setup.now.config.gen # native.gen
                 PROVE  Fresh(native.gen)'
      BY <1>2, <2>1 DEF SetupsAreInOrder
    <3>1. Fresh(native.gen)
      BY <1>1, <1>10, <2>1 DEF SetupsAreInOrder
    <3>2. runtime'.gen = native.gen => ~runtime'.active
      BY <1>3, <1>4, <3>1, Resets DEF Fresh
    <3>3. QED
      BY <1>2, <1>4, <2>1, <3>1, <3>2 DEF Fresh
  <2>3. BeliefsAreTrue'
    <3> SUFFICES ASSUME runtime'.gen = native.gen, native.service, Believed'
                 PROVE  worker.stream.gen = native.gen \/ Busy(native.gen)
      BY <1>2, <2>1 DEF BeliefsAreTrue, Busy, PausedFor
    <3>1. runtime'.gen = runtime.gen /\ runtime.gen # 0
      BY <1>5, <1>10, <2>1
    <3>2. \A k \in Nat : LastWord(k)' => LastWord(k + 1)
      <4> SUFFICES ASSUME NEW k \in Nat, LastWord(k)', NEW j \in DOMAIN events, j > k + 1
                   PROVE  events[j].gen # runtime.gen \/ events[j].is \in Alive
        BY DEF LastWord
      <4>1. j - 1 \in DOMAIN events' /\ j - 1 > k /\ events'[j - 1] = events[j]
        BY <1>4
      <4>2. QED
        BY <3>1, <4>1 DEF LastWord
    <3>3. Believed
      <4>1. CASE runtime'.active /\ LastWord(0)'
        <5>1. LastWord(1)
          BY <3>2, <4>1
        <5>2. CASE events[1].gen = runtime.gen
          <6>1. events[1].is \in Alive
            BY <1>3, <4>1, <5>2, Resets
          <6>2. QED
            BY <1>4, <5>1, <5>2, <6>1 DEF Believed
        <5>3. CASE events[1].gen # runtime.gen
          <6>1. runtime.active
            BY <1>3, <4>1, <5>3, Resets
          <6>2. LastWord(0)
            <7>1. \A j \in DOMAIN events : j > 0 => j = 1 \/ j > 1
              BY <1>4
            <7>2. QED
              BY <5>1, <5>3, <7>1 DEF LastWord
          <6>3. QED
            BY <6>1, <6>2 DEF Believed
        <5>4. QED
          BY <5>2, <5>3
      <4>2. CASE \E k \in DOMAIN events' :
                   events'[k].gen = runtime'.gen /\ events'[k].is \in Alive /\ LastWord(k)'
        <5>1. PICK k \in DOMAIN events' :
                     events'[k].gen = runtime'.gen /\ events'[k].is \in Alive /\ LastWord(k)'
          BY <4>2
        <5>2. k \in Nat /\ k + 1 \in DOMAIN events /\ events[k + 1] = events'[k]
          BY <1>4
        <5>3. LastWord(k + 1)
          BY <3>2, <5>1, <5>2
        <5>4. QED
          BY <3>1, <5>1, <5>2, <5>3 DEF Believed
      <4>3. QED
        BY <4>1, <4>2 DEF Believed
    <3>4. QED
      BY <1>1, <1>10, <2>1, <3>1, <3>3 DEF BeliefsAreTrue
  <2>4. QED
    BY <1>2, <1>7, <1>8, <1>9, <2>2, <2>3 DEF TrackingInv
<1>11. CASE native'.gen = None
  BY <1>2, <1>7, <1>8, <1>9, <1>11 DEF TrackingInv, SetupsAreInOrder, BeliefsAreTrue
<1>12. QED
  BY <1>10, <1>11

-----------------------------------------------------------------------------
(* The worker. A step of it works for one generation, that it has already  *)
(* heard of.                                                               *)

AppRests == UNCHANGED <<server, app, reads, advance, actions, running, aside, runtime, native>>

HeardOf(x) ==
  \/ setup.now.step # "idle" /\ x = setup.now.config.gen
  \/ setup.now.step = "idle" /\ \E i \in DOMAIN setup.inbox : x = setup.inbox[i].gen
  \/ worker.stream # NoConfig /\ x = worker.stream.gen
  \/ \E t \in tasks : x = t.config.gen

Tells(x) == \E m \in Messages : m.gen = x /\ events' = Append(events, m)

WorksFor(x) ==
  /\ AppRests /\ HeardOf(x)
  /\ worker'.owner \in {worker.owner, x, None}
  /\ worker'.stream.gen \in {worker.stream.gen, x, None}
  /\ worker'.config.gen \in {worker.config.gen, x, None}
  /\ worker'.stopped => worker.stopped
  /\ \A t \in tasks' : t \in tasks \/ t.config.gen = x
  /\ events' = events \/ Tells(x)
  /\ \A i \in DOMAIN setup'.inbox :
       \/ setup'.inbox[i].gen = x
       \/ \E j \in DOMAIN setup.inbox : setup'.inbox[i] = setup.inbox[j]
  /\ setup'.now.config.gen \in {setup.now.config.gen, x, None}
  /\ \/ setup'.now.step = "idle"
     \/ /\ setup.now.step # "idle"
        /\ setup'.now.config = setup.now.config /\ setup'.now.owned = setup.now.owned
     \/ setup'.now.owned => setup'.now.config.gen = native.gen

(* There is a worker only in a service.                                    *)
LEMMA WorksInService ==
  ASSUME TrackingInv,
         \/ setup.now.step # "idle" \/ setup.inbox # <<>> \/ tasks # {}
         \/ worker.stream # NoConfig
  PROVE  native.service /\ running.step # "starting"
<1>1. ~native.service => /\ setup.now.step = "idle" /\ setup.inbox = <<>> /\ tasks = {}
                         /\ worker.stream = NoConfig
  BY Resets, Workless DEF TrackingInv, NativeHolds
<1>2. QED
  BY <1>1 DEF TrackingInv, NativeHolds

LEMMA HeardOfKnown ==
  ASSUME TrackingInv, NEW x, HeardOf(x)
  PROVE  x \in Generations /\ Known(x) /\ native.service /\ running.step # "starting"
<1>1. TypesHold /\ GensAreKnown
  BY DEF TrackingInv
<1>2. \A c \in Configs : c.gen \in Generations
  BY Resets
<1>3. CASE setup.now.step # "idle" /\ x = setup.now.config.gen
  BY <1>1, <1>2, <1>3, WorksInService DEF GensAreKnown, TypesHold, SetupOK
<1>4. CASE \E i \in DOMAIN setup.inbox : x = setup.inbox[i].gen
  <2>1. PICK i \in DOMAIN setup.inbox : x = setup.inbox[i].gen
    BY <1>4
  <2>2. setup.inbox[i] \in Configs /\ setup.inbox # <<>>
    BY <1>1, <2>1, Members DEF TypesHold, SetupOK
  <2>3. QED
    BY <1>1, <1>2, <2>1, <2>2, WorksInService DEF GensAreKnown
<1>5. CASE worker.stream # NoConfig /\ x = worker.stream.gen
  BY <1>1, <1>2, <1>5, WorksInService DEF GensAreKnown, TypesHold, WorkerOK, Workers
<1>6. CASE \E t \in tasks : x = t.config.gen
  BY <1>1, <1>2, <1>6, WorksInService DEF GensAreKnown, TypesHold, TasksOK, Tasks
<1>7. QED
  BY <1>3, <1>4, <1>5, <1>6 DEF HeardOf

(* What is told is the last message.                                       *)
LEMMA Told ==
  ASSUME TypesHold, NEW m \in Messages, events' = Append(events, m)
  PROVE  /\ EventsOK'
         /\ Len(events) \in Nat /\ DOMAIN events = 1 .. Len(events)
         /\ DOMAIN events' = 1 .. Len(events) + 1
         /\ \A i \in DOMAIN events : events'[i] = events[i]
         /\ events'[Len(events) + 1] = m
         /\ \A i \in DOMAIN events' :
              (i \in DOMAIN events /\ events'[i] = events[i]) \/ events'[i] = m
<1>1. events \in Seq(Messages)
  BY DEF TypesHold, EventsOK
<1>2. Len(events) \in Nat /\ DOMAIN events = 1 .. Len(events)
  BY <1>1, Members
<1>3. /\ events' \in Seq(Messages) /\ DOMAIN events' = 1 .. Len(events) + 1
      /\ \A i \in DOMAIN events : events'[i] = events[i]
      /\ events'[Len(events) + 1] = m
  BY <1>1, Appended
<1>4. \A i \in DOMAIN events' : i \in DOMAIN events \/ i = Len(events) + 1
  BY <1>2, <1>3
<1>5. QED
  BY <1>2, <1>3, <1>4 DEF EventsOK

LEMMA Doubted ==
  ASSUME TypesHold, NEW m \in Messages, events' = Append(events, m), runtime' = runtime
  PROVE  /\ m.gen # runtime.gen /\ Believed' => Believed
         /\ m.gen = runtime.gen /\ m.is \notin Alive => ~Believed'
<1>1. /\ Len(events) \in Nat /\ DOMAIN events = 1 .. Len(events)
      /\ DOMAIN events' = 1 .. Len(events) + 1
      /\ \A i \in DOMAIN events : events'[i] = events[i] /\ i \in DOMAIN events'
      /\ events'[Len(events) + 1] = m /\ Len(events) + 1 \in DOMAIN events'
      /\ \A i \in DOMAIN events' :
           (i \in DOMAIN events /\ events'[i] = events[i]) \/ i = Len(events) + 1
  BY Told
<1>2. \A k : LastWord(k)' => LastWord(k)
  BY <1>1 DEF LastWord
<1>3. ASSUME m.gen # runtime.gen, Believed' PROVE Believed
  BY <1>1, <1>2, <1>3 DEF Believed
<1>4. ASSUME m.gen = runtime.gen, m.is \notin Alive, Believed' PROVE FALSE
  <2>1. \A k \in Nat : LastWord(k)' => k >= Len(events) + 1
    BY <1>1, <1>4 DEF LastWord
  <2>2. \A k \in DOMAIN events' : k \in Nat /\ (k >= Len(events) + 1 => k = Len(events) + 1)
    BY <1>1
  <2>3. ~LastWord(0)'
    BY <1>1, <2>1
  <2>4. \A k \in DOMAIN events' : LastWord(k)' => events'[k] = m
    BY <1>1, <2>1, <2>2
  <2>5. QED
    BY <1>4, <2>3, <2>4 DEF Believed
<1>5. QED
  BY <1>3, <1>4

(* Such a step keeps the invariant when it keeps these three parts of it.  *)
LEMMA WorkKeeps ==
  ASSUME TrackingInv, NEW x, WorksFor(x), TypesHold', StreamHolds', BeliefsAreTrue'
  PROVE  TrackingInv'
<1>1. /\ TypesHold /\ NativeHolds /\ GensAreKnown /\ SetupsAreInOrder
  BY DEF TrackingInv
<1>2. /\ UNCHANGED <<running, runtime, native>> /\ HeardOf(x)
  BY DEF WorksFor, AppRests
<1>3. x \in Generations /\ Known(x) /\ native.service /\ running.step # "starting"
  BY <1>2, HeardOfKnown
<1>4. 0 <= native.last /\ Known(0)
  BY <1>1, GenerationFacts DEF TypesHold, NativeOK, Natives, Known
<1>5. NativeHolds'
  BY <1>1, <1>2, <1>3 DEF NativeHolds, WorksFor
<1>6. \A i \in DOMAIN events' :
        (i \in DOMAIN events /\ events'[i] = events[i]) \/ events'[i].gen = x
  <2>1. CASE events' = events
    BY <2>1
  <2>2. CASE Tells(x)
    BY <1>1, <2>2, Told DEF Tells
  <2>3. QED
    BY <2>1, <2>2 DEF WorksFor
<1>7. GensAreKnown'
  <2>1. \A y : Known(y)' <=> Known(y)
    BY <1>2 DEF Known
  <2>2. /\ Known(worker'.owner) /\ Known(worker'.stream.gen) /\ Known(worker'.config.gen)
        /\ Known(setup'.now.config.gen) /\ Known(runtime.gen)
    BY <1>1, <1>3, <1>4 DEF WorksFor, GensAreKnown
  <2>3. \A i \in DOMAIN setup'.inbox : Known(setup'.inbox[i].gen)
    BY <1>1, <1>3 DEF WorksFor, GensAreKnown
  <2>4. \A t \in tasks' : Known(t.config.gen)
    BY <1>1, <1>3 DEF WorksFor, GensAreKnown
  <2>5. \A i \in DOMAIN events' : Known(events'[i].gen)
    BY <1>1, <1>3, <1>6 DEF GensAreKnown
  <2>6. QED
    BY <1>2, <1>3, <2>2, <2>3, <2>4, <2>5 DEF GensAreKnown, Known
<1>8. SetupsAreInOrder'
  <2> SUFFICES ASSUME native.gen # None, setup'.now.step # "idle", setup'.now.owned,
                      setup'.now.config.gen # native.gen
               PROVE  Fresh(native.gen)'
    BY <1>2 DEF SetupsAreInOrder
  <2>1. /\ setup.now.step # "idle" /\ setup.now.owned /\ setup.now.config.gen # native.gen
    BY DEF WorksFor
  <2>2. Fresh(native.gen)
    BY <1>1, <2>1 DEF SetupsAreInOrder
  <2>3. x # native.gen
    BY <1>2, <2>1, <2>2 DEF HeardOf, Fresh
  <2>4. QED
    BY <1>2, <1>6, <2>2, <2>3 DEF WorksFor, Fresh
<1>9. QED
  BY <1>5, <1>7, <1>8 DEF TrackingInv

LEMMA WorkTypes ==
  ASSUME TypesHold, AppRests, SetupOK', WorkerOK', TasksOK', EventsOK', FaultsOK'
  PROVE  TypesHold'
BY DEF AppRests, TypesHold, ServerOK, AppOK, ReadsOK, AdvanceOK, ActionsOK, RunningOK, AsideOK,
  RuntimeOK, NativeOK

(* What a worker of another generation still has to say about this one.    *)
LEMMA NotTheOwner ==
  ASSUME TrackingInv, native.gen # None, worker.owner \notin {native.gen, None},
         worker.stream.gen = native.gen \/ Busy(native.gen)
  PROVE  \E t \in tasks : t.kind = "stopping" /\ t.config.gen = native.gen
BY Resets DEF TrackingInv, StreamHolds, Busy, PausedFor

(* A continuation goes on, or is over, without a word.                     *)
LEMMA Continued ==
  ASSUME TrackingInv, AppRests, NEW t \in tasks, UNCHANGED <<worker, events>>, FaultsOK',
         \/ tasks' = tasks \ {t}
         \/ \E u \in Tasks : /\ u.kind # "stopping" /\ u.config.gen = t.config.gen
                             /\ tasks' = (tasks \ {t}) \cup {u},
         \/ setup' = setup
         \/ \E c \in Configs : /\ c.gen = t.config.gen
                               /\ setup' = [setup EXCEPT !.inbox = Append(@, c)],
         \/ t.kind \in {"post", "reading", "read", "restoring"}
         \/ t.kind = "pausing" /\ ~PausedFor(t.config)
  PROVE  TrackingInv'
<1> DEFINE x == t.config.gen
<1>1. TypesHold /\ StreamHolds /\ BeliefsAreTrue
  BY DEF TrackingInv
<1>2. /\ setup'.now = setup.now /\ SetupOK'
      /\ \A i \in DOMAIN setup'.inbox :
           \/ setup'.inbox[i].gen = x
           \/ \E j \in DOMAIN setup.inbox : setup'.inbox[i] = setup.inbox[j]
  <2>1. CASE setup' = setup
    BY <1>1, <2>1 DEF TypesHold, SetupOK
  <2>2. CASE \E c \in Configs : c.gen = x /\ setup' = [setup EXCEPT !.inbox = Append(@, c)]
    <3>1. PICK c \in Configs : c.gen = x /\ setup' = [setup EXCEPT !.inbox = Append(@, c)]
      BY <2>2
    <3>2. setup.inbox \in Seq(Configs) /\ setup \in [inbox : Seq(Configs), now : Setups]
      BY <1>1 DEF TypesHold, SetupOK
    <3>3. /\ setup'.inbox = Append(setup.inbox, c) /\ setup'.now = setup.now
          /\ Append(setup.inbox, c) \in Seq(Configs)
          /\ setup' \in [inbox : Seq(Configs), now : Setups]
      BY <3>1, <3>2, Appended
    <3>4. /\ DOMAIN setup.inbox = 1 .. Len(setup.inbox) /\ Len(setup.inbox) \in Nat
          /\ DOMAIN setup'.inbox = 1 .. Len(setup.inbox) + 1
          /\ \A i \in DOMAIN setup.inbox : setup'.inbox[i] = setup.inbox[i]
          /\ setup'.inbox[Len(setup.inbox) + 1] = c
      BY <3>2, <3>3, Members, Appended
    <3>5. \A i \in DOMAIN setup'.inbox : i \in DOMAIN setup.inbox \/ i = Len(setup.inbox) + 1
      BY <3>4
    <3>6. QED
      BY <1>1, <3>1, <3>3, <3>4, <3>5 DEF TypesHold, SetupOK
  <2>3. QED
    BY <2>1, <2>2
<1>3. /\ \A s \in tasks' : s \in tasks \/ (s.config.gen = x /\ s.kind # "stopping" /\ s \in Tasks)
      /\ \A s \in tasks : s \in tasks' \/ s = t
  OBVIOUS
<1>4. TypesHold'
  <2>1. TasksOK' /\ WorkerOK' /\ EventsOK'
    BY <1>1, <1>3 DEF TypesHold, TasksOK, WorkerOK, EventsOK
  <2>2. QED
    BY <1>1, <1>2, <2>1, WorkTypes
<1>5. WorksFor(x)
  BY <1>1, <1>2, <1>3 DEF WorksFor, HeardOf
<1>6. StreamHolds'
  BY <1>1, <1>2 DEF StreamHolds
<1>7. BeliefsAreTrue'
  BY <1>1, <1>2, <1>3 DEF BeliefsAreTrue, Believed, LastWord, Busy, PausedFor, AppRests
<1>8. QED
  BY <1>4, <1>5, <1>6, <1>7, WorkKeeps

(* _stopAndNotify, up to its wait.                                         *)
LEMMA Stopping ==
  ASSUME TrackingInv, AppRests, NEW t \in Tasks, HeardOf(t.config.gen),
         t.kind \in {"post", "reading", "read"},
         NEW what \in {"unauthorized", "off", "not_found", "inactive", "network",
                       "location_unavailable"},
         StopsAndNotifies(t, what), UNCHANGED <<setup, events>>, FaultsOK'
  PROVE  TrackingInv'
<1> DEFINE x == t.config.gen
           u == [kind |-> "stopping", config |-> t.config, what |-> what]
<1>1. TypesHold /\ StreamHolds /\ BeliefsAreTrue
  BY DEF TrackingInv
<1>2. x \in Generations /\ x # None
  BY HeardOfKnown, GenerationFacts
<1>3. u \in Tasks /\ u.kind = "stopping" /\ u.config = t.config /\ u.what \notin Trackable
  BY DEF Tasks
<1> HIDE DEF u
<1>4. CASE ~worker.stopped /\ worker.owner = x /\ worker.terminal # x
  <2>1. worker' = [Blank EXCEPT !.terminal = x] /\ tasks' = (tasks \ {t}) \cup {u}
    BY <1>4 DEF StopsAndNotifies, u
  <2>2. /\ worker' \in Workers /\ worker'.owner = 0 /\ worker'.config = NoConfig
        /\ worker'.stream = NoConfig /\ worker'.stopped = FALSE
    BY <1>2, <2>1 DEF Blank, Workers
  <2>3. TypesHold'
    <3>1. SetupOK' /\ EventsOK' /\ WorkerOK'
      BY <1>1, <2>2 DEF TypesHold, SetupOK, EventsOK, WorkerOK
    <3>2. TasksOK'
      BY <1>1, <1>3, <2>1 DEF TypesHold, TasksOK
    <3>3. QED
      BY <1>1, <3>1, <3>2, WorkTypes
  <2>4. WorksFor(x)
    BY <1>3, <2>1, <2>2, Resets DEF WorksFor
  <2>5. StreamHolds'
    BY <1>1, <2>2 DEF StreamHolds
  <2>6. BeliefsAreTrue'
    <3> SUFFICES ASSUME native.gen # None, runtime.gen = native.gen, native.service, Believed
                 PROVE  \E s \in tasks' : s.kind = "stopping" /\ s.config.gen = native.gen
      BY DEF BeliefsAreTrue, Believed, LastWord, Busy, AppRests
    <3>1. CASE x = native.gen
      BY <1>3, <2>1, <3>1
    <3>2. CASE x # native.gen
      <4>1. PICK s \in tasks : s.kind = "stopping" /\ s.config.gen = native.gen
        BY <1>1, <1>2, <1>4, <3>2, NotTheOwner DEF BeliefsAreTrue
      <4>2. QED
        BY <2>1, <4>1
    <3>3. QED
      BY <3>1, <3>2
  <2>7. QED
    BY <2>3, <2>4, <2>5, <2>6, WorkKeeps
<1>5. CASE ~(~worker.stopped /\ worker.owner = x /\ worker.terminal # x)
  <2>1. tasks' = tasks \ {t} /\ UNCHANGED worker
    BY <1>5 DEF StopsAndNotifies
  <2>2. TypesHold'
    <3>1. SetupOK' /\ EventsOK' /\ WorkerOK' /\ TasksOK'
      BY <1>1, <2>1 DEF TypesHold, SetupOK, EventsOK, WorkerOK, TasksOK
    <3>2. QED
      BY <1>1, <3>1, WorkTypes
  <2>3. WorksFor(x)
    BY <2>1 DEF WorksFor
  <2>4. StreamHolds'
    BY <1>1, <2>1 DEF StreamHolds
  <2>5. BeliefsAreTrue'
    BY <1>1, <2>1 DEF BeliefsAreTrue, Believed, LastWord, Busy, PausedFor, AppRests
  <2>6. QED
    BY <2>2, <2>3, <2>4, <2>5, WorkKeeps
<1>6. QED
  BY <1>4, <1>5

LEMMA FaultsKeep ==
  ASSUME TypesHold, Fails \/ UNCHANGED faults
  PROVE  FaultsOK'
BY DEF TypesHold, FaultsOK, Fails

LEMMA TaskFacts ==
  ASSUME TypesHold, NEW t \in tasks
  PROVE  /\ t \in Tasks /\ t.config \in Configs /\ t.config.gen \in Generations
         /\ HeardOf(t.config.gen)
         /\ t.kind \in {"post", "pausing", "reading", "read", "restoring", "stopping"}
         /\ t.what \in Says \cup {"unauthorized", "not_found", "inactive", "network",
                                  "location_unavailable"}
         /\ t.kind = "stopping" => t.what \notin Trackable
<1>1. t \in Tasks /\ (t.kind = "stopping" => t.what \notin Trackable)
  BY DEF TypesHold, TasksOK
<1>2. t.config \in Configs /\ t.config.gen \in Generations
  BY <1>1, Resets DEF Tasks
<1>3. QED
  BY <1>1, <1>2 DEF Tasks, HeardOf

LEMMA LocationLostKeeps ==
  ASSUME TrackingInv, LocationLost
  PROVE  TrackingInv'
<1> DEFINE t == [kind |-> "post", config |-> worker.stream, what |-> "off"]
<1>1. TypesHold
  BY DEF TrackingInv
<1>2. /\ AppRests /\ UNCHANGED <<setup, events>> /\ FaultsOK'
      /\ worker.stream # NoConfig /\ StopsAndNotifies(t, "location_unavailable")
  BY <1>1, FaultsKeep DEF LocationLost, AppRests, appVars
<1>3. worker.stream \in Configs
  BY <1>1, <1>2 DEF TypesHold, WorkerOK, Workers
<1>4. t \in Tasks /\ t.config = worker.stream /\ t.kind = "post"
  BY <1>3 DEF Tasks
<1> HIDE DEF t
<1>5. HeardOf(t.config.gen)
  BY <1>2, <1>4 DEF HeardOf
<1>6. QED
  BY <1>2, <1>4, <1>5, Stopping

LEMMA PostAnsweredKeeps ==
  ASSUME TrackingInv, NEW t \in tasks, PostAnswered(t)
  PROVE  TrackingInv'
<1> DEFINE x == t.config.gen
<1>1. TypesHold /\ StreamHolds /\ BeliefsAreTrue
  BY DEF TrackingInv
<1>2. /\ AppRests /\ UNCHANGED <<setup, events>> /\ t.kind = "post"
  BY DEF PostAnswered, AppRests, appVars
<1>3. FaultsOK'
  BY <1>1, FaultsKeep DEF PostAnswered
<1>4. t \in Tasks /\ x \in Generations /\ HeardOf(x) /\ x # 0 /\ t.config # NoConfig
  BY <1>1, TaskFacts, GenerationFacts, Resets
<1>5. CASE tasks' = tasks \ {t} /\ UNCHANGED worker
  BY <1>2, <1>3, <1>5, Continued
<1>6. CASE StopsAndNotifies(t, "unauthorized") \/ StopsAndNotifies(t, "not_found")
  BY <1>2, <1>3, <1>4, <1>6, Stopping
<1>7. CASE /\ OwnsConfiguration(t.config)
           /\ worker' = [worker EXCEPT !.config = NoConfig, !.stream = NoConfig,
                                       !.buffer = None]
           /\ Continues(t, "pausing")
  <2> DEFINE u == [t EXCEPT !.kind = "pausing"]
  <2>1. /\ u \in Tasks /\ u.kind = "pausing" /\ u.config = t.config
    BY <1>4 DEF Tasks
  <2>2. tasks' = (tasks \ {t}) \cup {u}
    BY <1>7 DEF Continues
  <2> HIDE DEF u
  <2>3. /\ worker' \in Workers /\ worker'.owner = worker.owner /\ worker'.config = NoConfig
        /\ worker'.stream = NoConfig /\ worker'.stopped = worker.stopped
        /\ worker'.terminal = worker.terminal /\ worker'.buffer = None
    BY <1>1, <1>7 DEF TypesHold, WorkerOK, Workers
  <2>4. ~worker.stopped /\ worker.owner = x /\ worker.terminal # x
    BY <1>7 DEF OwnsConfiguration
  <2>5. TypesHold'
    <3>1. SetupOK' /\ EventsOK' /\ WorkerOK'
      BY <1>1, <1>2, <2>3 DEF TypesHold, SetupOK, EventsOK, WorkerOK
    <3>2. TasksOK'
      BY <1>1, <2>1, <2>2 DEF TypesHold, TasksOK
    <3>3. QED
      BY <1>1, <1>2, <1>3, <3>1, <3>2, WorkTypes
  <2>6. WorksFor(x)
    BY <1>2, <1>4, <2>1, <2>2, <2>3, Resets DEF WorksFor
  <2>7. StreamHolds'
    BY <1>1, <1>2, <2>3 DEF StreamHolds
  <2>8. BeliefsAreTrue'
    <3> SUFFICES ASSUME native.gen # None, runtime.gen = native.gen, native.service, Believed
                 PROVE  Busy(native.gen)'
      BY <1>2 DEF BeliefsAreTrue, Believed, LastWord, AppRests
    <3>1. CASE x = native.gen
      <4>1. PausedFor(u.config)'
        BY <2>1, <2>3, <2>4 DEF PausedFor
      <4>2. QED
        BY <1>2, <2>1, <2>2, <3>1, <4>1 DEF Busy, AppRests
    <3>2. CASE x # native.gen
      <4>1. PICK s \in tasks : s.kind = "stopping" /\ s.config.gen = native.gen
        BY <1>1, <1>4, <2>4, <3>2, NotTheOwner DEF BeliefsAreTrue
      <4>2. s \in tasks'
        BY <1>2, <2>2, <4>1
      <4>3. QED
        BY <1>2, <4>1, <4>2 DEF Busy, AppRests
    <3>3. QED
      BY <3>1, <3>2
  <2>9. QED
    BY <2>5, <2>6, <2>7, <2>8, WorkKeeps
<1>8. QED
  BY <1>5, <1>6, <1>7 DEF PostAnswered, PausesAndClears

LEMMA AuthorityAnsweredKeeps ==
  ASSUME TrackingInv, NEW t \in tasks, AuthorityAnswered(t)
  PROVE  TrackingInv'
<1>1. TypesHold
  BY DEF TrackingInv
<1>2. /\ AppRests /\ UNCHANGED <<setup, events>> /\ t.kind = "reading"
  BY DEF AuthorityAnswered, AppRests, appVars
<1>3. FaultsOK'
  BY <1>1, FaultsKeep DEF AuthorityAnswered
<1>4. t \in Tasks /\ HeardOf(t.config.gen)
  BY <1>1, TaskFacts
<1>5. CASE /\ tasks' = (tasks \ {t}) \cup {[t EXCEPT !.kind = "read", !.what = Authority]}
           /\ UNCHANGED worker
  <2> DEFINE u == [t EXCEPT !.kind = "read", !.what = Authority]
  <2>1. Authority \in Says \cup {"unauthorized"}
    BY DEF Authority
  <2>2. u \in Tasks /\ u.kind # "stopping" /\ u.config = t.config
    BY <1>4, <2>1 DEF Tasks
  <2>3. tasks' = (tasks \ {t}) \cup {u}
    BY <1>5
  <2> HIDE DEF u
  <2>4. QED
    BY <1>2, <1>3, <1>5, <2>2, <2>3, Continued
<1>6. CASE StopsAndNotifies(t, "network")
  BY <1>2, <1>3, <1>4, <1>6, Stopping
<1>7. QED
  BY <1>5, <1>6 DEF AuthorityAnswered

LEMMA AuthorityArrivesKeeps ==
  ASSUME TrackingInv, NEW t \in tasks, AuthorityArrives(t)
  PROVE  TrackingInv'
<1>1. TypesHold
  BY DEF TrackingInv
<1>2. /\ AppRests /\ UNCHANGED <<events, faults>> /\ t.kind = "read"
  BY DEF AuthorityArrives, AppRests, appVars
<1>3. FaultsOK'
  BY <1>1, <1>2, FaultsKeep
<1>4. /\ t \in Tasks /\ HeardOf(t.config.gen) /\ t.config.gen \in Generations
      /\ t.what \in Says \cup {"unauthorized", "not_found", "inactive", "network",
                               "location_unavailable"}
  BY <1>1, TaskFacts
<1>5. CASE ~PausedFor(t.config)
  BY <1>2, <1>3, <1>5, Continued DEF AuthorityArrives
<1>6. CASE PausedFor(t.config) /\ t.what \in Trackable
  <2> DEFINE c == [gen |-> t.config.gen, status |-> t.what, by |-> "worker"]
             u == [kind |-> "restoring", config |-> c, what |-> "off"]
  <2>1. c \in Configs /\ c.gen = t.config.gen
    BY <1>4, <1>6 DEF Configs
  <2>2. /\ setup' = [setup EXCEPT !.inbox = Append(@, c)]
        /\ tasks' = (tasks \ {t}) \cup {u} /\ UNCHANGED worker
    BY <1>6 DEF AuthorityArrives
  <2> HIDE DEF c
  <2>3. u \in Tasks /\ u.kind # "stopping" /\ u.config.gen = t.config.gen
    BY <2>1 DEF Tasks
  <2> HIDE DEF u
  <2>4. QED
    BY <1>2, <1>3, <2>1, <2>2, <2>3, Continued
<1>7. CASE PausedFor(t.config) /\ t.what \notin Trackable
  <2> DEFINE what == IF t.what = "off" THEN "inactive" ELSE t.what
  <2>1. StopsAndNotifies(t, what) /\ UNCHANGED setup
    BY <1>7 DEF AuthorityArrives
  <2>2. what \in {"unauthorized", "off", "not_found", "inactive", "network",
                  "location_unavailable"}
    BY <1>4, <1>7
  <2> HIDE DEF what
  <2>3. QED
    BY <1>2, <1>3, <1>4, <2>1, <2>2, Stopping
<1>8. QED
  BY <1>5, <1>6, <1>7

(* A continuation has told its message, and goes on or is over.            *)
LEMMA PausedKeeps ==
  ASSUME TrackingInv, NEW t \in tasks, Paused(t)
  PROVE  TrackingInv'
<1> DEFINE x == t.config.gen
<1>1. TypesHold /\ StreamHolds /\ BeliefsAreTrue
  BY DEF TrackingInv
<1>2. /\ AppRests /\ UNCHANGED <<setup, worker>> /\ t.kind = "pausing" /\ FaultsOK'
  BY <1>1, FaultsKeep DEF Paused, AppRests, appVars
<1>3. t \in Tasks /\ x \in Generations /\ HeardOf(x) /\ x # 0
  BY <1>1, TaskFacts, GenerationFacts
<1>4. CASE ~PausedFor(t.config)
  BY <1>2, <1>4, Continued DEF Paused
<1>5. CASE PausedFor(t.config)
  <2> DEFINE m == [is |-> "paused", gen |-> x]
             u == [t EXCEPT !.kind = "reading"]
  <2>1. m \in Messages /\ m.gen = x /\ m.is \notin Alive
    BY <1>3 DEF Messages, Alive
  <2>2. u \in Tasks /\ u.kind = "reading" /\ u.config = t.config
    BY <1>3 DEF Tasks
  <2>3. events' = Append(events, m) /\ tasks' = (tasks \ {t}) \cup {u}
    BY <1>5 DEF Paused, Sends, Continues
  <2> HIDE DEF m, u
  <2>4. TypesHold'
    <3>1. SetupOK' /\ WorkerOK'
      BY <1>1, <1>2 DEF TypesHold, SetupOK, WorkerOK
    <3>2. TasksOK'
      BY <1>1, <2>2, <2>3 DEF TypesHold, TasksOK
    <3>3. QED
      BY <1>1, <1>2, <2>1, <2>3, <3>1, <3>2, Told, WorkTypes
  <2>5. WorksFor(x)
    BY <1>2, <1>3, <2>1, <2>2, <2>3 DEF WorksFor, Tells
  <2>6. StreamHolds'
    BY <1>1, <1>2 DEF StreamHolds
  <2>7. BeliefsAreTrue'
    <3> SUFFICES ASSUME native.gen # None, runtime.gen = native.gen, native.service, Believed'
                 PROVE  worker.stream.gen = native.gen \/ Busy(native.gen)'
      BY <1>2 DEF BeliefsAreTrue, AppRests
    <3>1. x # native.gen /\ Believed
      BY <1>1, <1>2, <2>1, <2>3, Doubted DEF AppRests
    <3>2. \A s \in tasks : s.config.gen = native.gen => s \in tasks'
      BY <2>3, <3>1
    <3>3. worker.stream.gen = native.gen \/ Busy(native.gen)
      BY <1>1, <3>1 DEF BeliefsAreTrue
    <3>4. QED
      BY <1>2, <3>2, <3>3 DEF Busy, PausedFor, AppRests
  <2>8. QED
    BY <2>4, <2>5, <2>6, <2>7, WorkKeeps
<1>6. QED
  BY <1>4, <1>5

LEMMA RestoredKeeps ==
  ASSUME TrackingInv, NEW t \in tasks, Restored(t)
  PROVE  TrackingInv'
<1> DEFINE x == t.config.gen
<1>1. TypesHold /\ StreamHolds /\ BeliefsAreTrue
  BY DEF TrackingInv
<1>2. /\ AppRests /\ UNCHANGED <<setup, worker>> /\ t.kind = "restoring" /\ FaultsOK'
      /\ tasks' = tasks \ {t}
  BY <1>1, FaultsKeep DEF Restored, AppRests, appVars
<1>3. t \in Tasks /\ x \in Generations /\ HeardOf(x) /\ x # 0 /\ t.config # NoConfig
  BY <1>1, TaskFacts, GenerationFacts, Resets
<1>4. CASE ~OwnsConfiguration(t.config)
  BY <1>2, <1>4, Continued DEF Restored
<1>5. CASE OwnsConfiguration(t.config)
  <2> DEFINE m == [is |-> "restored", gen |-> x]
  <2>1. m \in Messages /\ m.gen = x
    BY <1>3 DEF Messages, Alive
  <2>2. events' = Append(events, m)
    BY <1>5 DEF Restored, Sends
  <2> HIDE DEF m
  <2>3. TypesHold'
    <3>1. SetupOK' /\ WorkerOK' /\ TasksOK'
      BY <1>1, <1>2 DEF TypesHold, SetupOK, WorkerOK, TasksOK
    <3>2. QED
      BY <1>1, <1>2, <2>1, <2>2, <3>1, Told, WorkTypes
  <2>4. WorksFor(x)
    BY <1>2, <1>3, <2>1, <2>2 DEF WorksFor, Tells
  <2>5. StreamHolds'
    BY <1>1, <1>2 DEF StreamHolds
  <2>6. BeliefsAreTrue'
    <3> SUFFICES ASSUME native.gen # None, runtime.gen = native.gen, native.service, Believed'
                 PROVE  worker.stream.gen = native.gen \/ Busy(native.gen)
      BY <1>2 DEF BeliefsAreTrue, Busy, PausedFor, AppRests
    <3>1. CASE x = native.gen
      <4>1. worker.config = t.config /\ ~worker.stopped /\ worker.owner = x
        BY <1>5 DEF OwnsConfiguration
      <4>2. worker.stream # NoConfig \/ setup.now.step = "cancelling"
        BY <1>1, <1>3, <4>1 DEF StreamHolds
      <4>3. QED
        BY <1>1, <1>3, <3>1, <4>1, <4>2 DEF StreamHolds, Busy
    <3>2. CASE x # native.gen
      BY <1>1, <1>2, <2>1, <2>2, <3>2, Doubted DEF AppRests, BeliefsAreTrue
    <3>3. QED
      BY <3>1, <3>2
  <2>7. QED
    BY <2>3, <2>4, <2>5, <2>6, WorkKeeps
<1>6. QED
  BY <1>4, <1>5

-----------------------------------------------------------------------------
(* The configurations, the positions, and the end of a stop.               *)

LEMMA SetupBeginsKeeps ==
  ASSUME TrackingInv, SetupBegins
  PROVE  TrackingInv'
<1> DEFINE c == Head(setup.inbox)
           x == c.gen
           now == IF Deaf(c) THEN NoSetup
                  ELSE [step |-> "asked", config |-> c, owned |-> native.gen = c.gen]
<1>1. TypesHold /\ StreamHolds /\ BeliefsAreTrue
  BY DEF TrackingInv
<1>2. /\ AppRests /\ UNCHANGED <<worker, tasks, events, faults>>
      /\ setup.now.step = "idle" /\ setup.inbox # <<>>
      /\ setup' = [inbox |-> Tail(setup.inbox), now |-> now]
  BY DEF SetupBegins, AppRests, appVars
<1>3. setup.inbox \in Seq(Configs)
  BY <1>1 DEF TypesHold, SetupOK
<1>4. /\ c \in Configs /\ c = setup.inbox[1] /\ 1 \in DOMAIN setup.inbox
      /\ Tail(setup.inbox) \in Seq(Configs)
      /\ \A i \in DOMAIN Tail(setup.inbox) : /\ Tail(setup.inbox)[i] = setup.inbox[i + 1]
                                              /\ i + 1 \in DOMAIN setup.inbox
  BY <1>2, <1>3, Members
<1>5. now = NoSetup \/ now = [step |-> "asked", config |-> c, owned |-> native.gen = c.gen]
  OBVIOUS
<1> HIDE DEF c, now
<1>6. /\ now \in Setups /\ now.step # "cancelling"
      /\ now.step # "idle" => /\ now.config = c /\ now.config \in Configs
                              /\ now.owned => now.config.gen = native.gen
      /\ now.config.gen \in {0, x}
  <2>1. CASE now = NoSetup
    BY <2>1, Resets
  <2>2. CASE now = [step |-> "asked", config |-> c, owned |-> native.gen = c.gen]
    <3>1. now \in Setups
      BY <1>4, <2>2 DEF Setups
    <3>2. now.step = "asked" /\ now.config = c /\ now.owned = (native.gen = c.gen)
      BY <2>2
    <3>3. QED
      BY <1>4, <3>1, <3>2
  <2>3. QED
    BY <1>5, <2>1, <2>2
<1>7. setup'.inbox = Tail(setup.inbox) /\ setup'.now = now
  BY <1>2
<1>8. TypesHold'
  <2>1. SetupOK'
    BY <1>2, <1>4, <1>6, <1>7 DEF SetupOK
  <2>2. WorkerOK' /\ TasksOK' /\ EventsOK' /\ FaultsOK'
    BY <1>1, <1>2 DEF TypesHold, WorkerOK, TasksOK, EventsOK, FaultsOK
  <2>3. QED
    BY <1>1, <1>2, <2>1, <2>2, WorkTypes
<1>9. WorksFor(x)
  <2>1. HeardOf(x)
    BY <1>2, <1>4 DEF HeardOf
  <2>2. \A i \in DOMAIN setup'.inbox :
          \E j \in DOMAIN setup.inbox : setup'.inbox[i] = setup.inbox[j]
    BY <1>4, <1>7
  <2>3. QED
    BY <1>2, <1>6, <1>7, <2>1, <2>2 DEF WorksFor
<1>10. StreamHolds'
  BY <1>1, <1>2, <1>6, <1>7 DEF StreamHolds
<1>11. BeliefsAreTrue'
  BY <1>1, <1>2, <1>6, <1>7 DEF BeliefsAreTrue, Believed, LastWord, Busy, PausedFor, AppRests
<1>12. QED
  BY <1>8, <1>9, <1>10, <1>11, WorkKeeps

(* Of a generation without a trace the app believes nothing.               *)
LEMMA FreshDoubted ==
  ASSUME Fresh(runtime.gen)
  PROVE  ~Believed
BY DEF Fresh, Believed

LEMMA SetupOwnedKeeps ==
  ASSUME TrackingInv, SetupOwned
  PROVE  TrackingInv'
<1> DEFINE c == setup.now.config
           x == c.gen
           m == [is |-> "started", gen |-> x]
<1>1. TypesHold /\ StreamHolds /\ SetupsAreInOrder /\ BeliefsAreTrue
  BY DEF TrackingInv
<1>2. /\ AppRests /\ UNCHANGED <<tasks, faults>> /\ setup.now.step = "asked"
  BY DEF SetupOwned, AppRests, appVars
<1>3. c \in Configs /\ x \in Generations /\ HeardOf(x) /\ x # 0
  BY <1>1, <1>2, Resets, GenerationFacts DEF TypesHold, SetupOK, HeardOf
<1>4. m \in Messages /\ m.gen = x
  BY <1>3 DEF Messages, Alive
<1>5. /\ [setup EXCEPT !.now = NoSetup].inbox = setup.inbox
      /\ [setup EXCEPT !.now = NoSetup].now = NoSetup
      /\ [setup EXCEPT !.now = NoSetup] \in [inbox : Seq(Configs), now : Setups]
  BY <1>1, Resets DEF TypesHold, SetupOK
<1>6. TasksOK' /\ FaultsOK'
  BY <1>1, <1>2 DEF TypesHold, TasksOK, FaultsOK
<1> HIDE DEF c, m
<1>7. CASE setup' = [setup EXCEPT !.now = NoSetup] /\ UNCHANGED <<worker, events>>
  <2>1. TypesHold'
    <3>1. SetupOK' /\ WorkerOK' /\ EventsOK'
      BY <1>1, <1>5, <1>7, Resets DEF TypesHold, SetupOK, WorkerOK, EventsOK
    <3>2. QED
      BY <1>1, <1>2, <1>6, <3>1, WorkTypes
  <2>2. WorksFor(x)
    BY <1>2, <1>3, <1>5, <1>7, Resets DEF WorksFor
  <2>3. StreamHolds'
    BY <1>1, <1>2, <1>5, <1>7, Resets DEF StreamHolds
  <2>4. BeliefsAreTrue'
    BY <1>1, <1>2, <1>5, <1>7, Resets DEF BeliefsAreTrue, Believed, LastWord, Busy, PausedFor,
      AppRests
  <2>5. QED
    BY <2>1, <2>2, <2>3, <2>4, WorkKeeps
<1>8. CASE /\ setup.now.owned /\ worker.stream # NoConfig /\ worker.config.gen = x
           /\ worker' = [worker EXCEPT !.owner = x, !.buffer = x]
           /\ setup' = [setup EXCEPT !.now = NoSetup]
           /\ events' = Append(events, m)
  <2>1. /\ worker' \in Workers /\ worker'.owner = x /\ worker'.config = worker.config
        /\ worker'.stream = worker.stream /\ worker'.stopped = worker.stopped
        /\ worker.stream.gen = x
    BY <1>1, <1>3, <1>8 DEF TypesHold, WorkerOK, Workers, StreamHolds
  <2>2. TypesHold'
    <3>1. SetupOK' /\ WorkerOK'
      BY <1>1, <1>5, <1>8, <2>1, Resets DEF SetupOK, WorkerOK
    <3>2. QED
      BY <1>1, <1>2, <1>4, <1>6, <1>8, <3>1, Told, WorkTypes
  <2>3. WorksFor(x)
    BY <1>2, <1>3, <1>4, <1>5, <1>8, <2>1, Resets DEF WorksFor, Tells
  <2>4. StreamHolds'
    BY <1>1, <1>2, <1>5, <1>8, <2>1, Resets DEF StreamHolds
  <2>5. BeliefsAreTrue'
    <3> SUFFICES ASSUME native.gen # None, runtime.gen = native.gen, native.service, Believed',
                        x # native.gen
                 PROVE  Busy(native.gen)'
      BY <1>2, <2>1 DEF BeliefsAreTrue, AppRests
    <3>1. Believed
      BY <1>1, <1>2, <1>4, <1>8, Doubted DEF AppRests
    <3>2. FALSE
      BY <1>1, <1>2, <1>8, <3>1, FreshDoubted DEF SetupsAreInOrder, c
    <3>3. QED
      BY <3>2
  <2>6. QED
    BY <2>2, <2>3, <2>4, <2>5, WorkKeeps
<1>9. CASE /\ setup.now.owned
           /\ worker' = [worker EXCEPT !.owner = x, !.buffer = x, !.stream = NoConfig]
           /\ setup' = [setup EXCEPT !.now.step = "cancelling"]
           /\ UNCHANGED events
  <2>1. /\ worker' \in Workers /\ worker'.owner = x /\ worker'.config = worker.config
        /\ worker'.stream = NoConfig /\ worker'.stopped = worker.stopped
    BY <1>1, <1>3, <1>9 DEF TypesHold, WorkerOK, Workers
  <2>2. /\ setup' \in [inbox : Seq(Configs), now : Setups] /\ setup'.inbox = setup.inbox
        /\ setup'.now.step = "cancelling" /\ setup'.now.config = c
        /\ setup'.now.owned = setup.now.owned
    BY <1>1, <1>9 DEF TypesHold, SetupOK, Setups, c
  <2>3. TypesHold'
    <3>1. SetupOK' /\ WorkerOK' /\ EventsOK'
      BY <1>1, <1>3, <1>9, <2>1, <2>2 DEF TypesHold, SetupOK, WorkerOK, EventsOK
    <3>2. QED
      BY <1>1, <1>2, <1>6, <3>1, WorkTypes
  <2>4. WorksFor(x)
    BY <1>2, <1>3, <1>9, <2>1, <2>2, Resets DEF WorksFor, c
  <2>5. StreamHolds'
    BY <1>9, <2>1, <2>2 DEF StreamHolds
  <2>6. BeliefsAreTrue'
    <3> SUFFICES ASSUME native.gen # None, runtime.gen = native.gen, native.service, Believed
                 PROVE  Busy(native.gen)'
      BY <1>2, <1>9 DEF BeliefsAreTrue, Believed, LastWord, AppRests
    <3>1. CASE x = native.gen
      BY <1>2, <2>2, <3>1 DEF Busy, AppRests
    <3>2. CASE x # native.gen
      BY <1>1, <1>2, <1>9, <3>2, FreshDoubted DEF SetupsAreInOrder, c
    <3>3. QED
      BY <3>1, <3>2
  <2>7. QED
    BY <2>3, <2>4, <2>5, <2>6, WorkKeeps
<1>10. QED
  BY <1>7, <1>8, <1>9 DEF SetupOwned, Sends, c, m

LEMMA SetupInstallsKeeps ==
  ASSUME TrackingInv, SetupInstalls
  PROVE  TrackingInv'
<1> DEFINE c == setup.now.config
           x == c.gen
           m == [is |-> "started", gen |-> x]
<1>1. TypesHold /\ NativeHolds /\ StreamHolds /\ SetupsAreInOrder /\ BeliefsAreTrue
  BY DEF TrackingInv
<1>2. /\ AppRests /\ UNCHANGED <<tasks, faults>> /\ setup.now.step = "cancelling"
      /\ setup' = [setup EXCEPT !.now = NoSetup]
  BY DEF SetupInstalls, AppRests, appVars
<1>3. c \in Configs /\ x \in Generations /\ HeardOf(x) /\ x # 0 /\ c # NoConfig
  BY <1>1, <1>2, Resets, GenerationFacts DEF TypesHold, SetupOK, HeardOf
<1>4. m \in Messages /\ m.gen = x
  BY <1>3 DEF Messages, Alive
<1>5. /\ setup'.inbox = setup.inbox /\ setup'.now = NoSetup /\ SetupOK'
  BY <1>1, <1>2, Resets DEF TypesHold, SetupOK
<1>6. TasksOK' /\ FaultsOK'
  BY <1>1, <1>2 DEF TypesHold, TasksOK, FaultsOK
<1> HIDE DEF c, m
<1>7. worker.owner \in {x, None} /\ setup.now.owned
  BY <1>1, <1>2 DEF StreamHolds, c
<1>8. CASE worker.stopped
  <2>1. worker' = [worker EXCEPT !.config = c] /\ UNCHANGED events
    BY <1>8 DEF SetupInstalls, c
  <2>2. /\ worker' \in Workers /\ worker'.owner = worker.owner /\ worker'.config = c
        /\ worker'.stream = worker.stream /\ worker'.stopped = worker.stopped
    BY <1>1, <1>3, <2>1 DEF TypesHold, WorkerOK, Workers
  <2>3. TypesHold'
    <3>1. WorkerOK' /\ EventsOK'
      BY <1>1, <2>1, <2>2 DEF TypesHold, WorkerOK, EventsOK
    <3>2. QED
      BY <1>1, <1>2, <1>5, <1>6, <3>1, WorkTypes
  <2>4. WorksFor(x)
    BY <1>2, <1>3, <1>5, <2>1, <2>2, Resets DEF WorksFor
  <2>5. StreamHolds'
    BY <1>1, <1>5, <1>8, <2>2, Resets DEF StreamHolds
  <2>6. BeliefsAreTrue'
    BY <1>1, <1>2, <1>8 DEF NativeHolds, BeliefsAreTrue, AppRests
  <2>7. QED
    BY <2>3, <2>4, <2>5, <2>6, WorkKeeps
<1>9. CASE ~worker.stopped
  <2>1. worker' = [worker EXCEPT !.config = c, !.stream = c] /\ events' = Append(events, m)
    BY <1>9 DEF SetupInstalls, Sends, c, m
  <2>2. /\ worker' \in Workers /\ worker'.owner = worker.owner /\ worker'.config = c
        /\ worker'.stream = c /\ worker'.stopped = worker.stopped
    BY <1>1, <1>3, <2>1 DEF TypesHold, WorkerOK, Workers
  <2>3. TypesHold'
    <3>1. WorkerOK'
      BY <2>2 DEF WorkerOK
    <3>2. QED
      BY <1>1, <1>2, <1>4, <1>5, <1>6, <2>1, <3>1, Told, WorkTypes
  <2>4. WorksFor(x)
    BY <1>2, <1>3, <1>4, <1>5, <2>1, <2>2, Resets DEF WorksFor, Tells
  <2>5. StreamHolds'
    BY <1>5, <1>7, <1>9, <2>2, Resets DEF StreamHolds
  <2>6. BeliefsAreTrue'
    <3> SUFFICES ASSUME native.gen # None, runtime.gen = native.gen, native.service, Believed',
                        x # native.gen
                 PROVE  FALSE
      BY <1>2, <2>2 DEF BeliefsAreTrue, AppRests
    <3>1. Believed
      BY <1>1, <1>2, <1>4, <2>1, Doubted DEF AppRests
    <3>2. QED
      BY <1>1, <1>2, <1>7, <3>1, FreshDoubted DEF SetupsAreInOrder, c
  <2>7. QED
    BY <2>3, <2>4, <2>5, <2>6, WorkKeeps
<1>10. QED
  BY <1>8, <1>9

LEMMA PositionTakenKeeps ==
  ASSUME TrackingInv, PositionTaken
  PROVE  TrackingInv'
<1> DEFINE c == worker.stream
           x == c.gen
           m == [is |-> "sampled", gen |-> x]
           u == [kind |-> "post", config |-> c, what |-> "off"]
<1>1. TypesHold /\ StreamHolds /\ BeliefsAreTrue
  BY DEF TrackingInv
<1>2. /\ AppRests /\ UNCHANGED <<setup, worker, faults>> /\ c # NoConfig
      /\ events' = Append(events, m) /\ tasks' = tasks \cup {u}
  BY DEF PositionTaken, Sends, AppRests, appVars
<1>3. c \in Configs /\ x \in Generations /\ HeardOf(x)
  BY <1>1, <1>2, Resets DEF TypesHold, WorkerOK, Workers, HeardOf
<1>4. m \in Messages /\ m.gen = x /\ u \in Tasks /\ u.kind = "post" /\ u.config = c
  BY <1>3 DEF Messages, Alive, Tasks
<1> HIDE DEF m, u
<1>5. TypesHold'
  <2>1. SetupOK' /\ WorkerOK' /\ FaultsOK'
    BY <1>1, <1>2 DEF TypesHold, SetupOK, WorkerOK, FaultsOK
  <2>2. TasksOK'
    BY <1>1, <1>2, <1>4 DEF TypesHold, TasksOK
  <2>3. QED
    BY <1>1, <1>2, <1>4, <2>1, <2>2, Told, WorkTypes
<1>6. WorksFor(x)
  BY <1>2, <1>3, <1>4 DEF WorksFor, Tells
<1>7. StreamHolds'
  BY <1>1, <1>2 DEF StreamHolds
<1>8. BeliefsAreTrue'
  <2> SUFFICES ASSUME native.gen # None, runtime.gen = native.gen, native.service, Believed',
                      x # native.gen
               PROVE  Busy(native.gen)'
    BY <1>2 DEF BeliefsAreTrue, AppRests
  <2>1. Believed
    BY <1>1, <1>2, <1>4, Doubted DEF AppRests
  <2>2. Busy(native.gen)
    BY <1>1, <2>1 DEF BeliefsAreTrue
  <2>3. QED
    BY <1>2, <2>2 DEF Busy, PausedFor, AppRests
<1>9. QED
  BY <1>5, <1>6, <1>7, <1>8, WorkKeeps

LEMMA StopsFinallyKeeps ==
  ASSUME TrackingInv, NEW t \in tasks, StopsFinally(t)
  PROVE  TrackingInv'
<1> DEFINE x == t.config.gen
           m == [is |-> t.what, gen |-> x]
<1>1. /\ TypesHold /\ NativeHolds /\ GensAreKnown /\ StreamHolds /\ SetupsAreInOrder
      /\ BeliefsAreTrue
  BY DEF TrackingInv
<1>2. /\ UNCHANGED <<server, app, reads, advance, actions, running, aside, runtime, setup, faults>>
      /\ t.kind = "stopping" /\ native' = StoppedBy(x) /\ tasks' = tasks \ {t}
      /\ events' = Append(events, m)
      /\ worker' = IF ~Stale(x) THEN Dead
                   ELSE [worker EXCEPT !.terminal = IF @ = x THEN None ELSE @]
  BY DEF StopsFinally, Sends, appVars
<1>3. /\ t \in Tasks /\ x \in Generations /\ HeardOf(x) /\ x # 0 /\ Known(x)
      /\ native.service /\ running.step # "starting"
  BY <1>1, TaskFacts, GenerationFacts, HeardOfKnown
<1>4. m \in Messages /\ m.gen = x /\ m.is \notin Alive
  <2>1. t.what \in {"unauthorized", "off", "not_found", "inactive", "network",
                    "location_unavailable"}
    BY <1>1, <1>2, TaskFacts
  <2>2. QED
    BY <1>3, <2>1 DEF Messages, Alive
<1>5. GivesUp(native')
  BY <1>1, <1>2, <1>3, StopsGiveUp DEF TypesHold
<1> HIDE DEF m
<1>6. EventsOK' /\ \A i \in DOMAIN events' :
        (i \in DOMAIN events /\ events'[i] = events[i]) \/ events'[i] = m
  BY <1>1, <1>2, <1>4, Told
<1>7. SetupOK' /\ TasksOK' /\ FaultsOK' /\ NativeOK'
  BY <1>1, <1>2, <1>5 DEF TypesHold, SetupOK, TasksOK, FaultsOK, NativeOK, GivesUp
<1>8. CASE ~Stale(x)
  <2>1. worker' = Dead
    BY <1>2, <1>8
  <2>2. native'.gen = None /\ native'.pending
    <3>1. CASE native.gen = x
      <4>1. ~native.pending
        BY <1>1, <1>3, <3>1 DEF NativeHolds
      <4>2. native' = [native EXCEPT !.gen = None, !.pending = native.service,
                                     !.stopped = @ \cup {x}]
        BY <1>2, <3>1, <4>1 DEF StoppedBy
      <4>3. QED
        BY <1>1, <1>3, <4>2 DEF TypesHold, NativeOK, Natives
    <3>2. CASE native.gen # x
      <4>1. x \in native.stopped /\ native' = native
        BY <1>2, <1>8, <3>2 DEF Stale, StoppedBy
      <4>2. native.pending
        BY <1>1, <1>3, <4>1 DEF NativeHolds
      <4>3. QED
        BY <1>1, <4>1, <4>2 DEF NativeHolds
    <3>3. QED
      BY <3>1, <3>2
  <2>3. TypesHold'
    BY <1>1, <1>2, <1>5, <1>6, <1>7, <2>1, Workless DEF TypesHold, ServerOK, AppOK, ReadsOK,
      AdvanceOK, ActionsOK, RunningOK, AsideOK, RuntimeOK, WorkerOK, GivesUp
  <2>4. NativeHolds'
    BY <1>1, <1>2, <1>3, <1>5, <2>2 DEF NativeHolds, GivesUp
  <2>5. GensAreKnown'
    <3>1. Known(0)
      BY <1>1, GenerationFacts DEF TypesHold, NativeOK, Natives, Known
    <3>2. QED
      BY <1>1, <1>2, <1>3, <1>4, <1>5, <1>6, <2>1, <3>1, Workless, Resets
         DEF GensAreKnown, Known, GivesUp
  <2>6. StreamHolds'
    BY <1>1, <1>2, <2>1, Workless DEF StreamHolds
  <2>7. SetupsAreInOrder' /\ BeliefsAreTrue'
    BY <2>2 DEF SetupsAreInOrder, BeliefsAreTrue
  <2>8. QED
    BY <2>3, <2>4, <2>5, <2>6, <2>7 DEF TrackingInv
<1>9. CASE Stale(x)
  <2>1. native.gen # x /\ native' = native
    BY <1>2, <1>9 DEF Stale, StoppedBy
  <2>2. AppRests
    BY <1>2, <2>1 DEF AppRests
  <2>3. /\ worker' \in Workers /\ worker'.owner = worker.owner /\ worker'.config = worker.config
        /\ worker'.stream = worker.stream /\ worker'.stopped = worker.stopped
        /\ worker'.buffer = worker.buffer
        /\ worker'.terminal = IF worker.terminal = x THEN None ELSE worker.terminal
    BY <1>1, <1>2, <1>9 DEF TypesHold, WorkerOK, Workers
  <2>4. TypesHold'
    <3>1. WorkerOK'
      BY <2>3 DEF WorkerOK
    <3>2. QED
      BY <1>1, <1>6, <1>7, <2>2, <3>1, WorkTypes
  <2>5. WorksFor(x)
    BY <1>2, <1>3, <1>4, <2>2, <2>3 DEF WorksFor, Tells
  <2>6. StreamHolds'
    BY <1>1, <1>2, <2>3 DEF StreamHolds
  <2>7. BeliefsAreTrue'
    <3> SUFFICES ASSUME native.gen # None, runtime.gen = native.gen, native.service, Believed'
                 PROVE  worker.stream.gen = native.gen \/ Busy(native.gen)'
      BY <2>2, <2>3 DEF BeliefsAreTrue, AppRests
    <3>1. Believed
      BY <1>1, <1>2, <1>4, <2>1, Doubted
    <3>2. worker.stream.gen = native.gen \/ Busy(native.gen)
      BY <1>1, <3>1 DEF BeliefsAreTrue
    <3>3. \A s \in tasks : s.config.gen = native.gen => s \in tasks'
      BY <1>2, <2>1
    <3>4. \A s \in tasks : s.config.gen = native.gen /\ PausedFor(s.config)
            => PausedFor(s.config)'
      BY <2>3 DEF PausedFor
    <3>5. QED
      BY <1>2, <2>1, <3>2, <3>3, <3>4 DEF Busy
  <2>8. QED
    BY <2>4, <2>5, <2>6, <2>7, WorkKeeps
<1>10. QED
  BY <1>8, <1>9

-----------------------------------------------------------------------------
(* The theorems.                                                           *)

LEMMA TrackingStep == TrackingInv /\ [TrackingNext]_trackingVars => TrackingInv'
<1> SUFFICES ASSUME TrackingInv, [TrackingNext]_trackingVars PROVE TrackingInv'
  OBVIOUS
<1>1. CASE \/ AuthorityEnds \/ ActionBegins \/ CollectorReady \/ CollectorMissing
           \/ ActionStopped \/ AdvanceSent \/ AdvanceArrives \/ LogoutBegins \/ AsideEnds
  <2>1. TypesHold' /\ Decides
    BY <1>1, AuthorityEndsWell, ActionBeginsWell, CollectorReadyWell, CollectorMissingWell,
       ActionStoppedWell, AdvanceSentWell, AdvanceArrivesWell, AsideWell
  <2>2. QED
    BY <2>1, DecidesKeeps
<1>2. ASSUME NEW r \in Reads,
             ReadBegins(r) \/ DashboardArrives(r) \/ ReadAnswered(r) \/ ReadArrives(r)
      PROVE  TrackingInv'
  <2>1. TypesHold' /\ Decides
    BY <1>2, ReadBeginsWell, DashboardArrivesWell, ReadAnsweredWell,
       ReadArrivesWell
  <2>2. QED
    BY <2>1, DecidesKeeps
<1>3. CASE \/ ServiceEnds \/ ServiceStarts \/ EventArrives \/ SetupBegins \/ SetupOwned
           \/ SetupInstalls \/ PositionTaken \/ LocationLost
  BY <1>3, ServiceEndsKeeps, ServiceStartsKeeps, EventArrivesKeeps, SetupBeginsKeeps,
     SetupOwnedKeeps, SetupInstallsKeeps, PositionTakenKeeps, LocationLostKeeps
<1>4. ASSUME NEW t \in tasks,
             \/ PostAnswered(t) \/ Paused(t) \/ AuthorityAnswered(t) \/ AuthorityArrives(t)
             \/ Restored(t) \/ StopsFinally(t)
      PROVE  TrackingInv'
  BY <1>4, PostAnsweredKeeps, PausedKeeps, AuthorityAnsweredKeeps, AuthorityArrivesKeeps,
     RestoredKeeps, StopsFinallyKeeps
<1>5. CASE UNCHANGED trackingVars
  <2>1. TypesHold'
    BY <1>5 DEF trackingVars, appVars, workerVars, TrackingInv, TypesHold, ServerOK, AppOK,
      ReadsOK, AdvanceOK, ActionsOK, RunningOK, AsideOK, RuntimeOK, NativeOK, SetupOK, WorkerOK,
      TasksOK, EventsOK, FaultsOK
  <2>2. NativeHolds' /\ GensAreKnown' /\ StreamHolds'
    BY <1>5 DEF trackingVars, appVars, workerVars, TrackingInv, NativeHolds, GensAreKnown, Known,
      StreamHolds
  <2>3. SetupsAreInOrder' /\ BeliefsAreTrue'
    BY <1>5 DEF trackingVars, appVars, workerVars, TrackingInv, SetupsAreInOrder, Fresh,
      BeliefsAreTrue, Believed, LastWord, Busy, PausedFor
  <2>4. QED
    BY <2>1, <2>2, <2>3 DEF TrackingInv
<1>6. QED
  BY <1>1, <1>2, <1>3, <1>4, <1>5 DEF TrackingNext

(* The invariant that the others follow from.                              *)
THEOREM TrackingInvariance == TrackingSpec => []TrackingInv
<1>1. TrackingInit => TrackingInv
  BY FirstTracking
<1>2. TrackingInv /\ [TrackingNext]_trackingVars => TrackingInv'
  BY TrackingStep
<1>3. QED
  BY <1>1, <1>2, PTL DEF TrackingSpec

(* Every variable of the app, of the worker and of the native authority    *)
(* keeps its type.                                                         *)
THEOREM TrackingTypes == TrackingSpec => []TrackingTypeOK
<1>1. TrackingInv => TrackingTypeOK
  BY TypesSuffice DEF TrackingInv
<1>2. QED
  BY <1>1, TrackingInvariance, PTL

(* When the app takes its collector for running, and the worker has told   *)
(* all it has to tell, the collector of that generation collects: a        *)
(* reconciliation that does nothing has nothing to do.                     *)
THEOREM NoOpsTrue == TrackingSpec => []NoOpsAreTrue
<1>1. TrackingInv => NoOpsAreTrue
  <2> SUFFICES ASSUME TrackingInv, IsRunning, ~Unsettled
               PROVE  worker.stream.gen = runtime.gen
    BY DEF NoOpsAreTrue
  <2>1. /\ runtime.active /\ native.gen = runtime.gen /\ native.service /\ native.gen # None
    BY DEF IsRunning, TrackingInv, TypesHold, RuntimeOK
  <2>2. events = <<>> /\ setup.now.step = "idle" /\ \A t \in tasks : t.kind = "post"
    BY DEF Unsettled
  <2>3. Believed
    BY <2>1, <2>2 DEF Believed, LastWord
  <2>4. ~Busy(native.gen)
    BY <2>2 DEF Busy
  <2>5. QED
    BY <2>1, <2>3, <2>4 DEF TrackingInv, BeliefsAreTrue
<1>2. QED
  BY <1>1, TrackingInvariance, PTL

(* Who gives up the current generation: an action of the app, a stop       *)
(* beside the actions, or the worker's own stop of that generation.        *)
LEMMA GivenUpBy ==
  ASSUME TrackingInv, TrackingNext, native.gen # None, native'.gen = None
  PROVE  \/ running' # running \/ aside' # aside
         \/ \E t \in tasks \ tasks' : t.kind = "stopping" /\ t.config.gen = native.gen
<1>1. TypesHold /\ NativeHolds
  BY DEF TrackingInv
<1>2. native' # native /\ ~native.pending
  BY <1>1 DEF NativeHolds
<1>3. CASE ActionBegins
  <2> DEFINE a == Head(actions)
  <2>1. running.step = "idle"
    BY <1>3 DEF ActionBegins
  <2>2. CASE ActionStops(a.by, a.says)
    <3>1. running' = [NoAction EXCEPT !.step = StopStep, !.by = a.by, !.says = a.says]
      BY <2>2 DEF ActionStops
    <3>2. running'.step = StopStep
      BY <3>1 DEF NoAction
    <3>3. QED
      BY <2>1, <3>2 DEF StopStep
  <2>3. CASE ActionStarts(a.by, a.says)
    <3>1. native'.gen = native.last + 1 /\ native.last \in Nat
      BY <1>1, <2>3, ClaimMade, GenerationFacts DEF ActionStarts, TypesHold, NativeOK, Natives
    <3>2. QED
      BY <3>1
  <2>4. CASE UNCHANGED native
    BY <1>2, <2>4
  <2>5. QED
    BY <1>3, <2>2, <2>3, <2>4 DEF ActionBegins, ActionIsOver, ActionUpdates, ActionRefused
<1>4. CASE ServiceStarts
  BY <1>4, Resets DEF ServiceStarts, Configures, Ends
<1>5. CASE CollectorMissing
  <2>1. running.step = "awaiting" /\ running'.step # "awaiting"
    BY <1>1, <1>5 DEF CollectorMissing, TypesHold, RunningOK, Runnings
  <2>2. QED
    BY <2>1
<1>6. CASE ActionStopped
  <2>1. running.kind = "update" /\ ActionStops(running.by, running.says)
    BY <1>2, <1>6 DEF ActionStopped
  <2>2. running' = [NoAction EXCEPT !.step = StopStep, !.by = running.by, !.says = running.says]
    BY <2>1 DEF ActionStops
  <2>3. running'.kind = "stop"
    BY <2>2 DEF NoAction
  <2>4. QED
    BY <2>1, <2>3
<1>7. CASE \E why : AsideBegins(why)
  <2>1. PICK why : AsideBegins(why)
    BY <1>7
  <2>2. aside.step = "idle" /\ aside'.step = StopStep
    BY <2>1 DEF AsideBegins
  <2>3. QED
    BY <2>2 DEF StopStep
<1>8. CASE EventArrives
  BY <1>2, <1>8 DEF EventArrives
<1>9. ASSUME NEW t \in tasks, StopsFinally(t)
      PROVE  t \in tasks \ tasks' /\ t.kind = "stopping" /\ t.config.gen = native.gen
  BY <1>2, <1>9 DEF StopsFinally, StoppedBy
<1>10. CASE ServiceEnds
  BY <1>2, <1>10 DEF ServiceEnds
<1>11. CASE \/ AuthorityEnds \/ CollectorReady \/ AdvanceSent \/ AsideEnds \/ SetupBegins
            \/ SetupOwned \/ SetupInstalls \/ PositionTaken \/ LocationLost
            \/ \E r \in Reads : ReadBegins(r) \/ ReadAnswered(r)
            \/ \E t \in tasks : \/ PostAnswered(t) \/ Paused(t) \/ AuthorityAnswered(t)
                                \/ AuthorityArrives(t) \/ Restored(t)
  BY <1>2, <1>11 DEF AuthorityEnds, CollectorReady, AdvanceSent, AsideEnds, SetupBegins,
    SetupOwned, SetupInstalls, PositionTaken, LocationLost, ReadBegins, ReadAnswered,
    PostAnswered, Paused, AuthorityAnswered, AuthorityArrives, Restored
<1>12. CASE AdvanceArrives \/ LogoutBegins \/ \E r \in Reads : DashboardArrives(r) \/ ReadArrives(r)
  <2>1. \E why : AsideBegins(why)
    BY <1>2, <1>12 DEF AdvanceArrives, LogoutBegins, DashboardArrives, ReadArrives
  <2>2. QED
    BY <1>7, <2>1
<1>13. QED
  BY <1>3, <1>4, <1>5, <1>6, <1>8, <1>9, <1>10, <1>11, <1>12 DEF TrackingNext

(* A stop that was decided upon for one generation never ends the service  *)
(* of another that has adopted it since.                                   *)
THEOREM ReplacementsLive == TrackingSpec => ReplacementsSurvive
<1>1. TrackingInv /\ [TrackingNext]_trackingVars =>
        [native.gen # None /\ native'.gen = None =>
           \/ running' # running \/ aside' # aside
           \/ \E t \in tasks \ tasks' : t.kind = "stopping" /\ t.config.gen = native.gen]_trackingVars
  <2> SUFFICES ASSUME TrackingInv, TrackingNext, native.gen # None, native'.gen = None
               PROVE  \/ running' # running \/ aside' # aside
                      \/ \E t \in tasks \ tasks' :
                           t.kind = "stopping" /\ t.config.gen = native.gen
    OBVIOUS
  <2>1. QED
    BY GivenUpBy
<1>2. QED
  BY <1>1, TrackingInvariance, PTL DEF TrackingSpec, ReplacementsSurvive

=============================================================================
