--------------------------- MODULE ProviderTracking ---------------------------
(* How the provider's app collects positions for its one job on the way.    *)
(*                                                                          *)
(* Three parties decide about one Android foreground service: the app,      *)
(* which reads the server's authority and runs its actions on the runtime   *)
(* one after the other; the worker inside the service, which collects and   *)
(* sends positions and recovers from failures on its own; and the native    *)
(* authority, which both ask before the service is stopped. They talk over  *)
(* channels, and every await lets the others go on. A generation names one  *)
(* start or adoption of the service. The location permission is granted     *)
(* until the position stream fails, and the service ends within the time    *)
(* that a stop waits for it.                                                *)
EXTENDS Integers, Sequences, FiniteSets

CONSTANTS
    Called,             \* the calls of reconcile that a behaviour may hold
    MaxGenerations,     \* bound of the generations claimed
    MaxFaults,          \* bound of the calls that fail
    MaxEvents           \* bound of the events on their way to the app

ASSUME TrackingAssumption ==
    /\ Called \subseteq {"restore", "refresh"}
    /\ MaxGenerations \in Nat \ {0} /\ MaxFaults \in Nat /\ MaxEvents \in Nat \ {0}

VARIABLES
    server,     \* the job's status and whether the bearer token is valid
    app,        \* signed in or not, and _authorityRevision
    reads,      \* the calls of reconcile
    advance,    \* the transition the provider has asked for
    actions,    \* the queue behind _runtimeActionTail
    running,    \* the action at its head, once it has begun
    aside,      \* the stop of a sign-out, of an expiry or of a failed refresh
    runtime,    \* FlutterProviderTrackingRuntime
    native,     \* ProviderTrackingServiceAuthorityState, and the service
    setup,      \* the configurations behind _configurationTail
    worker,     \* ProviderTrackingTaskHandler
    tasks,      \* its continuations
    events,     \* its messages to the app
    faults      \* the calls that have failed

appVars == <<app, reads, advance, actions, running, aside>>
workerVars == <<setup, worker, tasks>>
trackingVars == <<server, appVars, runtime, native, workerVars, events, faults>>

None == 0                           \* no generation
Generations == 1..MaxGenerations
Trackable == {"on_the_way", "in_progress"}
Says == Trackable \cup {"off"}
Reads == {"restore", "refresh"}     \* the one at start, and an explicit one

Configs == [gen : Generations, status : Trackable, by : {"app", "worker"}]
NoConfig == [gen |-> None, status |-> "off", by |-> "app"]

NoRead == [step |-> "idle", revision |-> 0, off |-> FALSE, says |-> "off"]
NoRuntime == [gen |-> None, active |-> FALSE, status |-> "off"]
NoAction == [step |-> "idle", kind |-> "stop", by |-> "advance", says |-> "off",
             ack |-> "none"]
NoSetup == [step |-> "idle", config |-> NoConfig, owned |-> FALSE]
Blank == [owner |-> None, config |-> NoConfig, stream |-> NoConfig,
          buffer |-> None, terminal |-> None, stopped |-> FALSE]
Dead == [Blank EXCEPT !.stopped = TRUE]

Tasks == [kind : {"post", "pausing", "reading", "read", "restoring", "stopping"},
          config : Configs, what : Says \cup {"unauthorized", "not_found", "inactive",
                                              "network", "location_unavailable"}]

TrackingTypeOK ==
    /\ server \in [job : {"assigned", "off"} \cup Trackable, bearer : BOOLEAN]
    /\ app \in [signedIn : BOOLEAN, revision : Nat]
    /\ reads \in [Reads -> [step : {"idle", "loading", "claimed", "answered", "queued",
                                    "done"},
                            revision : Nat, off : BOOLEAN,
                            says : Says \cup {"failed", "unauthorized"}]]
    /\ advance \in [step : {"idle", "sent", "queued"},
                    says : Says \cup {"refused", "unauthorized"}]
    /\ \A i \in DOMAIN actions :
           actions[i] \in [by : Reads \cup {"advance"}, says : Says, revision : Nat]
    /\ running \in [step : {"idle", "starting", "awaiting", "stopping", "stopped"},
                    kind : {"start", "update", "stop"},
                    by : Reads \cup {"advance"}, says : Says,
                    ack : {"none", "yes", "no"}]
    /\ aside \in [step : {"idle", "stopping", "stopped"},
                  why : {"logout", "expiry", "refresh"}]
    /\ runtime \in [gen : Generations \cup {None}, active : BOOLEAN, status : Says]
    /\ native \in [gen : Generations \cup {None}, last : 0..MaxGenerations,
                   pending : BOOLEAN, service : BOOLEAN, stopped : SUBSET Generations]
    /\ setup.now \in [step : {"idle", "asked", "cancelling"},
                      config : Configs \cup {NoConfig}, owned : BOOLEAN]
    /\ \A i \in DOMAIN setup.inbox : setup.inbox[i] \in Configs
    /\ worker \in [owner : Generations \cup {None}, config : Configs \cup {NoConfig},
                   stream : Configs \cup {NoConfig}, buffer : Generations \cup {None},
                   terminal : Generations \cup {None}, stopped : BOOLEAN]
    /\ tasks \subseteq Tasks
    /\ \A i \in DOMAIN events : events[i].gen \in Generations
    /\ faults \in 0..MaxFaults

\* The app is opened with a session token. The service may have survived an
\* earlier app, and still collects under the generation that one claimed.
TrackingInit ==
    /\ app = [signedIn |-> TRUE, revision |-> 0]
    /\ reads = [r \in Reads |-> NoRead]
    /\ advance = [step |-> "idle", says |-> "off"]
    /\ actions = <<>> /\ running = NoAction
    /\ aside = [step |-> "idle", why |-> "logout"]
    /\ runtime = NoRuntime
    /\ setup = [inbox |-> <<>>, now |-> NoSetup]
    /\ tasks = {} /\ events = <<>> /\ faults = 0
    /\ \/ /\ server \in [job : {"assigned", "on_the_way"}, bearer : {TRUE}]
          /\ native = [gen |-> None, last |-> 0, pending |-> FALSE,
                       service |-> FALSE, stopped |-> {}]
          /\ worker = Dead
       \/ LET old == [gen |-> 1, status |-> "on_the_way", by |-> "app"] IN
          /\ server \in [job : {"on_the_way"}, bearer : {TRUE}]
          /\ native = [gen |-> 1, last |-> 1, pending |-> FALSE,
                       service |-> TRUE, stopped |-> {}]
          /\ worker = [Blank EXCEPT !.owner = 1, !.buffer = 1,
                                    !.config = old, !.stream = old]

Fails == faults < MaxFaults /\ faults' = faults + 1

-----------------------------------------------------------------------------
(* The server, and the native authority.                                    *)

Authority ==
    IF ~server.bearer THEN "unauthorized"
    ELSE IF server.job \in Trackable THEN server.job ELSE "off"

\* The job is cancelled or taken away, or the provider's sessions are revoked.
AuthorityEnds ==
    /\ \/ server.job # "off" /\ server' = [server EXCEPT !.job = "off"]
       \/ server.bearer /\ server' = [server EXCEPT !.bearer = FALSE]
    /\ UNCHANGED <<appVars, runtime, native, workerVars, events, faults>>

Stale(g) == native.gen # g /\ g \notin native.stopped

\* Mutant: whoever asks stops the service, whatever runs in it now.
StoppedByAnyone(g) ==
    IF native.pending THEN native
    ELSE [native EXCEPT !.gen = None, !.pending = native.service, !.stopped = @ \cup {g}]

\* stopGeneration
StoppedBy(g) ==
    IF native.gen # g \/ native.pending THEN native
    ELSE [native EXCEPT !.gen = None, !.pending = native.service, !.stopped = @ \cup {g}]

\* stopForZeroAuthority
StoppedForZero ==
    IF native.pending THEN native
    ELSE [native EXCEPT !.gen = None, !.pending = native.service]

\* claimGeneration
MayClaim == ~(native.pending /\ native.service) /\ native.last < MaxGenerations
Claimed == [native EXCEPT !.gen = native.last + 1, !.last = @ + 1, !.pending = FALSE]

\* Android ends the service: onDestroy, and the worker's isolate is gone.
ServiceEnds ==
    /\ native.pending
    /\ native' = [native EXCEPT !.service = FALSE, !.pending = FALSE]
    /\ worker' = Dead
    /\ setup' = [inbox |-> <<>>, now |-> NoSetup]
    /\ tasks' = {}
    /\ UNCHANGED <<server, appVars, runtime, events, faults>>

-----------------------------------------------------------------------------
(* The runtime. Its owning a service and having a generation are one.       *)

IsRunning == runtime.active /\ native.gen = runtime.gen /\ native.service
Matches(says) == runtime.gen # None /\ runtime.status = says

\* The first half of stop(): the decision, and whether it waits for the service.
StopBegins ==
    native' = IF runtime.gen # None THEN StoppedBy(runtime.gen) ELSE StoppedForZero
StopStep == IF runtime.gen # None /\ Stale(runtime.gen) THEN "stopped" ELSE "stopping"

IsOver(step) == step = "stopped" \/ (step = "stopping" /\ ~native.service)

\* The end of an action: the next one may begin. A read that failed is repeated.
Ends(by, again) ==
    /\ running' = NoAction
    /\ IF by = "advance"
       THEN advance' = [step |-> "idle", says |-> "off"] /\ UNCHANGED reads
       ELSE /\ reads' = [reads EXCEPT ![by] =
                             IF again THEN [@ EXCEPT !.step = "claimed"]
                             ELSE [NoRead EXCEPT !.step = "done"]]
            /\ UNCHANGED advance

\* stopAndClear, as an action.
ActionStops(by, says) ==
    /\ StopBegins
    /\ running' = [NoAction EXCEPT !.step = StopStep, !.by = by, !.says = says]
    /\ UNCHANGED <<reads, advance, runtime, workerVars>>

\* The configuration goes to the worker, if there is one, and the action waits.
Configures(kind, by, config) ==
    /\ runtime' = [gen |-> config.gen, active |-> FALSE, status |-> config.status]
    /\ setup' = [setup EXCEPT !.inbox = IF native'.service THEN Append(@, config) ELSE @]
    /\ running' = [step |-> "awaiting", kind |-> kind, by |-> by,
                   says |-> config.status, ack |-> "none"]

\* start(): a live service is adopted; otherwise one will be started.
ActionStarts(by, says) ==
    /\ MayClaim
    /\ native' = Claimed
    /\ IF native.service
       THEN Configures("start", by, [gen |-> native'.gen, status |-> says, by |-> "app"])
       ELSE /\ runtime' = NoRuntime
            /\ running' = [NoAction EXCEPT !.step = "starting", !.kind = "start",
                                           !.by = by, !.says = says]
            /\ UNCHANGED setup
    /\ UNCHANGED <<reads, advance, worker, tasks>>

\* start() while the service is ending: the claim is refused.
ActionRefused(by) ==
    /\ native.pending /\ native.service
    /\ runtime' = NoRuntime
    /\ Ends(by, FALSE)
    /\ UNCHANGED <<native, workerVars>>

\* update()
ActionUpdates(by, says) ==
    /\ UNCHANGED native
    /\ Configures("update", by, [gen |-> runtime.gen, status |-> says, by |-> "app"])
    /\ UNCHANGED <<reads, advance, worker, tasks>>

\* Nothing is done: there is no need, or no collector to update.
ActionIsOver(by) ==
    /\ Ends(by, FALSE)
    /\ UNCHANGED <<runtime, native, workerVars>>

\* _applyIfCurrent; a transition is always applied.
Applies(a) == a.by # "advance" => a.revision = app.revision

\* isRunning, and matches
NoOp(says) == IsRunning /\ Matches(says)

ActionBegins ==
    /\ running.step = "idle" /\ actions # <<>>
    /\ actions' = Tail(actions)
    /\ LET a == Head(actions)
           moves == a.by = "advance" /\ a.says = "in_progress" IN
       \/ ~Applies(a) /\ ActionIsOver(a.by)
       \/ Applies(a) /\ a.says = "off" /\ ActionStops(a.by, a.says)
       \/ /\ Applies(a) /\ a.says # "off"
          /\ \/ (NoOp(a.says) \/ (moves /\ ~IsRunning)) /\ ActionIsOver(a.by)
             \/ IsRunning /\ ~Matches(a.says) /\ ActionUpdates(a.by, a.says)
             \/ ~IsRunning /\ ~moves /\ (ActionStarts(a.by, a.says) \/ ActionRefused(a.by))
    /\ UNCHANGED <<server, app, aside, events, faults>>

\* Android starts the service, with a worker that knows nothing, or refuses.
ServiceStarts ==
    /\ running.step = "starting"
    /\ \/ /\ native' = [native EXCEPT !.service = TRUE, !.stopped = {}]
          /\ worker' = Blank
          /\ Configures("start", running.by, [gen |-> native.last,
                                              status |-> running.says, by |-> "app"])
          /\ UNCHANGED <<reads, advance, faults>>
       \/ /\ Fails
          /\ native' = [native EXCEPT !.gen = IF @ = native.last THEN None ELSE @]
          /\ runtime' = NoRuntime
          /\ Ends(running.by, FALSE)
          /\ UNCHANGED <<worker, setup>>
    /\ UNCHANGED <<server, app, actions, aside, tasks, events>>

\* _configureAndAwaitCollector: the worker has acknowledged ...
CollectorReady ==
    /\ running.step = "awaiting" /\ running.ack = "yes" /\ IsRunning
    /\ Ends(running.by, FALSE)
    /\ UNCHANGED <<server, app, actions, aside, runtime, native, workerVars, events, faults>>

\* ... or has ended, or five seconds are over: the service is stopped, if it is
\* still this generation's.
CollectorMissing ==
    /\ running.step = "awaiting"
    /\ \/ running.ack = "none" /\ Fails
       \/ running.ack # "none" /\ ~(running.ack = "yes" /\ IsRunning) /\ UNCHANGED faults
    /\ native' = StoppedBy(native.last)
    /\ running' = [running EXCEPT !.step =
                       IF Stale(native.last) THEN "stopped" ELSE "stopping"]
    /\ UNCHANGED <<server, app, reads, advance, actions, aside, runtime, workerVars, events>>

\* The second half of a stop, and of a start or an update that failed.
ActionStopped ==
    /\ IsOver(running.step)
    /\ IF running.kind = "update" /\ running.by # "advance"
       THEN ActionStops(running.by, running.says)
       ELSE /\ runtime' = IF running.kind = "update" THEN runtime ELSE NoRuntime
            /\ Ends(running.by, running.kind = "stop" /\ running.by # "advance"
                                /\ reads[running.by].says = "failed")
            /\ UNCHANGED <<native, workerVars>>
    /\ UNCHANGED <<server, app, actions, aside, events, faults>>

-----------------------------------------------------------------------------
(* The app: what it asks the server, and what it asks of the runtime.       *)

\* The buttons that are disabled while _submitting.
Submitting == advance.step # "idle" \/ reads["refresh"].step \notin {"idle", "done"}

Claims(r) == reads' = [reads EXCEPT ![r].step = "claimed", ![r].revision = app.revision]

\* A stop beside the actions: it claims no revision and waits for nobody.
AsideBegins(why) ==
    /\ aside.step = "idle"
    /\ StopBegins
    /\ aside' = [step |-> StopStep, why |-> why]

\* The app is restored, or refreshed by the provider: the dashboard is read.
ReadBegins(r) ==
    /\ r \in Called /\ reads[r].step = "idle" /\ app.signedIn
    /\ r = "refresh" => ~Submitting
    /\ reads' = [reads EXCEPT ![r].step = "loading"]
    /\ UNCHANGED <<server, app, advance, actions, running, aside, runtime, native,
                   workerVars, events, faults>>

\* The dashboard arrives, with the token it was read with, and reconcile is
\* called. Without it a refresh stops the tracking, and a restored session ends.
DashboardArrives(r) ==
    /\ reads[r].step = "loading"
    /\ \/ /\ Claims(r)
          /\ app' = [app EXCEPT !.signedIn = TRUE]
          /\ UNCHANGED <<aside, native, faults>>
       \/ /\ \/ ~server.bearer /\ AsideBegins("expiry") /\ UNCHANGED faults
             \/ Fails /\ AsideBegins(IF r = "refresh" THEN "refresh" ELSE "expiry")
          /\ reads' = [reads EXCEPT ![r].step = "done"]
          /\ UNCHANGED app
    /\ UNCHANGED <<server, advance, actions, running, runtime, workerVars, events>>

\* One reconcile at a time has its GET answered.
ReadAnswered(r) ==
    /\ reads[r].step = "claimed"
    /\ \A o \in Reads \ {r} : reads[o].step \notin {"answered", "queued"}
    /\ \/ reads' = [reads EXCEPT ![r].step = "answered", ![r].says = Authority]
          /\ UNCHANGED faults
       \/ reads' = [reads EXCEPT ![r].step = "answered", ![r].says = "failed"] /\ Fails
    /\ UNCHANGED <<server, app, advance, actions, running, aside, runtime, native,
                   workerVars, events>>

Queues(by, says, revision) ==
    actions' = Append(actions, [by |-> by, says |-> says, revision |-> revision])

\* The answer of a reconcile arrives: its action waits for those before it.
\* The first failure stops the runtime; another read follows, up to a limit.
ReadArrives(r) ==
    LET says == reads[r].says IN
    /\ reads[r].step = "answered"
    /\ CASE says = "unauthorized" ->
              /\ AsideBegins("expiry")
              /\ reads' = [reads EXCEPT ![r] = [NoRead EXCEPT !.step = "done"]]
              /\ UNCHANGED actions
         [] says = "failed" /\ reads[r].off ->
              /\ \/ reads' = [reads EXCEPT ![r].step = "claimed"]
                 \/ reads' = [reads EXCEPT ![r] = [NoRead EXCEPT !.step = "done"]]
              /\ UNCHANGED <<actions, aside, native>>
         [] OTHER ->
              /\ reads' = [reads EXCEPT ![r].step = "queued",
                                        ![r].off = @ \/ says = "failed"]
              /\ Queues(r, IF says = "failed" THEN "off" ELSE says, reads[r].revision)
              /\ UNCHANGED <<aside, native>>
    /\ UNCHANGED <<server, app, advance, running, runtime, workerVars, events, faults>>

NextStatus == [assigned |-> "on_the_way", on_the_way |-> "in_progress", in_progress |-> "off"]

\* _advance: the provider moves the job on, and the server answers.
AdvanceSent ==
    /\ app.signedIn /\ ~Submitting
    /\ IF server.bearer /\ server.job # "off"
       THEN /\ server' = [server EXCEPT !.job = NextStatus[@]]
            /\ advance' = [step |-> "sent", says |-> server'.job]
       ELSE /\ advance' = [step |-> "sent",
                           says |-> IF server.bearer THEN "refused" ELSE "unauthorized"]
            /\ UNCHANGED server
    /\ UNCHANGED <<app, reads, actions, running, aside, runtime, native, workerVars,
                   events, faults>>

\* The answer arrives, or is lost: applyAuthoritativeTransition.
AdvanceArrives ==
    /\ advance.step = "sent"
    /\ \/ /\ advance.says \in Says
          /\ app' = [app EXCEPT !.revision = @ + 1]
          /\ Queues("advance", advance.says, app.revision + 1)
          /\ advance' = [advance EXCEPT !.step = "queued"]
          /\ UNCHANGED <<aside, native, faults>>
       \/ /\ advance.says = "unauthorized"
          /\ AsideBegins("expiry")
          /\ advance' = [step |-> "idle", says |-> "off"]
          /\ UNCHANGED <<app, actions, faults>>
       \/ /\ \/ advance.says = "refused" /\ UNCHANGED faults
             \/ Fails
          /\ advance' = [step |-> "idle", says |-> "off"]
          /\ UNCHANGED <<app, actions, aside, native>>
    /\ UNCHANGED <<server, reads, running, runtime, workerVars, events>>

\* _logout, up to its wait for the service.
LogoutBegins ==
    /\ app.signedIn /\ ~Submitting
    /\ AsideBegins("logout")
    /\ UNCHANGED <<server, app, reads, advance, actions, running, runtime, workerVars,
                   events, faults>>

\* The rest of stop(), of _logout with its best-effort call, of _expireSession.
AsideEnds ==
    /\ aside.step # "idle" /\ IsOver(aside.step)
    /\ aside' = [step |-> "idle", why |-> "logout"]
    /\ runtime' = NoRuntime
    /\ app' = [app EXCEPT !.signedIn = @ /\ aside.why = "refresh"]
    /\ \/ aside.why = "logout" /\ server' = [server EXCEPT !.bearer = FALSE] /\ UNCHANGED faults
       \/ aside.why = "logout" /\ Fails /\ UNCHANGED server
       \/ aside.why # "logout" /\ UNCHANGED <<server, faults>>
    /\ UNCHANGED <<reads, advance, actions, running, native, workerVars, events>>

Acknowledged(is) ==
    running' = IF running.step = "awaiting" /\ running.ack = "none"
               THEN [running EXCEPT !.ack = is] ELSE running

\* A message of an earlier generation is ignored.
OfThisGeneration(e) == e.gen = runtime.gen

\* _onTaskData, and what the app does about it.
EventArrives ==
    /\ events # <<>>
    /\ events' = Tail(events)
    /\ LET e == Head(events) IN
       IF ~OfThisGeneration(e) THEN UNCHANGED <<runtime, running, aside, native, reads>>
       ELSE CASE e.is \in {"started", "sampled", "restored"} ->
                   /\ runtime' = [runtime EXCEPT !.active = TRUE]
                   /\ IF e.is = "started" THEN Acknowledged("yes") ELSE UNCHANGED running
                   /\ UNCHANGED <<aside, native, reads>>
              [] e.is = "paused" ->
                   /\ runtime' = [runtime EXCEPT !.active = FALSE]
                   /\ UNCHANGED <<running, aside, native, reads>>
              [] OTHER ->
                   /\ runtime' = NoRuntime
                   /\ Acknowledged("no")
                   /\ IF e.is = "unauthorized" /\ aside.step = "idle"
                      THEN /\ native' = StoppedForZero
                           /\ aside' = [step |-> "stopping", why |-> "expiry"]
                      ELSE UNCHANGED <<aside, native>>
                   /\ IF /\ e.is \in {"not_found", "inactive"} /\ app.signedIn
                         /\ "refresh" \in Called /\ reads["refresh"].step = "idle"
                      THEN reads' = [reads EXCEPT !["refresh"].step = "loading"]
                      ELSE UNCHANGED reads
    /\ UNCHANGED <<server, app, advance, actions, workerVars, faults>>

-----------------------------------------------------------------------------
(* The worker.                                                              *)

Sends(is, g) == events' = Append(events, [is |-> is, gen |-> g])

\* Mutant: whatever collects now is taken to be the continuation's own.
OwnsAnything(c) == ~worker.stopped

OwnsConfiguration(c) ==
    ~worker.stopped /\ worker.config = c /\ worker.owner = c.gen /\ worker.terminal # c.gen

PausedFor(c) ==
    /\ ~worker.stopped /\ worker.owner = c.gen /\ worker.terminal # c.gen
    /\ worker.config = NoConfig /\ worker.stream = NoConfig /\ worker.buffer = None

Deaf(c) == worker.stopped \/ c.gen = worker.terminal

\* The next configuration is taken up: is its generation still the current one?
SetupBegins ==
    /\ setup.now.step = "idle" /\ setup.inbox # <<>>
    /\ LET c == Head(setup.inbox) IN
       setup' = [inbox |-> Tail(setup.inbox),
                 now |-> IF Deaf(c) THEN NoSetup
                         ELSE [step |-> "asked", config |-> c, owned |-> native.gen = c.gen]]
    /\ UNCHANGED <<server, appVars, runtime, native, worker, tasks, events, faults>>

\* It is: unless nothing changes, the position stream is cancelled first.
SetupOwned ==
    LET c == setup.now.config IN
    /\ setup.now.step = "asked"
    /\ \/ /\ ~setup.now.owned \/ Deaf(c)
          /\ setup' = [setup EXCEPT !.now = NoSetup]
          /\ UNCHANGED <<worker, events>>
       \/ /\ setup.now.owned /\ ~Deaf(c)
          /\ IF /\ worker.stream # NoConfig
                /\ worker.config.gen = c.gen /\ worker.config.status = c.status
             THEN /\ worker' = [worker EXCEPT !.owner = c.gen, !.buffer = c.gen]
                  /\ setup' = [setup EXCEPT !.now = NoSetup]
                  /\ Sends("started", c.gen)
             ELSE /\ worker' = [worker EXCEPT !.owner = c.gen, !.buffer = c.gen,
                                              !.stream = NoConfig]
                  /\ setup' = [setup EXCEPT !.now.step = "cancelling"]
                  /\ UNCHANGED events
    /\ UNCHANGED <<server, appVars, runtime, native, tasks, faults>>

SetupInstalls ==
    LET c == setup.now.config IN
    /\ setup.now.step = "cancelling"
    /\ setup' = [setup EXCEPT !.now = NoSetup]
    /\ IF worker.stopped
       THEN worker' = [worker EXCEPT !.config = c] /\ UNCHANGED events
       ELSE worker' = [worker EXCEPT !.config = c, !.stream = c] /\ Sends("started", c.gen)
    /\ UNCHANGED <<server, appVars, runtime, native, tasks, faults>>

\* _onNewPosition, up to the POST; one at a time for a buffer.
PositionTaken ==
    LET c == worker.stream IN
    /\ c # NoConfig /\ worker.config = c /\ worker.buffer = c.gen /\ ~worker.stopped
    /\ \A t \in tasks : t.kind = "post" => t.config.gen # c.gen
    /\ Len(events) < MaxEvents
    /\ Sends("sampled", c.gen)
    /\ tasks' = tasks \cup {[kind |-> "post", config |-> c, what |-> "off"]}
    /\ UNCHANGED <<server, appVars, runtime, native, setup, worker, faults>>

\* _stopAndNotify, up to its wait for the stream to be cancelled.
StopsAndNotifies(t, what) ==
    IF ~worker.stopped /\ worker.owner = t.config.gen /\ worker.terminal # t.config.gen
    THEN /\ worker' = [Blank EXCEPT !.terminal = t.config.gen]
         /\ tasks' = (tasks \ {t}) \cup {[kind |-> "stopping", config |-> t.config, what |-> what]}
    ELSE tasks' = tasks \ {t} /\ UNCHANGED worker

Continues(t, kind) == tasks' = (tasks \ {t}) \cup {[t EXCEPT !.kind = kind]}

\* The position stream ends with an error, or the permission has been withdrawn.
LocationLost ==
    /\ worker.stream # NoConfig /\ Fails
    /\ StopsAndNotifies([kind |-> "post", config |-> worker.stream, what |-> "off"],
                        "location_unavailable")
    /\ UNCHANGED <<server, appVars, runtime, native, setup, events>>

\* _pauseAndClear up to its wait for the stream to be cancelled.
PausesAndClears(t) ==
    IF OwnsConfiguration(t.config)
    THEN /\ worker' = [worker EXCEPT !.config = NoConfig, !.stream = NoConfig, !.buffer = None]
         /\ Continues(t, "pausing")
    ELSE tasks' = tasks \ {t} /\ UNCHANGED worker

\* _submitOldest after the POST: accepted; 401; 404, the job is another's; 409,
\* the job is not on its way any more; no answer, 5xx or another rejection.
PostAnswered(t) ==
    /\ t.kind = "post"
    /\ \/ /\ Authority \in Trackable
          /\ tasks' = tasks \ {t} /\ UNCHANGED <<worker, faults>>
       \/ /\ Authority = "unauthorized"
          /\ StopsAndNotifies(t, "unauthorized") /\ UNCHANGED faults
       \/ Authority = "off" /\ StopsAndNotifies(t, "not_found") /\ UNCHANGED faults
       \/ Authority = "off" /\ PausesAndClears(t) /\ UNCHANGED faults
       \/ Fails /\ PausesAndClears(t)
    /\ UNCHANGED <<server, appVars, runtime, native, setup, events>>

Paused(t) ==
    /\ t.kind = "pausing"
    /\ IF PausedFor(t.config)
       THEN Sends("paused", t.config.gen) /\ Continues(t, "reading")
       ELSE tasks' = tasks \ {t} /\ UNCHANGED events
    /\ UNCHANGED <<server, appVars, runtime, native, setup, worker, faults>>

\* The GET of _readAndApplyAuthority is answered, maybe after failures, or it has
\* failed too often.
AuthorityAnswered(t) ==
    /\ t.kind = "reading"
    /\ \/ /\ tasks' = (tasks \ {t}) \cup {[t EXCEPT !.kind = "read", !.what = Authority]}
          /\ UNCHANGED <<worker, faults>>
       \/ PausedFor(t.config) /\ StopsAndNotifies(t, "network") /\ UNCHANGED faults
    /\ UNCHANGED <<server, appVars, runtime, native, setup, events>>

\* Its answer arrives.
AuthorityArrives(t) ==
    /\ t.kind = "read"
    /\ CASE ~PausedFor(t.config) ->
              tasks' = tasks \ {t} /\ UNCHANGED <<worker, setup>>
         [] PausedFor(t.config) /\ t.what \in Trackable ->
              LET c == [gen |-> t.config.gen, status |-> t.what, by |-> "worker"] IN
              /\ setup' = [setup EXCEPT !.inbox = Append(@, c)]
              /\ tasks' = (tasks \ {t}) \cup {[kind |-> "restoring", config |-> c, what |-> "off"]}
              /\ UNCHANGED worker
         [] OTHER ->
              /\ StopsAndNotifies(t, IF t.what = "off" THEN "inactive" ELSE t.what)
              /\ UNCHANGED setup
    /\ UNCHANGED <<server, appVars, runtime, native, events, faults>>

\* The restored configuration has had its turn.
Restored(t) ==
    /\ t.kind = "restoring"
    /\ setup.now.config # t.config
    /\ \A i \in DOMAIN setup.inbox : setup.inbox[i] # t.config
    /\ tasks' = tasks \ {t}
    /\ IF OwnsConfiguration(t.config) THEN Sends("restored", t.config.gen) ELSE UNCHANGED events
    /\ UNCHANGED <<server, appVars, runtime, native, setup, worker, faults>>

\* The rest of _stopAndNotify: the native authority decides.
StopsFinally(t) ==
    LET g == t.config.gen IN
    /\ t.kind = "stopping"
    /\ Sends(t.what, g)
    /\ native' = StoppedBy(g)
    /\ worker' = IF ~Stale(g) THEN Dead
                 ELSE [worker EXCEPT !.terminal = IF @ = g THEN None ELSE @]
    /\ tasks' = tasks \ {t}
    /\ UNCHANGED <<server, appVars, runtime, setup, faults>>

-----------------------------------------------------------------------------
TrackingNext ==
    \/ AuthorityEnds \/ ServiceEnds
    \/ ActionBegins \/ ServiceStarts \/ CollectorReady \/ CollectorMissing \/ ActionStopped
    \/ \E r \in Reads : ReadBegins(r) \/ DashboardArrives(r) \/ ReadAnswered(r) \/ ReadArrives(r)
    \/ AdvanceSent \/ AdvanceArrives \/ LogoutBegins \/ AsideEnds \/ EventArrives
    \/ SetupBegins \/ SetupOwned \/ SetupInstalls \/ PositionTaken \/ LocationLost
    \/ \E t \in tasks :
        \/ PostAnswered(t) \/ Paused(t) \/ AuthorityAnswered(t) \/ AuthorityArrives(t)
        \/ Restored(t) \/ StopsFinally(t)

TrackingSpec == TrackingInit /\ [][TrackingNext]_trackingVars

-----------------------------------------------------------------------------
(* A stop that was decided upon for one generation, and comes late, never   *)
(* ends the service of another that has adopted it since: a generation is   *)
(* given up by the app, or by the worker's own stop for that generation.    *)
ReplacementsSurvive ==
    [][native.gen # None /\ native'.gen = None =>
         \/ running' # running \/ aside' # aside
         \/ \E t \in tasks \ tasks' : t.kind = "stopping" /\ t.config.gen = native.gen]_trackingVars

(* What the worker has still to do or to tell.                              *)
Unsettled ==
    \/ events # <<>> \/ setup.inbox # <<>> \/ setup.now.step # "idle"
    \/ \E t \in tasks : t.kind # "post"

(* When the app takes a reconciliation for a no-op because its collector is *)
(* running, there is a position stream of that generation, whatever         *)
(* failures, recoveries, stops and adoptions came before, once the worker   *)
(* has told all it has to tell.                                             *)
NoOpsAreTrue ==
    IsRunning /\ ~Unsettled => worker.stream.gen = runtime.gen

(* Once the provider has signed out no position is collected any more.      *)
SignedOutStaysOff ==
    ~app.signedIn /\ aside.step = "idle" => worker.stream = NoConfig

=============================================================================
