# Verification of the Callidus call centre

TLA+ models of the concurrent core of this repository: an AI call-centre
backend in Python (asyncio, Kafka, LiveKit, SQLite, Asterisk/SIP) with a React
front end. The modules are translated from the source; the `map` in
`PROJECT.json` names, for each definition, the lines it stands for.

Contents: [inventory](#inventory) · [modules](#modules) · [runs and
bounds](#runs-and-bounds) · [fairness](#fairness) · [proofs](#proofs) ·
[findings and divergences](#findings-and-divergences) · [limits of the
models](#limits-of-the-models) · [plan](#plan)

## Inventory

Paths are under `src/livekit/` unless they begin with `src/`. "Hard" says
which behaviour of the part a test would hardly reach; "right" says which
properties make the part correct.

### Modelled

| part | state it keeps | operations | interacts by | hard | right |
|---|---|---|---|---|---|
| **Call scheduler** `kafka/scheduler.py` | node registry (free slots, active sessions, last heartbeat), `_pending_sessions`, `_paused_partitions`, offsets | consume a request, book and send or park it, handle capacity / finished / heartbeat events, evict dead nodes, resume, restart | topics `call_requests`, `call_assignments`, `gpu_capacity`, `call_completed`, `call_failed`, `worker_heartbeat` | two consumers interleave at awaits; one commit covers all partitions; reports are older than bookings; crash between send and commit | a commit never passes an undecided request; at most one send per life; order; one node per call; a pause ends |
| **Worker service** `kafka/worker_service.py`, GPU monitor `kafka/gpu_monitor.py` | `_active_tasks`, offsets, shutdown flags, latest capacity | receive, skip, reject, launch, run with retries, publish the end, poll the GPU, heartbeat, drain on SIGTERM | the same topics | SIGTERM during backoff, crash between launch and commit, publishes whose failure is swallowed, a limit that drops under running calls | never over capacity; nothing begins after SIGTERM; every call ends and is reported |
| **Call path** (both together) | the topics | | | a live node judged dead, a restart of either side | one caller, one AI agent; the scheduler's books are true; booked calls end |
| **The doors for calls**: browser `browser/router.py`, token endpoint `ai_worker.py`, partners `integration/service.py`; **routing** `routing/{engine,rules,api,singleton}.py`; **offline handler** `offline/handler.py`; **producer** `kafka/producer.py` | the suspended coroutine of each door; rules and agents of two engines; the cached status; `is_kafka_active` | start a call, decide and book, check the status, fall back, submit, spawn, store a callback, answer; register, release, reload by the routing API | calls in one process; Kafka; the job store | `find_best` and `book` are two lock sections; a send that raises although it arrived; a stale status; two engines | no agent over the limit; a call is taken care of in one way, the one its fallback says; everyone is answered |
| **SIP sessions** `sip/{sip_session_manager,sip_event_handler,sip_ingress}.py` | `_by_session`, `_by_room`, session states, `_timeout_tasks` | join, leave, room finished, outbound call, dispatch with retries, ringing and call watchdogs, delayed clean-up | webhooks of LiveKit, Kafka, the worker it spawns | webhooks late, twice or never; watchdogs that replace or outlive one another; transitions look at no state | the room index is exact; states move on; an end is reported once; every session is removed |
| **Receiver queue** `receiver.py` | `_caller_queue` with the task handle of each entry, the agent's status | ask for a token, ring, decline, time out, accept, hang up, announce | HTTP calls, LiveKit data messages | a time-out against accept and decline; a handle that points to the wrong coroutine | one ringing or countdown loop per caller; order of arrival; one receiver per caller; who waits is told |
| **Event hub** `websocket/{hub,api}.py`; **integration service** `integration/service.py` | a bounded queue per subscriber, history; status store, webhook registry, delivery tasks | publish, subscribe with replay, take; start, follow events, clean up, trigger, deliver, retry | the hub's queues, HTTP posts | a full queue; replay; tasks that deliver late, twice and out of order what was deleted meanwhile | order without gaps; the status follows the events; a webhook tells what happened; all of it ends |
| **Outbound callbacks** `callcenter/outbound_engine.py`, `callcenter/db.py`, `callcenter/api.py`, `src/src/components/AgentDashboard.jsx` | tables `outbound_queue`, `agent_states`; the monitor's lists; the popup and phase of each dashboard | abandon, the monitor's pass (match, time out, orphans), accept, decline, complete, no-answer, snooze, resume, go online / offline, end call | HTTP calls, database rows, events over the hub | lists that are stale when used, popups that outlive their row, closed tabs, a failed pass, a restart between two awaits | a row is offered once; one agent per row; a waiting row is not given up; an offered row ends |
| **Scheduled jobs** `scheduling/{service,store,models,api}.py` | the job table; the batch in memory | schedule, cancel, poll, execute, retry, restart | HTTP calls, database rows, the dispatch of a call | cancel between poll and turn, a write of an outcome that fails, a restart | attempts bounded by `max_retries`; placed once but for lost confirmations; settled stays settled; due jobs are settled |

### Not modelled, or only through the parts above

| part | state and operations | hard behaviour | why not, or what is |
|---|---|---|---|
| **Queue engine** `callcenter/queue_engine.py` | a queue per department, replicated over a Kafka topic; enqueue, pop, dequeue, position | find, publish and removal are three steps; entries change only when the consumer sees the event | first in the plan. Now only "a caller who leaves becomes a callback" is modelled |
| **AI assist** `ai_assist/*.py` | joins per room, debounce | join, leave and hang-up interleave | in the plan |
| **Mail follow-up** `callcenter/email_scheduler.py` | `email_sent` flags | sent, then marked | in the plan. Only the no-answer mail is modelled |
| **Keys and rate windows of partners** `integration/{auth,service}.py` | counters per minute | a window that rolls over | decides who may call, not what becomes of a call |
| **Business hours** `callcenter/business_hours.py` | none: a function of clock and configuration | midnight, week ends | nothing is kept; the windows of the routing rules are the same arithmetic and are modelled and proved about |
| **AI worker, media, session manager** `ai_worker.py`, `livekit_session.py`, `session_manager.py`, `audio_source.py` | audio buffers, turn state | model calls and audio | one attempt of a call is one action of `WorkerService`; the token endpoint is one of the doors |
| **Queue notifier, health, lifespan, schemas, config** `kafka/*.py` | none that decides anything | | read-only endpoints, position messages to browsers, field definitions |
| **Routing IVR, token service, WebRTC utilities** | none shared | | audio and formatting |
| **Front end** `src/src/` but the agent dashboard; **Asterisk configuration** `src/asterisk/`; **tests** | | | configuration and tests |

## Modules

An action is the code between two awaits of one asyncio task, because that is
where tasks interleave; a handler with several awaits is several actions, with
its local variables kept in a "where it is" variable (`consumer`, `monitor`,
`request`, `step`, `task`, `call`, `door`).

- **`CallTopics`** – the Kafka topics between the scheduler and the workers, and
  the constants both sides share. Both extend it.
- **`CallScheduler`** – the scheduler process. `Book`, `Park`,
  `RejectMalformed`, `SendAssignment`, `SendFails`, `Commit`, `CommitFails` are
  the request consumer (`_consume_call_requests`, `_assign_call`);
  `HandleCapacity`, `HandleFinished`, `HandleHeartbeat` the event consumer;
  `EvictDead` the watchdog; `Restart` the loss of memory and the return to the
  committed offsets. `Submit`, `ReportCapacity`, `ReportFinished`, `Beat` are
  an environment that may say anything a worker can say.
- **`CallLedger`** – the abstract specification: a request is submitted, then
  assigned or set aside, each once; only after a crash is one that was set
  aside looked at again. `CallScheduler!Ledger` is the refinement mapping: the
  stage of a request is read off the assignment logs and the set of decided
  requests.
- **`WorkerService`** – one worker process per node with its GPU monitor.
  `Receive` and its five outcomes are `_consume_calls` in the order of the
  code (the capacity guard comes before the duplicate check);
  `BeginRun` … `PublishEnd` are `_run_worker_with_lifecycle`; `Sigterm`,
  `ConsumerExits`, `StopMonitor`, `FinishDrain`, `Crash`, `Start` the life of
  the process.
- **`CallPipeline`** – extends `CallScheduler` and `WorkerService`, whose shared
  variables are the topics; the environment actions of each (`EnvStep`,
  `TopicStep`) are replaced by the real steps of the other. Since the three
  live in one name space, the worker's specification is `WorkerSpec` and the
  composed one `PipelineSpec`; `Spec` is the scheduler's.
- **`OutboundCallback`** – the callback rows, the agents' rows, the monitor
  pass, the API handlers between their awaits, and what each dashboard shows.
  `StartPass` … `EndPass` are one round of `_monitor_loop`; `PassFails` is its
  `except`; `Restart` is the server's. Closing a row
  as unanswered and mailing its caller are two awaits, and two actions, in all
  three places that do it. `CallerJoins` is a client outside the
  repository that was told to pick up.
- **`CallbackLedger`** – the abstract specification of a callback: asked for,
  offered to one agent once and for good, and only then rung, talked to or
  mailed. `OutboundCallback!Ledger` maps a row's status to the stage, and
  `assigned_agent` to the agent.
- **`ScheduledJobs`** – the job table with the two clocks of a row: `due` is
  the `scheduled_at` column that `list_due` compares, `waiting` the time in the
  JSON data. `MarkRunning` … `SettleFails` are `_execute_job`, including the
  writes that raise inside and outside its `try`. `Dispatch` is the submission,
  which returns None also for a request that arrived (`Unconfirmed`);
  `SubmitAgain`, `Spawn` and `SpawnFails` are the fallback, which submits the job
  once more, then spawns a worker, round by round, and raises in the end.
  `placed` counts requests in Kafka and workers, `lost` the placements the job
  never learnt of, because a send raised or the outcome could not be stored.
- **`Routing`** – the rules as pure operators: `InWindow` with its wrap over
  midnight, `Matches`, the order of `load` and the first match of `route`
  (`Winner`), `Decide`.
- **`CallEntry`** – three doors, each a coroutine with the stages `submit`,
  `schedule`, `notify`: `BrowserCall` is `browser_call_start` up to its first
  suspension (routing, booking, status check, fallback or submission),
  `TokenCall` and `ExternalCall` the other two, `Sent` and `SendRaises` the
  two ways `submit_call_request` comes back, `StoreCallback` and `Notified`
  the fallback. `CallRequest` lacks the fields that routing writes and the door
  reads, so a decision changes nothing of a call, and the door
  answers "error" after every call it submitted or spawned. Both routing engines
  are there: `rules` and `agents` are functions of the engine, and the API
  changes only its own.
- **`SipCalls`** – a session is in one state and has up to five suspended
  coroutines (`task`): the two that dispatch, the one of a caller who left, and
  two watchdogs, of which `current` is the one `_cancel_timeout` would stop.
  LiveKit is the environment: callers, workers and the webhooks that tell of
  them, delivered in any order, again, or not at all.
- **`ReceiverQueue`** – the entries of `_caller_queue`, the loops of each caller
  (`tasks`) and the handle of the entry (`handle`), so that a cancel stops what
  the entry points to and not what runs; the tasks of immediate messages
  (`notes`), which nothing cancels.
- **`EventHub`**, **`IntegrationApi`** – the hub numbers its events; the
  service extends it with the listener, the status store and the webhooks.
  `Trigger` and the posts are tasks of their own, each with the copy of the
  entry it was created with.
- **`MC…`** modules give the constants small values; **`…Proofs`** modules hold
  theorems.

Definitions marked *Mutant* in a module are plausible bugs of the definition
that follows them. Each property of a passing run is violated when the mutant
named for it in `PROJECT.json` takes the place of its original, so none of the
properties holds by the shape of the model.

## Runs and bounds

The runs of scheduler, workers and pipeline, the callbacks and the jobs check
for deadlock; those of the doors, SIP, the receiver and the integration service
do not, for there the system may stop: no further caller has to come.
Bounds are constants of the modules: `TopicBound` unread capacity reports per
node, `MaxCalls` free slots, `MaxSlots` of an agent, `MaxRestarts`, `MaxStops`,
`MaxFaults`, `MaxRepeats` webhooks delivered again, `MaxChanges` registrations of
webhooks, `MaxEvents`, `AsgBound`.

| run | instance | shows |
|---|---|---|
| `scheduler_faults` | 2 sessions, 2 request partitions, 1 node, failing sends and commits, 1 restart (1.3M states) | `CommittedIsDecided`, `SentOncePerLife`, `SentInOrder`, `PausedAtParked`, `ReleaseResumes`; and the refinement `ImplementsLedger` |
| `scheduler_nodes` | 2 nodes, one good and one malformed request (214k) | `SubmittedIsReached` under false evictions |
| `worker_faults` | 2 sessions, 1 node that shares its partition with another, limit 0 or 2, 2 attempts, a SIGTERM or a crash, failing publishes and commits (251k) | `WorkerTypeOK` (no negative report of free slots), `NoAttemptAfterSigterm`, `LaunchedEnds` |
| `pipeline_faults` | 2 nodes on one partition, 1 session, false evictions, failing commits, a SIGTERM or a crash (1.2M) | `OneAgentPerCall`, `EndsPerLife` |
| `pipeline_books` | 2 sessions, 1 node for one call, 1 restart of the scheduler (66k) | `BooksMatchCalls`, `WithinCapacity`, `BookedEnds`, `PausedWithCallsResumes` |
| `callback_agents` | 1 row, 2 agents, 1 fault (374k) | `OneAttempt`, `OneAgentCalls`, `OfferedEnds`; and the refinement `ImplementsCallbackLedger` |
| `jobs_faults` | 2 jobs with 1 and 2 attempts, 1 slot, 1 round of the fallback, cancellation, sends that arrive and raise, failing spawns and writes, 1 restart (441k) | `RetriesExact`, `PlacementsAccounted`, `SettledIsNotDialled`, `DueIsSettled` |
| `call_entry` | 2 calls, any door, 1 agent with one slot or none, rules or none, the routing API at any time, every fault (408k) | `TypeOK` (no agent overbooked), `OneTreatment`, `BrowserCallIsTaken`, `EveryoneIsAnswered` |
| `sip_calls` | 2 sessions one after the other in a room, 1 retry, 1 webhook delivered again, every fault (367k) | `RoomIndexExact`, `EndReportedOnce`, `StateMovesOn`, `SessionEnds` |
| `receiver_queue` | 3 callers, 2 receivers, tokens that fail (156k) | `OneLoopPerCaller`, `InArrivalOrder`, `OneReceiver`, `WaitingIsTold` |
| `integration_api` | 1 call, 3 events of a followed and an ignored type, queues and history of 2, 1 client, 1 partner, 2 attempts (215k) | `SubscribersInOrder`, `StatusFollowsEvents`, `WebhookTellsItsEvent`, `EventsAreSettled` |
| `worker_completed_not_run` | as small as the case allows | the finding below |

Why these are enough. The scheduler's hazards are between two requests (of one
partition or two), one node that has a slot or has none, and one restart: the
second request is the one that a commit could skip or overtake. A worker needs
room for two calls, or the capacity guard hides its check for duplicates. Two nodes
matter for where a call is booked and for a shared assignment partition, so
these have a run of their own. `MaxCalls = 1` makes a node full with one call,
the case in which requests are parked; two sessions exceed it. One fault or
restart separates two lives, and the properties that count lives
(`OneAgentPerCall`, `EndsPerLife`) are stated with the number of lives.
Callbacks meet through the agents that compete for one row (two agents); an
instance with two rows and one agent (1.6M states) was checked as well, and the
theorems hold for any number. One slot for two jobs makes one of them
wait while its status changes; a retry limit of 1 and of 2 makes an attempt that
is the first, the last or both, and 0 and more are covered by the theorem; one
round of the fallback has both of its endings, another round and the last spawn.

Calls at the doors meet in the cached status, which the second may find stale.
The routing API is not bounded at all: one slot is enough to book it by a dry
run, to ask for a second and to register the agent anew while it is booked. The two sessions of the SIP run share a
room, which is where an index can go wrong: the second is registered while a
watchdog or a clean-up of the first is still suspended. Sessions in different
rooms share nothing but the manager's dictionaries. Three callers are the fewest
for which leaving from the middle of the receiver's queue differs from leaving at
an end. Three events overflow a queue of two. Where a theorem exists the bounds
are moot; the runs then serve to show that the property can be broken by the
mutants.

Runs that check liveness use no symmetry; `pipeline_faults` checks invariants
only and uses the symmetry of its two nodes. Type invariants that are proved
(`TypeOK` of the scheduler, the callbacks, the jobs, the receiver's queue, the
integration service and the telephone calls) are in no run.

## Fairness

- Scheduler: weak fairness of each consumer's next step, of the event handlers
  and of the watchdog: these are tasks of one event loop that are never
  cancelled before shutdown. A commit may fail for ever (`Commit \/
  CommitFails` is fair, not `Commit`); nothing obliges a node to expire, a
  process to die or an API client to call.
- Worker: weak fairness of the consumer loop, of each call's task, of the drain
  and, for capacity, of a reader of its events. An AI session ends, since
  callers hang up: an assumption about the world, for the code sets no limit.
  SIGTERM and crashes are not fair.
- Pipeline: both, and a process that is down is started again.
- Callbacks: the monitor goes round every 5 s; a row gets older; a request being
  served is served. Agents owe nothing: they may never answer, and close tabs.
- Jobs: the poll loop, the clock, the execution of a job and a cancellation
  that has begun. Dispatches may fail every time.

- Doors: a coroutine that awaits Kafka, the job store or LiveKit is resumed:
  these clients have time-outs of their own. Nobody has to call.
- SIP: the event loop runs what can run (`EventLoop`): timers run out, a send
  and a LiveKit call end. No webhook need ever arrive, and workers and
  callers owe nothing; that every session ends rests on the watchdogs alone.
- Receiver: each coroutine of a caller wakes, and an accept that has begun ends.
  Nobody has to accept, decline or hang up.
- Integration: the listener and the tasks it created. Every post may fail.

Fairness is weak throughout. It is stated per partition, node, call, row or job
where the code has one task or one iteration for each.

## Proofs

TLAPS proves the following for every value of the constants that satisfies the
`ASSUME` of the module (named `…Assumption`; they only say that bounds are
naturals, that fault sets hold known faults, that names of two kinds differ,
that every node has a partition, that `Agents` and `Jobs` are finite). The
numbers of sessions, nodes, partitions, restarts, SIGTERMs and crashes are
arbitrary. Every safety property that a passing run checks, invariant or action
property, is the conclusion of a theorem.

- **`CallSchedulerProofs`**. The invariant `IInv` (in `CallScheduler`) joins the
  properties with what they rest on: a session is logged once
  (`LogsDistinct`); committed ≤ position ≤ length (`OffsetsOrdered`); the
  request held across the await of its send is the last one read from its
  partition, which is not paused, and is above the committed offset
  (`HeldIsLast`); everything else that was read is decided
  (`ReadIsDecided`); what was sent was read and is not held
  (`SentWasRead`); what is in flight was read (`InFlightWasRead`). None of
  `SentOncePerLife`, `SentInOrder`, `CommittedIsDecided` is inductive alone:
  a new send must be known to be of a request that was not sent before, which
  follows from `HeldIsLast` and `LogsDistinct`. Theorems: `TypeCorrect`,
  `CommitsAreDecided`, `SentOnceInOrder`, `OneNodePerCall`,
  `PausedPartitionsWait`; the action property `EndsResume` (the slot of a live
  node is booked back before paused partitions are looked at, so the node itself
  is the candidate); and the refinement
  `SchedulerImplementsLedger`: `Spec => Ledger!Spec`.
  It needs `LedgerInv` besides: assigned requests are decided, decided ones are
  logged, and before the first restart a decided request is neither held nor
  unread, so that a `Book` and `SendAssignment` can only move a request that
  is still "submitted". Every other action is shown to leave every stage alone.
- **`CallPipelineProofs`**. First the workers alone, for any scheduler
  (`WorkerInvariant`). `EndsCounted` is the heart of `WorkerInv`: ends reported,
  plus what may still be reported in this life (an entry not read yet, a task
  that has not ended), are at most the entries that gave the node the call
  times the lives the node has had. A crash throws the open ends away and a
  restart gives the life of the node back, so the sum is what is inductive and
  `reported` alone is not. It rests on `AsgOffsetsOrdered` (a committed offset was read,
  a read one was written), `LivesCounted` and `DownIsEmpty` (a process that is
  not up was stopped, one that is down runs nothing), `TasksWereAsked` (a task has an
  entry). `SlotsRespected` and `RetriesBounded` are the limits of the GPU and of
  the retries. Theorems: `WorkerTypeCorrect`, `SigtermEndsAttempts`.
  Then the composition: `SchedulerKeepsWorkers` and `WorkersKeepScheduler` show
  that each side keeps the other's invariant, because what it does to the topics
  is among what the other expects of its environment. `PipelineInv` adds
  `EntriesCounted` (a call has one entry in all logs together per life of the
  scheduler, and none for the current life until it is sent),
  `NobodyEvicted` (in a run without faults every registered node is fresh, and one
  that is down was never up) and `BooksMatchCalls`. Theorems:
  `EndsCountedByLives` and `AgentsCountedByLives` (both count entries: an
  injection from the nodes that run a call into its entries), `BooksAreTrue`,
  `NodesWithinCapacity`; and of the scheduler with the real workers
  `SchedulerPromisesKept`, `EndsResumeInPipeline`,
  `SigtermEndsAttemptsInPipeline` and the refinement
  `PipelineImplementsLedger` (a worker's step stutters in the ledger).
  Two theorems say how far the words of the repository are true:
  `ExactlyOnceInOneLife` (`restarts = 0 => ExactlyOnce`: only a restart of the
  scheduler assigns a request twice, no fault of workers, publishes or
  commits does) and `PromisesOfUnstoppedWorkers` (`stops = 0` implies
  `CompletedMeansRan` and `DlqAfterAllRetries`: a SIGTERM or a crash is needed
  to violate them).
  Before they were proved, TLC found `WorkerInv` to hold on the instance of
  `WorkerFaults` and `PipelineInv` on those of `PipelineFaults` and
  `PipelineBooks`.
- **`OutboundCallbackProofs`**. `IInv` says for each row: attempts are zero
  until it is offered and one afterwards (`Counted`); the rows the
  monitor is about to offer are still pending, and those it is about to close
  were offered (`Listed`); events, popups, requests and screens refer to
  offered rows only, and an agent is engaged only with a row assigned to that
  agent (`Known`). Theorems: `TypeCorrect`, `OneShot`,
  `OneAgentPerCallback`; the refinement
  `CallbackImplementsLedger`: `Spec => Ledger!Spec`. A row's stage changes when it
  is inserted and when it is offered (`StageSteps`), its agent only then
  (`AssignedSteps`: an agent who accepts is the one it is assigned to), and each
  of the five steps that contact somebody is about an offered row
  (`ContactsMap`). `ClosedIsNotOffered` is what is left of "final": a closed row
  may be closed again in another way, but never waits or is offered again.
- **`ScheduledJobsProofs`**. `IInv` gives for each place a job can be in
  (table, queued in the batch, worked on) how many attempts are behind it, and
  how many placements beyond the lost ones: one from the moment a placement is
  confirmed, none before. That balance is inductive where "placed once" is not:
  a lost confirmation adds to both sides.
  Theorems: `TypeCorrect`, `AttemptsBounded`, `PlacementsAreAccounted`,
  `SettledStaysQuiet`; and how far two promises are true:
  `CancelledInTimeIsFinal` (a job cancelled while the poll loop does not hold it
  is never dialled) and `FirstTimeIsKept` (only a job that failed before is begun
  early), which rests on `OnTime`: until a first reschedule the column and
  the data agree on the time.
- **`CallEntryProofs`**. About the rules, for any file: `WinnerIsFirst` (if a
  rule matches, the one `CHOOSE` stands for exists, by the least order and then
  the least index, from well-foundedness of the naturals),
  `DecisionIsComplete`, `WindowsSplitTheDay`. About the state: `Info` has
  `active <= max`, so `TypeCorrect` says that no agent is overbooked;
  `BookKeepsPool` is the heart of it: only an agent with a free slot is found,
  and nothing runs between the two lock sections. `CallInv` says where a call is
  suspended what has been done for it so far; from it `OneTreatmentHolds` and
  `BrowserCallsAreTaken`, neither of which is inductive (a suspended call
  must be known to be in no book yet, and a call to be notified to have been
  turned away). `AloneOnlyIfSendRaised` bounds the
  violation of `NoneMeansSpawned`: with Kafka found inactive at start-up the
  token endpoint keeps its promise, and only a send that raises (`TokenStep`)
  leaves a caller with a token and without an agent.
- **`ReceiverQueueProofs`**. `IInv` joins the three properties and
  `AcceptIsOver` (no receiver is being given a room he has). They
  need each other: a cancel stops the right loop only if the handle is
  exact, and a receiver finds a caller once because the queue is exact.
  `LeavingKeepsOrder` is about `RemoveAt`. Theorems: `TypeCorrect`,
  `LoopsExact`, `QueueExact`, `OneReceiverPerCaller`.
- **`IntegrationApiProofs`**. What a subscriber has before him is an end of the
  log; `EndOfAppended`, `EndOfTail` and `EndOfLast` show that publishing, taking,
  dropping and the bounded history keep it so. Hence the event the listener
  takes is the one in the log with its number (`TakeKeeps`), and every
  trigger, delivery and receipt can be traced to it (`Honest`). `StatusInv`
  says that no event is applied before the door has stored the entry. Theorems:
  `TypeCorrect`, `HubInOrder`, `WebhooksAreHonest`, `StatusIsTheLastEvents`.
- **`SipCallsProofs`**. The indices and the sessions are invariant together:
  `IndexInv` (`_by_room` is the inverse of the room on the listed sessions; a
  room that leads to a session, or whose caller is announced, had a caller, so
  a new call never takes over an index entry), `TasksFit` (an ending coroutine
  belongs to a final session; while a dispatch is open no ringing watchdog
  runs), `ReportsFit` (nothing is reported before the session is final; while a
  dispatch is open at most a completed call was), `Placed` (a registered session
  is listed until it is final). `EndReportedOnce` is not inductive: that a
  watchdog cannot add a second failure needs the open dispatch and the watchdog
  to exclude each other. Steps that end, remove or dispatch a session share a
  lemma each (`EndingStep`, `RemovingStep`, `DispatchedStep`). Theorems:
  `TypeCorrect`, `IndicesAgree`, `OneEndPerCall`, `StatesMoveOn`.

Only model-checked: all liveness (`SubmittedIsReached`, `LaunchedEnds`,
`BookedEnds`, `PausedWithCallsResumes`, `OfferedEnds`, `DueIsSettled`,
`SessionEnds`, `EveryoneIsAnswered`, `WaitingIsTold`, `EventsAreSettled`):
fairness and `ENABLED` are outside the prover's reach.

## Findings and divergences

One disagreement between the code and its own words is pinned by a run:
`CompletedMeansRan` – a call whose task starts during shutdown is reported
completed without an attempt (`worker_service.py:391`, `434`).

More expectations are stated in the modules, in the section after the checked
properties. TLC shows each of them violated on the instance given; they are
kept as definitions so that a fix of the code can turn them into checked
properties.

| property | the words | the code | instance |
|---|---|---|---|
| `QueuedIsSent` | `README.md` "Durable task delegation": a queued request is sent to a worker | a request that finds no capacity goes to `_pending_sessions` (`kafka/scheduler.py:308`) and is never read again; only a restart before the next commit brings it back | `FairSpec`, 1 session, 1 node |
| `CapacityResumes` | `kafka/scheduler.py:40` "resume when capacity freed" | a capacity report resumes nothing (`:385`) | `FairSpec`, 1 session, 1 node |
| `ExactlyOnce` | `kafka/config.py:24` "manual commit for exactly-once" | send, then commit (`scheduler.py:306`) | `Spec`, 1 session, 1 node, 1 restart |
| `DlqAfterAllRetries` | `worker_service.py:450` "Publish to DLQ after exhausting all retries" | shutdown during backoff leaves the loop early (`:391`) | `WorkerSpec`, 1 node, 1 stop |
| `SigtermStops` | `worker_service.py:576` "graceful shutdown" | the flag is read when the next message arrives (`:313`) | `WorkerFairSpec`, 1 node, 1 stop |
| `NeverOverloaded` | `worker_service.py:330` "scheduler should prevent this" | an older report overwrites a booking (`scheduler.py:390`) | `PipelineSpec`, 2 sessions, 1 node |
| `LostCallsRescheduled` | `kafka/schemas.py:49` "incremented on re-schedule after failure" | an evicted node's calls are dropped (`scheduler.py:550`) | `PipelineFairSpec`, 1 session, 1 node, 1 stop |
| `TalkedIsNotUnanswered` | `callcenter/api.py` "Finalize outbound callback as completed after a successful call" | the dashboard ends a callback with the endpoint of queued calls; an hour later the monitor closes it as no_answer and mails the caller (`outbound_engine.py:135`) | `Spec`, 1 row, 1 agent |
| `FinalIsFinal` | `callcenter/db.py:452` "final end-state" | decline overwrites (`api.py:535`) | `Spec`, 1 row, 1 agent |
| `MailMeansRung` | `callcenter/email_service.py:154` "user didn't pick up" | the agent did not; the caller was not rung (`outbound_engine.py:127`) | `Spec`, 1 row, 1 agent |
| `FreeAgentIsUsed` | `callcenter/outbound_engine.py:85` "check if a free agent exists" | only the first online agent is looked at (`:96`) | `Spec`, 2 rows, 2 agents |
| `SnoozeIsTemporary` | `AgentDashboard.jsx:164` "Ignore outbound calls for" | the status stays when the time is over (`db.py:344`) | `FairSpec`, 1 row, 1 agent |
| `OneActivePerCaller` | `callcenter/db.py:380` "Prevent spam" | check and insert are two statements (`:381`) | `Spec`, 2 rows of one caller |
| `CancelledIsNotDialled` | `scheduling/service.py` "Cancel a pending job" | a job cancelled after `list_due` returned it is dialled (`:223`) | `Spec`, 1 job |
| `BackoffIsKept` | `scheduling/service.py:256` "Reschedule with backoff" | the upsert keeps the old column (`store.py:132`) | `Spec`, a job with 3 attempts |
| `InterruptedGoesOn` | `scheduling/models.py:57` "loaded on startup to survive process restarts" | `list_due` returns pending rows only (`store.py:163`) | `FairSpec`, 1 job, 1 restart |
| `NoneMeansSpawned` | `kafka/producer.py:167` "The caller in ai_worker.py detects this and spawns ai_worker_task directly" | any return of the submission, also None, counts as dispatched: after a send that raised no worker is started (`ai_worker.py:211`) | `Spec`, 1 token call |
| `PlacedOnce` | `kafka/producer.py:167` "Returns None when Kafka is unavailable" | it returns None also when a send raised that arrived (`:188`); the fallback then submits the job again or spawns a worker (`scheduling/service.py:295`) | `Spec`, 1 job, a send that arrives and raises |
| `UnansweredIsMailed` | `callcenter/api.py:504` "End call and send email" | the row is closed first; if the server restarts, or the pass fails, before the mail, nobody sends it (`outbound_engine.py:127`) | `FairSpec`, 1 row, 1 agent, 1 fault |
| `AcceptedHearsNothing` | `receiver.py:403` "Kicks TTS from room if playing" | only the countdown is cancelled; an immediate message (`receiver.py:99`) is a task of its own and may be sent after the accept | `Spec`, 1 caller, 1 receiver |
| `FailedMeansNotTaken` | `browser/router.py:229` "Failed to start browser call" | after it submitted or spawned a call the door reads `req.queue_name`, which a `CallRequest` (`kafka/schemas.py:37`) does not have (`:202`): the caller gets 500 for a call that is under way, and nobody is ever answered "queued" or "direct" | `Spec`, 1 browser call |
| `OfflineIsQueued` | `offline/handler.py:197` "All nodes offline — call queued in Kafka" | the default fallback does nothing but say so, and the door returns it without submitting (`browser/router.py:155`). `BrowserCallIsTaken` demands of such a call that it is *not* taken: it states what is done, not what is said | `Spec`, 1 browser call |
| `RuleReachesTheRequest` | `routing/engine.py:185` "Enrich a CallRequest with routing metadata" | `apply` raises at its first assignment, for the same reason, and the door catches it (`browser/router.py:153`): priority, fallback and voice of the rule are lost | `Spec`, 1 browser call |
| `DirectMeansSpawned` | `integration/service.py:260` "direct spawn handled by caller" | nobody does: a partner's call without Kafka is "direct" and nothing runs | `Spec`, 1 partner's call |
| `DryRunsBookNobody` | `routing/api.py:185` "Does NOT book any agent" | the endpoint calls `route`, which books | `Spec`, 1 agent |
| `OneSetOfRules` | `routing/singleton.py:21` one engine for all | the API serves another engine than the browser's door asks; the rules are loaded into the latter at start-up, the agents register with the former, so a call never finds an agent | `Spec`, at the start |

Seen while modelling, for whoever changes the code:

- `CallRequest` has no `source`, `caller_id` or `caller_number` either, and
  pydantic drops them from the constructor: every request looks like a browser's
  to the rules, a condition on a prefix matches nobody, and a callback of the
  offline handler is stored with the room's name for a number
  (`offline/handler.py:237`).
- A `sip_joined` webhook that LiveKit delivers twice marks a ringing inbound call
  connected (`sip_event_handler.py:123`), so a worker that never comes is noticed
  by the call watchdog only, not by the ringing one.
- An outbound call whose dispatch fails is removed from the manager, but the
  callee is left in the room (`sip_ingress.py:498`).
- If `room_finished` comes before `participant_left`, no completed event is
  published (`sip_event_handler.py:259`).
- One event that raises ends the listener of the integration service; events
  between the dispatch of a browser call and the storing of its entry are lost
  (`integration/service.py`).
- An `accept_call` whose token cannot be generated has already taken the caller
  out of the queue (`receiver.py:457`): he is with nobody (`place` "lost").
- `queue_info` sorts by urgency, while the announced position is first come,
  first served (`receiver.py`).

## Limits of the models

- *Scheduler.* One scheduler process (its consumer group has one member, as
  deployed). The handling of an event and its commit are one step: a crash in
  between loses memory and repeats the event, which equals a crash before it.
  Rebalances of Kafka are not modelled. Metrics, the lag cache and queue
  notifications to browsers decide nothing and are left out. A session is
  submitted once: that `sip_event_handler.py:364` may submit it again is left
  out here; `ScheduledJobs` has it from the sender's side. Requests set aside
  are final in one life in `CallLedger` because nothing drains the queue.
- *Worker.* `ai_worker_task` can be imported (the fallback of
  `worker_service.py:375-384` is left out). The exit of the consumer loop and the
  last zero-capacity report of `stop()` are one action. What happens in a call is
  one action, succeeding or failing. If a call is launched again while the end
  of its earlier run is being published, that publish is taken to come first.
- *Callbacks.* One department; one request of a dashboard in flight (accept and
  decline of one popup do not overlap); counting agents and inserting one is
  atomic; one monitor; `clear_queues` of the administrator is left out. An event
  may be shown at any later time, which covers delay, replay and reconnection.
  `/outbound/complete` and `/outbound/no-answer` have no client in the
  repository: the constant `Finalises` says whether some client calls them.
  Failed passes and restarts are bounded by `MaxFaults`. A mail that is sent
  counts as one that arrives.
- *Jobs.* `update_status` reads and writes in one executor call and is atomic;
  two threads of the executor can interleave in it, which leaves the status
  that one of the orders gives. A send that raises and a spawn that fails are
  modelled; other errors inside the fallback are those of the spawn. The
  dead-letter event of a failed job is left
  out. A restart leaves the table as it is.
- *Doors.* Callers are what the conditions of a rule can tell apart; an agent
  has the one skill that rules ask for, or not. Locks are never held across an
  await, so a lock section is atomic; `find_best` and `book` are two sections
  without an await between them and are one action. What becomes of a request
  is `CallScheduler`'s matter.
- *SIP.* Timers have no length: a watchdog may fire as soon as it sleeps, which
  covers every length. A send to Kafka that raises although it arrived is left
  out here (it is in `CallEntry`). Signatures, rate limits and the allowlist are one
  refusal of a webhook.
- *Receiver.* One process. A message counts as spoken when it is sent; a send
  that fails is swallowed by the code. Wording and positions of announcements,
  urgency and department are left out; a cancelled send counts as over.
- *Hub and integration.* Keepalives and filters of clients only skip events.
  Secrets, addresses and rate limits of partners are left out, and so is the stop
  of the service.
- Nothing about audio, prompts, tokens, mail texts or layout is modelled.

## Plan

Done, in this order: `CallScheduler`, `CallLedger`, `WorkerService`,
`CallPipeline`, `OutboundCallback`, `ScheduledJobs`; then `SipCalls`,
`Routing`, `CallEntry`, `ReceiverQueue`, `EventHub`, `IntegrationApi`, and the
proofs above.

Next, most important first:

1. `QueueEngine` – the replicated queue: enqueue, pop, dequeue as find, publish
   and apply; abstract specification: a sequence from which each caller is
   taken once; composed with `OutboundCallback!Abandon`.
2. `AiJoin` – one AI per room, with debounce and leaving; the mail follow-up.
3. `CallEntry` composed with `CallScheduler` and `SipCalls` with `WorkerService`:
   the requests of the doors are the submissions of the scheduler.
4. Proofs: an abstract specification of a job, and that `ScheduledJobs`
   implements it; what the remaining divergences are true of, stated as `ExactlyOnceInOneLife` is.

Bounds foreseen: two callers, two agents, two instances of the queue engine, one
restart. Runs are merged per module (safety and liveness of one instance in one
run) to keep one run per question.
