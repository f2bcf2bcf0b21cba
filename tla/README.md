# TLA+ specifications of harbor-relay

harbor-relay receives push webhooks of a Harbor registry, turns them into tasks
(one per site, channel and digest), hands the tasks to agents in remote data
centres over gRPC streams, and reports what becomes of them by callbacks and by
messages to chat robots. These modules model that program (`src/`), TLC checks
them on small instances, and TLAPS proves their safety properties for every number of
tasks, agents, requests, goroutines and files, under the conditions that section 3 names.

## 1. Inventory

| part | code | state it keeps | operations |
| --- | --- | --- | --- |
| task and agent store | `internal/relay/store.go`, `types.go` | `State`: tasks, agents; a JSON file | AddTasks, UpsertAgent, MarkHeartbeat, MarkAgentOffline, AssignNextTask, UpdateTaskProgress, UpdateTaskCallbackResult, saveLocked, load |
| notification tables | `store.go` | jobs, receipts (`NotifiedEvents`), pauses (`NotificationChannelState`) | Enqueue, ListDue, MarkDelivered, Reschedule, MarkFailed |
| webhook intake | `service.go` HandleWebhook | one goroutine per request | look up the event, build tasks, add them, queue a notification for each, answer |
| routing | `service.go` buildTasks, `config.go` | configuration only | routes or targets to tasks |
| stream handler | `grpc.go` Connect | one goroutine per stream | hello, ack, first task, heartbeats, reports, callback, deferred MarkAgentOffline |
| agent | `internal/agent/agent.go` | session, `busy` flag, handleTask goroutines; on the machine: docker's accounts, images and tags | dial, heartbeat, rotate, login, pull, tag, push, clean up, report |
| dispatcher | `notifications.go` | one goroutine, woken every second | a pass over due jobs: fail, skip, send, deliver, reschedule |
| robot client, callback client | `internal/callback/` | none | classify the answer of a robot; post a callback |
| configuration | `internal/config/config.go`, `callback/notify.go` NewNotifier | webhooks, targets and channels, by path, site and name | load with defaults, match an event, find the channel of a job |
| process start, shutdown | `cmd/relay/main.go`, unit file | where main is, and since when | start the dispatcher, open the listeners; stop HTTP, then gRPC, then exit |
| HTTP read API | `http.go`, `store.go` ListTasks, GetTask | none | copy under the read lock, encode after it |
| agent's main, logging, generated code, scripts, website | | none of interest | |

How the parts interact: all goroutines of the relay share the `Store`, one mutex
and one file that every save rewrites as a whole. Intake calls the store several
times per request and holds nothing between the calls. A stream handler reads
messages in order, calls the store between reads, writes tasks to the stream, and
posts callbacks itself. Agent and relay share nothing but the stream. Handlers
queue notifications, the dispatcher sends them.

Which behaviours are hard, and what makes each part correct:

* **Store.** Calls of many goroutines in any order, saves that fail after memory
  was changed, restarts on an older file. Correct if `CurrentTaskID`,
  `AssignedAgentID` and `Status` never contradict each other in memory or on disk.
* **Streams and agents.** A stream may break between any two messages, an old
  handler may end after a new one has started, an agent's goroutine outlives its
  session, the relay may crash between any two steps. Correct if no task is
  stranded, sent twice, redone after it was done, or forgotten.
* **Intake.** Requests of one body at the same time, errors and crashes between
  the calls. Correct if what was answered is durable, announced and not repeated.
* **Notifications.** Check and insertion are separate, a message may be taken
  without an answer, saves fail, robots limit their rate. Correct if messages are
  sent once, robots are paced, do not hold each other up, and every job ends.
* **Docker.** Goroutines of ended sessions run on beside the current one on the same
  machine, and two agents push to the same tags. Correct if each task is pulled and
  pushed with its accounts and its image, and new images are not replaced by old ones.
* **Configuration.** Jobs outlive the file they were made under, names and paths may
  be left out, and a job may be queued without being saved. Correct if a job reaches the
  channel it was made for.
* **Shutdown.** Requests and streams that never end, three time limits and the one of
  systemd, agents as an earlier process left them, handlers that return early, saves that
  fail. Correct if the process ends in time and takes back the tasks of those it served.
* **Read API.** Tasks are changed in place while they are read. Correct if an answer
  is the table of one moment and no map is read while it is changed.

`PROJECT.json` lists the hazards one by one, each at its line with the properties
that watch it, and those that no property covers yet, with the reason.

## 2. Modules

| module | models | correspondence |
| --- | --- | --- |
| `Store` | store operations as pure operators | a state is a record of `status`, `assignee` (tasks), `link`, `current` (agents); each operator is one critical section of `Store.mu` |
| `TaskStore` | the store alone, any caller, any order | `mem` is `Store.state`, `disk` the file; `saveLocked` may leave the file as it was; `Restart` is `NewStore` |
| `TaskStoreProofs` | theorems about `TaskStore` | section 5 |
| `TaskQueue` | what the relay promises about tasks, without streams | abstract: wait, claim, advance, finish, release |
| `RelaySessions` | `Connect`, `maybeSendTask`, `runOnce`, `handleTask` | `pc[s]` is the position of the handler of stream `s`; `up`, `down` are messages under way; `work` the goroutine of the current session, `orphans` those of ended ones; `busy` is `Agent.busy` |
| `Routing` | `buildTasks` | pure; a pattern is the set of repositories it matches |
| `RelaySessionsProofs` | theorems about `RelaySessions` | section 5 |
| `ImageSync` | `handleTask`, docker command by docker command | `pc[w]` is the position of a handleTask goroutine, `account`, `images`, `local` the machine it shares, `remote` the target registry; the relay hands out tasks to agents that take them (`Takes`: site and channels), requeues and ends them |
| `ImageSyncProofs` | theorems about `ImageSync` | section 5 |
| `Intake` | `HandleWebhook` | `step[r]` is the position of a request or its answer, `body[r]` what it brings and `via[r]` the webhook at whose path; extends `Routing` |
| `IntakeProofs` | theorems about `Intake` | section 5 |
| `NotifyQueue` | `notifyTaskEvent`, dispatcher, notification tables | `call[h]` is a handler inside notifyTaskEvent, `batch`/`sending` the dispatcher; times are relative and run down with `Tick`; `disk` is the file, which a failed save leaves behind |
| `NotifyQueueProofs` | theorems about `NotifyQueue` | section 5 |
| `RelayConfig` | `LoadRelayConfig`, `NewService`, `HTTPHandler`, `NewNotifier` and the jobs made under them | `file` is what the operator wrote, `loaded` what the process read; the tables of the code are operators on it, with a channel named by its target and position; `disk` has the jobs of the store's file, which a failed save leaves behind |
| `RelayConfigProofs` | theorems about `RelayConfig` | section 5 |
| `TaskViews` | readers of tasks against writers, word by word | `lock` is `Store.mu`, `reading[r]` a request and its copy, `unread` what HandleWebhook still reads without the lock |
| `TaskViewsProofs` | theorems about `TaskViews` | section 5 |
| `Shutdown` | the end of `main`, `stopGRPCServer` | `stage` is where main is, `clock` the seconds since the signal; a stream handler is before its first task, reads, posts a callback, returns, or is gone; `disk` is the file |
| `ShutdownProofs` | theorems about `Shutdown` | section 5 |
| `MC...` | instances for TLC | |

`RelaySessions` composes store, handlers, agents and network, and is checked to
implement `TaskQueue` (`ImplementsQueue`, with the status as phase and the
assignee of a task in progress as claimant). `Intake` and `NotifyQueue` are
joined to it at two points: `Submit` in `RelaySessions` stands for the `AddTasks`
step of `Intake`, and `Begin` in `NotifyQueue` for a handler's call. `ImageSync`
opens up the steps that `RelaySessions` calls `Pulled` and `EndTask`, `Shutdown` the
end of the process that is a `Crash` there, and `RelayConfig` the `enabled` robots
that a restart of `NotifyQueue` chooses.

A definition whose name ends in `_bug` is a mistake that the definition after it
does not make. Nothing uses it; `PROJECT.json` pairs it with the property that
notices it when it takes the place of the right one.

What the models leave out: texts and references (`Message`, target refs, versions),
`Attempts` and timestamps of tasks that only the API shows, unknown statuses that
the agent never sends. A created task gets a fresh id, so ids in `Intake` are
pairs of a request and a key. An agent sends the same site and channels in every
hello. `CreatedAt` of tasks is a constant, and ties are broken at random, as the
iteration over a Go map does. A rotation happens right after a heartbeat is sent;
the model sends that heartbeat in the step before. An agent process that dies and
starts again is covered by `Drop` followed by `OrphanEnds`.

## 3. Runs

| run | instance | shows |
| --- | --- | --- |
| `store` | 2 tasks on 2 channels with different ages, 2 agents with different subscriptions, failing saves, restarts without bound | the four state invariants in memory and file; `TasksAreDurable`; `LeavesHolderProperly` |
| `sessions` | 2 agents, 2 tasks, both with callbacks, 1 fault (a lost connection, a relay crash or a failed save, at any step), rotations without bound, symmetric | nothing is stranded, a task is sent once and to its holder, the agent served is online, a callback result means done, `TaskQueue` is implemented |
| `sessions_live` | 1 agent, 2 tasks, one of them with a callback, a lost connection and a relay crash and a failed save | every queued task ends; a task that is done has a callback result unless the relay crashed or a save failed |
| `notify` | 2 messages, 2 robots, 3 jobs, a pass looks at 2, at most 2 attempts, failing saves, 1 fault (crash with a new configuration, or lost answer) | once per fault, paced, ready robots served, jobs settle |
| `intake` | 4 bodies (two are pushes), each at either of 2 webhook paths, 3 requests, 2 sites, failing saves and crashes without bound | acknowledged is durable and announced; a duplicate repeats what is in the file; only requests that overlap queue a body twice |
| `sync` | 2 agents (one cleans up, one does not, and takes a channel less), 3 goroutines, 3 tasks (the second has a tag in common with each of the others), 2 images, 2 registries, 2 accounts, removals that fail, 1 stream that ends under its task | pulled as the source, pushed as the target, the image is there, is the one pushed and leaves behind only what could not be removed; newer images stay |
| `config` | 7 files (one has a webhook on a path of the API), edited and reloaded without bound, failing saves without bound, 2 sites, 3 robots, 1 event | who gets a job, a message or none; which paths are served |
| `views` | 2 tasks, 2 writers, 1 reader, 2 changes | an answer is the table of one moment; no map is read while it changes |
| `shutdown` | 2 agents, loaded from any file, 2 requests, failing saves without bound, the times of `main.go` and of the unit file, in seconds | the process ends; killed only for a slow request; requests get their 15 s; no task stays with an agent that was served |
| `done_regresses` | 1 agent with two streams, 1 task | **violated**: a task that is DONE is run again |
| `long_task` | 1 agent, 1 task longer than a session, 1 lost connection | **violated**: the task never ends |
| `notify_shared` | as `notify`, both channels with one robot key, no faults | **violated**: the robot is not paced |

Why the bounds are enough. Two agents and two tasks are the fewest with which a
task can be given to the wrong agent, an agent can hold a task while another one
is reported, and a requeued task can be taken by someone else while the first
agent still works. One lost connection is enough to have an old and a new session
together with an orphan; rotations end further sessions without limit. `sessions`
has one fault at a time with two agents; several faults together are in
`sessions_live` with one agent. Three requests are a first one, a concurrent one and
a retry, and two paths with different routes give a body other tasks at its second
path. Two robots, one of which gets both messages, give a job that waits behind a
pause and a job that must not; a pass that looks at two of three jobs leaves one
out. In `sync` two of the three goroutines are on one machine, so one of them
outlives its session beside the other, and the third can push the common tag from
another machine, from which one task is kept by its channel; the target registry is
the source of two tasks too, so that both orders of the accounts occur. One stream that ends makes one goroutine
outlive its session, and its task is done again by the same or the other agent. The
files of `config` differ in one respect each from another one. The times of
`shutdown` are the real ones, so what it says of 15, 8, 2 and 20 seconds is exact.

Bounds named in the modules: `MaxDrops`, `MaxCrashes`, `MaxSaveFails` and
`MaxFaults` for all of them, `StreamsPerAgent`, one heartbeat under way per stream,
one orphan per task (`RelaySessions`); `Request` (`Intake`); `MaxFaults`,
`SendTime`, `SavesFail` and one change at a time that is missing from the file
(`NotifyQueue`); `MaxLost`, `Worker` (`ImageSync`); `MaxRaised` (`RelayConfig`);
`MaxWrites` (`TaskViews`).

Where the system may really stop, deadlock is allowed: in `sync` when all tasks have
ended, and in `shutdown` when the process has.

What holds only under a condition. A property that the code keeps except in
a case that can be named says so itself. (`ShownIsSo`, `QueuedIsUnfinished`,
`UsesItsAccounts`, `WorksOnItsImage`, `JobsKeepTheirChannel` and `LimitsAreFair` are
conjunctions of two parts each, which have names of their own.)

* The properties of `sessions` need `StreamsPerAgent = 1`: the relay notices the end
  of a stream before the agent's next hello. The code does not see to that (no
  keepalive is configured); with two streams `NothingStranded`, `SentOnce`, `ShownIsSo`
  and `ImplementsQueue` fail as `DoneIsFinal` does (run `done_regresses`).
* `TaskQueue` is about tasks in memory: a crash after a save that failed takes them back
  to the file, a step that it does not have, so `sessions` has one fault and
  `sessions_live`, which has more, does not check it.
* `CallbackHasResult` exempts a crash and a failed save. `docs/04:23` has relay post
  a callback after the status changes; the code saves DONE first (`grpc.go:118`),
  posts from the stream handler (`grpc.go:136`), and remembers nowhere that
  a callback is due.
* `SentOncePerFault` and `QueuedIsUnfinished` need that an event is not raised again while its first job is
  still queued (`RepeatWhileQueued = FALSE`): the receipt, the queued job and the
  insertion are looked at in three calls, so a job that is delivered in between is
  queued again.
* `JobsSettle` is about `MaxAttempts > 0`. `max_attempts` is 0 unless the file gives it,
  which means no limit (`notifications.go:174`): a robot that keeps failing is then asked
  for ever, and its job never ends.
* `ReadyRobotsServed` is about the jobs a pass looks at, the 100 due longest:
  `docs/04:130-131` gives each robot a queue of its own, but 100 due jobs of a robot
  that pauses keep the others waiting (`notifications.go:52, 83`).
* `OnceUnlessMet` exempts requests that were served together. `service_test.go:134`
  says that a repeated body is not queued twice, which check and insertion, being two
  calls (`service.go:141, 243`), only ensure for requests that follow each other.
* `DuplicateIsDurable` exempts bodies one of whose requests failed to save: memory
  keeps the tasks, the retry is told "duplicate", and a crash before the next save
  loses them. Events are looked up by body alone (`service.go:134, 141`) while routes
  depend on the path (`service.go:90, 227`): a body that comes to a second path is told
  "duplicate" although tasks of its routes there were never built. So the property says
  that the tasks of some earlier request are in the file, and those of the duplicate
  itself only if all requests of the body came by one path.
* The properties of `sync` exempt a goroutine by what the others on the machine did
  beside it (`met`): a login as target between the login and the pull of another
  (`agent.go:180, 193`), a tag of the same name between tag and push
  (`agent.go:215, 218`), a cleanup of the same image. `DoneLeavesNothing` exempts what
  docker refused to remove (`kept`), with which `handleTask` reports DONE all the same
  (`agent.go:231-234`). `docs/07:96-97` (which account pulls and which pushes) and
  `docs/01:139` (the remote gets the image of the webhook) hold only while no `handleTask` of an ended session is left. `NewestStays`
  says that the tags of a task that is done name what was pushed for it or for a
  newer task, and exempts tasks that were worked on at the same time, on any agent:
  they may overtake each other, and on one machine a worker pushes whatever the
  other one has put under the tag (`PushedFor`). It also exempts an older task that was
  passed by (`PassesBy`): `AssignNextTask` looks at site and channel
  (`store.go:193-198`), of which a target reference has neither (`agent.go:213-214`),
  so an older task for which no agent comes may be pushed when the newer one is long done.
* `LimitsAreFair`, in `KilledOnlyBySlowRequest`: 15 s for HTTP, 8 s and 2 s for gRPC are more than the
  20 s of the unit file, so a request that takes more than 10 s and a stream that
  stays open end in a kill, before the `Stop` that `main.go:107` relies on.
* `ExitFreesTasks` exempts agents that are as the file of an earlier process left them
  (`store.go:25-70` loads them online and with their task), and agents whose hello was
  registered but whose handler returned before its defer (`grpc.go:67-79`): they stay
  online with their task when relay exits. What it says of the file needs that the last
  save did not fail.
* `EverySubscriberHasAJob` exempts, over restarts, jobs that were queued but never saved
  (`lost`): the error of `EnqueueNotificationJobs` (`store.go:464`) is logged, and a
  process that ends before any save succeeds loses the job without a trace. What it says
  of the file needs that a save has succeeded since.
* `EntriesAreConfigured` is about plain paths, without the methods, hosts and wildcards
  the mux also knows. `s.webhooks` keeps the last webhook with a path, even a disabled
  one, so an enabled webhook before it is served with that one's settings.
* What the properties of `config` say of channels needs a site with one target and
  channel names that are not used twice (`Identified`), and `JobsKeepTheirChannel` that names stay with their
  robot (`NamesKept`): a channel without a name is called after its position
  (`config.go:163`), so one inserted before it takes over its queued jobs.
* `NobodyReadsAChangingMap` covers the map only. `HandleWebhook` reads status and
  text of its tasks without the lock after `AddTasks` has published them
  (`service.go:248`), so a message "queued" may tell of a later status, or have a text
  that is torn.

## 4. Fairness

`RelaySessions!Fairness` is weak fairness of each handler and of the agent's own
loops: goroutines that can run do, an agent dials again after `reconnect_interval`
and sends heartbeats for ever. Losing connections and crashing is never required.
`MessagesOutrunRotations` says that from some point on no rotation falls into the
moments in which a message of that session is under way: a session lasts 30 minutes
and a message milliseconds; without it a scheduler could rotate at exactly these
moments for ever. `TasksOutrunRotations` says the same of tasks and is a real
restriction: `sessions_live` assumes it, and `long_task` shows that the busy flag
does not do without it. `NotifyQueue` assumes that time passes and that the
dispatcher, woken every second, goes on. `Shutdown` assumes that `main` takes the step
it waits for, that time passes and systemd keeps its limit, and that a handler whose
stream `Stop` has cut returns, with its defer or before it; clients and agents need not
do anything. The other
modules state safety only.

## 5. Proofs

`TaskStoreProofs` proves, for any sets of tasks, agents, sites and channels that
satisfy `StoreAssumption` and for both values of `SaveMayFail`:

* `Invariance`: `Spec => []IInv`. `IInv` is `TypeOK` with, for memory and for the
  file, `HeldRight`, `PendingFree` and `AssignedHeld` together. None of the three is
  inductive alone: that a task which is given out is held by no other agent needs
  `PendingFree`; that a requeue makes a task free for everybody needs `HeldRight`,
  by which two holders would both be the assignee (`OneHolder`); that a report
  leaves ASSIGNED tasks held needs the assignee to be the holder. They have to hold
  for the file too, since a restart turns the file into memory. `DiskBehind` says that
  memory knows every task of the file, so that a save forgets none.
* `TypeCorrect`, `HolderCorrect`, `PendingCorrect`, `AssignedCorrect`: the four
  invariants of run `store`.
* `TasksStay`, `HolderKept`: its two action properties.

There is one lemma per store operation (`AddTasksGood`, `OnlineGood`,
`MarkAgentOfflineGood`, `AssignGood`, `UpdateTaskProgressGood`), which says that the
operator keeps a good table good; `ApplyKeeps` lifts them to memory and file,
whether the save succeeds or not.

`IntakeProofs` proves, for any sets of requests, bodies, repositories, sites and
routes that satisfy `IntakeAssumption`, with failing saves and crashes:

* `Invariance`: `Spec => []IInv`. What an answer promises does not follow from the
  answer alone, so `IInv` also says how memory, file and requests belong together.
  `Behind`: every task of the file is in memory, so a save loses none and a crash
  brings back only what was known. `Own`: a task in memory belongs to a request
  that is past `AddTasks`. `Stored` and `Backed`: tasks of a request reach the file
  all at once, and what memory holds is in the file unless its request was answered
  with an error; that is what a "duplicate" relies on (`DuplicateBacked`, which also
  names a request that had begun). Requests of one body by one path build the same keys. `BuiltMet`: when a request that is past its check
  finds its body in memory, it has met the request that added it; this needs
  `ServedMet`, that any two requests being served have met. `Told`: what a request
  has announced and what it still has to announce are all of its tasks.
* `TypeCorrect`, `AckedCorrect`, `DuplicateCorrect`, `OnceCorrect`: the invariants of
  run `intake`; `AnnouncedCorrect`: its action property.

There is one lemma per action. The proof uses of `buildTasks` only that it returns
a set of keys, so it holds for every routing.

`RelaySessionsProofs` proves, for any numbers of agents, tasks and faults:

* `TypeCorrect`, without a hypothesis, and, for `StreamsPerAgent = 1`, `Invariance`:
  `Spec => []IInv`. `NothingStranded` and `SentOnce` speak of tasks, but a step
  moves messages, so `IInv` says of each stream which of them may be under way.
  `StreamRight(s)`: while a handler serves its agent, `Session` holds of the task the
  agent has in the store: all reports on the way are about it, in the order of
  `handleTask`, and go on from its status; the task itself is on its way down only
  while it is ASSIGNED and nothing else is under way; the agent works on nothing
  else. A stream that is down has nothing on its way to the agent. `Matched`, of
  memory and of the file: tasks in progress and the agents that hold them name each
  other, so that two streams cannot be in the session of one task. This is where
  `StreamsPerAgent = 1` is used: with two, a late `Exit` requeues the task of the
  other stream, and `IInv` does not hold (finding 1).
* `NoTaskIsStranded`, `TasksAreSentOnce`, `ApiShowsWhatIsSo`: the invariants of run
  `sessions`.
* `ImplementsTaskQueue`: `ImplementsQueue`, step by step: each action maps to one
  action of `TaskQueue` or to a stutter. `Crash` is the exception: it takes memory
  back to the file, which `TaskQueue` allows only as far as tasks are released. The
  theorem has the hypothesis that no save fails, that nothing crashes, or that there
  is one fault in all, which is that of run `sessions` (`MaxFaults = 1`). It rests on
  `QueueUnlessCrashLoses`, which has no bound on faults: every behaviour in which a
  crash finds memory saved implements `TaskQueue`.
* `DoneStaysDone`: under both hypotheses `DoneIsFinal` holds, which run
  `done_regresses` shows violated with two streams.

`NotifyQueueProofs` proves, for any jobs, robots, limits, intervals and faults:

* `TypeCorrect` and `RobotsDoNotHoldEachOtherUp` (`ReadyRobotsServed`), `RobotsArePaced`
  (`Paced`), `AttemptsAreCounted`. `TypeInv` adds to the types that no queue holds a job
  twice and that what a pass has before it (`batch`) and what it sends are still in the
  queue, since nobody else takes a job out; the other invariants stand on it. `OwedInv`: a robot
  the pass still owes a message has a job ahead in the pass. `PaceInv`: the time since
  the last message and the pause left make up `min_interval`, with the one moment
  between an answer and the write of the pause as a case of its own.
* `MessagesAreSentOnce` (`SentOncePerFault`) and `QueueHoldsWhatIsToBeSent`
  (`QueuedIsUnfinished`), if `RepeatWhileQueued` is FALSE, as in run `notify`.
  `OnceInv`: no receipt belongs to a queued job, in memory and in the file; while a
  handler's call is under way no job of its item is queued and no other call is about
  it; a job without a receipt has been sent at most as often as there were faults.
  Without the hypothesis a handler may insert what was delivered after it looked.

`ImageSyncProofs` proves, for any workers, machines, tasks, tags, registries and
accounts that satisfy `SyncAssumption`, the five invariants of run `sync`:
`TypeCorrect`, `TasksKeepTheirImage`, `CleanupIsComplete`, `LoginsAreRight`,
`OlderImagesDoNotReturn`, for any sites and channels of the agents and with removals that
may fail. `IInv` has five parts. `MetInv`: workers that are active on
one machine have met. `HostInv` follows each command to the one that relies on it: the
account from the login to the pull or the last push, the image from the pull to the
last tag, the tag to its push, and what the cleanup has removed or failed to remove.
`RelayInv`: a task that is out is with exactly one worker whose stream is up, tasks are
created in the order of their age, and `Over`: once a task was handed out, an older one
that it did not meet and that was not passed by is at its end and with no worker. `PushInv`: the tags a worker has pushed
name what was pushed for its task or for one that may have overtaken it.
`NewestStays` was first stated without `PushedFor` and was then not inductive for a
reason: of three tasks with one tag the second, pushed from the machine of the
first, may carry the image of the first over the third, without the first and
the third having met. TLC's instance has no tag that three tasks have in common and does
not show this.

`ShutdownProofs` proves, for any numbers of streams and requests and for all times
with `0 < EndTime < ForceWait`, `TypeCorrect` and `NothingIsLeftAssigned`
(`ExitFreesTasks`), and with `HttpWait < StopSec`, as in `main.go` and the unit file,
`OnlySlowRequestsAreCut` (`LimitsAreFair`). `IInv`: each stage lasts no longer than
its limit and begins where the one before ended (`StagesInTime`), a stage that took
its time had something to wait for (`WaitedFor`), an agent whose last hello came to the
defer is offline and free once its handler is gone, one whose handler is before its
first task is `unserved`, and the file is as memory unless the last save failed
(`HandlersClean`).

`TaskViewsProofs` proves, for any tasks, writers and requests, `TypeCorrect`,
`AnswersAreConsistent` (`AnswersAreOneMoment`) and `MapsAreReadSafely`
(`NobodyReadsAChangingMap`). `LockInv`: a writer that has the lock excludes readers
that copy, and without a writer the table is the last one of its history. `ReadInv`:
whatever a request has copied already is as it still is in the table while it
copies, and as it was in one table since it took the lock afterwards.

`RelayConfigProofs` proves, for any set `Raw` of files, of any length, `TypeCorrect`,
`JobsMeetTheirChannel`, `SubscribersHaveJobs` and `EntriesCorrect`. Half of it is
about pure operators: what loading keeps (`ChannelsKeep`, `WebhooksKeep`), and that for
a site with one target and different names a name leads to one place
(`IdentifiedIs`, `FoundByName`). `IInv` relates the tables to files that are no longer
loaded (`MadeInv`): the jobs of an event that are queued in memory or in the file, sent
or given up are among those its file makes (`OnlyMade`); none of them is missing from
memory unless it is `lost` (`NoneLost`), nor from the file if it is not `unsaved` either
(`NoneLostInFile`). Each message went to an enabled channel of the job's
name in the file of its process (`SentInv`), and each job that was given up had none
(`GoneInv`). A process that is up has built its mux (`UpServes`).

TLC has checked each of these inductive invariants on the instance of its run,
before it was proved, and found no violation: `RelaySessions` 47,670 states with one
agent and 1,043,591 with two, `NotifyQueue` 214,203 and, with repeated events,
2,897,060, `TaskViews` 232,309; `Intake` (385,505), `ImageSync` (2,897,298),
`RelayConfig` (773,367) and `Shutdown` (490,093) all states of their runs.

With that every safety property of the passing runs is a theorem. Three modules were
restated so that they can be reasoned about, and say the same of the code:
`NotifyQueue`, `TaskViews` and `RelayConfig` use sets and quantifiers over positions
where they had helpers on sequences. In `TaskViews` a request now copies tasks and
fields in any order, that of the code included.

Only model-checked: liveness (`EveryTaskEnds`, `CallbackHasResult`, `JobsSettle`,
`Stops`), which is out of the prover's reach, and the three violations. That
`ToString` gives different names to different positions is not used by any proof:
two channels of one name are excluded by `Identified`. `Routing` has no properties of
its own; `IntakeProofs` uses of it only that it returns a set.


## 6. Findings

1. `done_regresses`: a late end of an old stream requeues the task of the new one
   (`MarkAgentOffline` goes by agent id), the task is handed to the same agent a
   second time, and after its DONE it goes back to PULLING.
2. `long_task`: an orphaned `handleTask` clears `busy` for the running one; a task
   longer than `max_session_age` is then cut by each rotation.
3. `notify_shared`: the pause is kept per site and channel name, so two channels with
   one robot key (one robot for two sites, say) do not share it.

Smaller gaps between documents and code, and cases in which the code loses something
that no document promises, are conditions of the properties, in section 3.

## 7. Not modelled

* `LoadAgentConfig` and the agent's `main`: they read a file once and call `Run`.
  Numbers, registries and intervals of the relay's file are constants of the modules.
* Parsing of webhook payloads beyond what `Routing` takes from them, references and
  versions of tasks, the text of messages, signatures: data without control.
* HTTP and TLS themselves, what a robot or a callback receiver does with a request,
  and docker beyond the success or failure of a command.
* What gRPC does when two goroutines send on one stream at once (`agent.go:123`).
* Logging, generated code, scripts and the website: no state.

## 8. Plan

Done, in this order: store, its proofs, sessions with the abstract queue,
notifications, routing and intake, the proofs of intake; then failed saves in the
sessions and in the notification tables, docker, configuration, readers, and the
shutdown; then the proofs about sessions, notifications, shutdown, docker, readers and
configuration. Next:

* `RelaySessions` uses the store only as `TaskStore` allows: with `mem` and
  `disk.store` for its variables each step is a step of `TaskStore` or a stutter, so
  that what `TaskStoreProofs` says holds there too, also for several streams.
* What survives of `RelaySessionsProofs` with several streams per agent.
* `ImageSync` with three tasks under one tag, and tasks that no agent takes for a while.
* Lemmas on `Routing` (each task has an enabled route and target; no repository
  reaches a site that no route names), including the fallback to targets.
* `NotifyQueue` with two handlers and repeated events, to say exactly how often a
  message may then be repeated.
