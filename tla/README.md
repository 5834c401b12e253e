# opencode-bridge: a verification development

opencode-bridge is a Telegram bot that hands an owner's requests to a local
OpenCode server, keeps them in a durable queue, schedules and resumes them, and
updates and administers the host it runs on. This directory holds TLA+ models of
its stateful parts, TLC runs over small instances of them, and proofs that the
TLA+ proof system checks for every instance. Paths below are relative to `src/`.

`PROJECT.json` lists every component, run, mutant, theorem and hazard, and maps
every definition to the lines it stands for. A *mutant* is a plausible bug in one
mapped definition; each property of a passing run has one that breaks it.

    tlc -config TaskPool_rows.cfg MCTaskPool        (model checking)
    tlapm TaskPoolProofs.tla                        (proofs)

## 1. The system

One process (`run_v3.py`, an asyncio loop) holds nearly everything; an SQLite file
holds what must survive it. Other processes are the OpenCode server, the update
scripts started by systemd timers, the root guards and the watchdog.

| Component | State it keeps | Operations | Interacts with |
|---|---|---|---|
| Task queue store (`task_queue.py`) | `agent_tasks`: status, lease, retry time, priority, checkpoint | enqueue, cancel, remove, reorder, claim_next, heartbeat, retry_or_dead_letter, finish, recover_interrupted | all services; one writer lock, one transaction per section |
| Worker pool (`task_service_v3.py`) | worker coroutines, their heartbeats, the stop flag | start, stop, poll, claim, execute | the store, the executor |
| Task executor (`bridge/services/task_execution_service.py`) | a copy of the checkpoint, the status message | one attempt of a task | the store, the agent, Telegram |
| Owner queue service (`bridge/services/task_service.py`) | none | enqueue with dispatch flags, cancel with abort, retry | the store, the agent |
| Agent turn (`opencode_client.py`, `agent_service.py`, `retry_policy.py`) | the message id in the checkpoint; the server's session | look up, submit, poll, abort, classify a failure | the OpenCode server over HTTP |
| Provider quota pause (`retry_policy.py`, `daily_continuation.py`, `task_queue.py`) | the shared pause, a job's slot | look, refuse, pause, put off, declare complete | every execution |
| Workspaces (`workspace_manager.py`, `workspace_runtime.py`, `agent_service.py`) | allow-list, active repository, session of each task | add, use, new session, settle on a session | the agent, git |
| Named schedules (`task_queue.py`, `schedule_service.py`) | `scheduled_jobs`, the mirrored `schedules`, `schedule_runs` | create, rename, retime, pause, duplicate, delete, run now, promote_due | the store's tasks |
| Reminders (`reminder_service.py`, `reminder_plugin.py`) | `owner_reminders`, the batch in flight | create, list, cancel, claim, send, mark, reset | Telegram |
| Downloads (`download_service.py`, `cache_retention.py`) | the index, the files, a lock across processes | fetch, list, delete, expire | the panel, the midnight clean-up |
| Intake, drafts, pending attachments (`media_service.py`, `attachments.py`, `draft_intake.py`) | waiting files, albums, the open draft | gather, flush, take, restore, purge | Telegram updates, the store |
| Agent questions (`bridge/telegram/interactions.py`) | cards, taps, requests of the agent | show, tap, type, answer, reject, expire | the agent, the owner |
| Panel (`bridge/telegram/control_ui.py`) | the input waited for, wizards, confirmations | press, answer, confirm | every service |
| Rendering and progress (`markdown_html.py`, `news_pages.py`, `progress_reporter.py`, `live_output.py`) | pages, one status message, the task's trail | page, send, edit, throttle, finish | Telegram, the executor |
| Task files (`attachments.py`, executor) | input and output directories of a task | fetch, check, delete, collect, send | Telegram, the executor, cancellation |
| Start and stop (`bot.py`, `run_v3.py`) | services assigned and running | ten attempts, poll, shut down | everything |
| Release updater (`maintenance/self_update.py`, `scripts/deploy.sh`, `update_coordinator.py`, `update_report.py`) | ledger, quarantine file, tree, `deployed-ref`, deployment lock | decide, verify, claim, deploy, roll back, reconcile | git, systemd, the running bot |
| Artifact deployment (`maintenance/activate_artifact.py`) | link, identity, database backups | activate, prove, roll back | systemd, the bot |
| Host control (`runtime_controls.py`, `host_operations.py`, `host_control.py`, `server_admin.py`) | policy files, the exclusive guard | set policy, update, restart, reboot, maintain | systemd, the updater |
| Reboot guard (`reboot-guard.sh`, `callbacks/reboot.py`) | request and decision files | ask, confirm, cancel, reboot | the owner |
| Watchdog (`watchdog_runner.py`, `watchdog_policy.py`) | restart budget in a file | look, decide, restart, record | systemd |
| Tools, skills (`tool_manager.py`, `skill_sync.py`) | policy file, packages; ledger, published skills | install, remove, activate; sync, reload | apt, git, the agent |
| Credentials (`provider_keys.py`, `workspace_runtime.py`) | the key inventory, the client it keeps | add, activate, rotate, fall back | the agent turn |
| Models (`model_manager.py`, `model_selection_service.py`) | catalogue, pins, saved selections | refresh, pin, reconcile, sweep, choose | the agent |
| Adaptive worker limit (`adaptive_workers.py`, `resource_monitor.py`) | samples, the limit, evidence of a shadow policy | sample, raise, lower, persist | the pool's admission |
| Backups (`admin_backups.py`) | snapshots with metadata | make, prune, delete, purge | the maintenance |
| Settings (`bridge/config/settings.py`) | read once by each program | load, validate, override by a user's policy | everything |
| Media, GitHub, mirrors, prompts, metrics | see `PROJECT.json` | | |

What makes it hard:

* **Interleavings inside one loop.** Every `await` lets another coroutine in. The
  store's methods hold a lock for a transaction, but several of them read in one
  section and write in another, and services combine several of them.
* **Crashes.** systemd restarts the bot at any time; a deployment does so on
  purpose. Work in the queue, a prompt at the agent, a batch of reminders, a key
  rotation and a half-done deployment are each cut in two.
* **Ambiguous requests.** A prompt or a message whose answer is lost may have had
  its effect.
* **Leases and clocks.** A row is held by a lease that a separate coroutine
  renews; deferred rows, schedules, reminders and the quota come due by the clock.
* **Several processes.** The updater, a manual deployment, root guards and timers
  share the ledger, the tree, files of policy and a lock with the bot.
* **Old buttons.** A press carries what its page knew; the lists behind it move.

What makes each part correct, in one line each: a task is executed by one worker
at a time and one at a time per owner, and committed work is never lost; a prompt
reaches the agent once, in a session of its repository, and what is delivered is
its end; an enabled schedule keeps running, without overlap and with its history;
a reminder goes out, and only as often as failures force; a file meets one
instruction and stays while its task may run; what the owner confirmed happens
once and as shown; the provider is asked no more than needed to learn its quota is
spent; a release is tried once, and tree, record and running bot agree whenever
nobody deploys; nothing on the host restarts, reboots or updates against the
owner's word.

## 2. Modules

A component is a module; parts that share no state are put side by side in one
composition (`TimedServices`, `OwnerServices`, `HostServices`, `Conversation`),
whose behaviours explore one part, said by `part`, and leave the others as they
start. Instances are `*.cfg`, with their values in `MC*`. Proofs are in `*Proofs`:
those about a part are in the module of its composition, but for `Pages`, which has
one of its own.

**The queue.** `TaskPool` is the queue table, the pool and the executor's store
calls. One action is one section under the store's transaction lock; `finish` and
`retry_or_dead_letter`, which read and write in two sections, are two actions each.
`row` is the table (status, ticks left of the lease, of the retry time and of the
recurrence, priority, the part of the checkpoint that decides anything); `worker[w]`
is a worker coroutine with the program counter of its `execute` call and that call's
own copy of the checkpoint; `unsaved` holds the tasks between the two writes of
`enqueue_prompt`, `lost` (a history) the rows a worker lost its hold of. `OwnerActs`
are the owner's calls and `QueueCommand` the `/queue` command and its buttons, which
combine them. `CrashRestart` loses the coroutines and runs `recover_interrupted`.
`OwnerQueue` is what the queue promises an owner: a task is waiting, worked on or
over, one at a time, kept if its outcome is to be recorded. `TaskPoolQueue` maps the
one to the other.

**The conversation.** TaskPool sees an attempt as one step. In `AgentTurn` it is
its HTTP requests, each of which may fail before or after its effect, with the
session of the OpenCode server as an environment of its own. `id` is
`checkpoint["message_id"]`, `stage` the request the executor is at, `seen` what it
read in the first half of a poll. A cancellation is two steps (row, then abort).
`Workspaces` is which session a prompt goes to: the allow-list, the active
repository, the row of a task, the binding, and the steps in which the executor
and the owner's commands replace a session.

**What acts by the clock.** `Schedules`: `jobs` is `scheduled_jobs`, `runs` and
`seen` the mirrored history, `queue` the calls waiting for the store's fair lock
with what they computed from an earlier read; `PromoteDue` is the whole handler. The
buttons of a schedule's card carry its id: `Find` reads its name, and only then the
method that acts by name is called (`AskButton`).
`Reminders`: the table, the batch and its position, the outcome of the message
under way. `Downloads`: index, files, the lock two processes share; three actors
cut at every write, with `BotDies` and `TimerDies` between any two.

**What serves the chat.** `Intake`: messages, albums with their flush job, waiting
files, drafts; a job gives way only at a database or Telegram call. `/research` and
the other commands with a task of their own are there, and inserts that fail.
`Questions`: the card, the taps in the process, the request in the server. `Panel`:
inputs, wizards, confirmations and lists whose buttons carry positions;
`Confirmable` is, page by page, what `render` lets the owner ask for, since an old
page stays in the chat, and `RunGate` who may run it. `Pages`: an answer as lines
(tables, quotes, rules and fields among them), its sections, their blocks and pages,
the first of which is rendered again into the status message, and their sending.
`Progress`: the executor and the event reader over one status message and trail: the
stream may end at any time, the executor's cancellation may meet the reader's last
write (`CutOff`), and two of the owner's commands write to both, the one that
announces a task's place and the one that cancels it. `TaskFiles`: the files of one
task over two executions and a cancellation. `DailyQuota`: tasks of several owners,
some on paid models, beside one free bucket, in half days. `Startup`: attempts over
what earlier ones left, and a shutdown that stops what `post_shutdown` stops.

**What looks after the host.** `ReleaseUpdate`: `phase` is the ledger, `tree`,
`ref` and `running` the checked-out release, `deployed-ref` and what the bot
executes; the actions follow `self_update.py` and `deploy.sh` command by command,
the rollback's commands, each of which may fail, and the maintenance's write of
`deployed-ref` outside the lock among them (`botched` remembers both).
`HostControl`: the policy's files and who reads them, the maintenance one root command
at a time. `RebootGuard`: two processes over two files, with the number of the request
that each button was pressed for. `Watchdog`: one cycle, its budget's file and deaths
in between. `Tools`, `Skills`: packages and skills against their policy file and
ledger. `Credentials`: rotations in three steps over a client that `run_v3` has closed
or left open, and the fallbacks of a prompt. `Models`: pin, sweeps, the nightly one
included, and a turn at their awaits, with media and resumption. `WorkerLimit`: a
sample, its stabilisation and the evidence on disk. `Activation`: switch, proof and
rollback beside a bot that runs the checkout named in its unit file and writes.
`Backups`: snapshots under two processes.

`Settings` has no state: it is what `BridgeSettings.load` makes of its sources
(`Read`, `Over`), what it refuses (`Accepted`, part by part as the code builds the
parts), what a user's policy may change (`Resolves`, `Overridden`), and what the
downloads make of their limits. `HostServices` takes it as `Config`; samples of it
are evaluated in `MCHostServices` (`SettingsRead`).

Left out everywhere: wording, layout, logging, notifications (kept where their
failure changes the outcome: `FinalizeRaises`, `NotDeferred`), arithmetic of dates.

## 3. Runs

`MaxX` constants bound counters; they are named in the modules and set in the
configurations. Passing runs:

| Run | Shows | Instance |
|---|---|---|
| pool_rows | a deferred row keeps its owner's later ones waiting; recorded work leaves the table only by the owner's hand | 2 rows of 1 owner, 2 workers, leases of 1 tick, a crash anywhere |
| pool_leases | one leased or running row per owner; a second execution of an owner only beside a withdrawn or lost row; the pool implements `OwnerQueue` | a recurring and a plain row, a heartbeat that dies or an executor that lags |
| pool_progress | active rows end; a lone row is taken | 2 one-off rows, fairness |
| conversation | one submission per message, none beside a live or answered one; only finished turns delivered; cancelled turns stop; every turn is left; a prompt goes to a session of its repository | 3 messages, 2 upsets of any kind, fairness; 2 repositories, 3 sessions, 2 tasks, 2 commands, a restart |
| timed_services | bounded retries, every reminder ends; a due schedule moves on, no overlap but the owner's; records have files, the budget is kept, a file goes | 2 reminders, 2 crashes, a store error; 1 schedule under all edits; 2 files, a budget of 2 chunks, a death anywhere |
| owner_services | occurrences recorded; files meet one instruction; cards tell true; a confirmation counts once; answers arrive but for what is spared; the trail is kept; files follow their task; the bucket is asked once per slot; services start once | each part's smallest race: 3 files, 2 questions, a list of 1 with old buttons, 4 lines, 2 executions, 3 tasks over a noon, 3 attempts in 2 lives |
| host_services | the policy is obeyed; reboots as said; restarts bounded; activated or reported; reloads not lost; keys serve; turns on their pin; the limit is earned; an activation's outcome is true; two snapshots remain | 1 death, 2 requests, 3 tools, 2 skills, 2 keys, 1 owner with 2 catalogues, 2 workers, 2 releases, 3 snapshots |
| release_ledger | one claim per release; none stays applying | 2 updaters, 2 releases, an upset, a restart, fairness |
| release_host | tree, record and bot agree when nobody deploys | 2 updaters and a manual deployment, failing at any command, the rollback's included, and a maintenance that writes `deployed-ref` |

Two rows, two workers, two schedules or two updaters are what every hazard listed
takes: each is a race of two actors over one row, or of two rows of one owner.
Three messages let a retry follow an empty reply, three files leave one outside an
album of two, three tasks let one be refused before and one after the pause.
`MaxLost` is 1: one row is lost to a dead heartbeat or a late epilogue, which is
enough for a second execution of it and of its owner. It is 0 in pool_rows, whose two
properties are proved for every value of it (`DeferredBlocksLater` has its own
exception for a lost row), and in pool_progress for time alone: with a row that may be
lost both its properties hold too, in 457 356 states and more than five minutes. `MaxRows` is 1 where the code shows 12 rows of a table, so that four
lines have a row too many. `MaxFailures` is 1 in `DailyQuota` where the code has 5:
the count only says when a task gives up. The bounds on crashes and faults allow one or two in any position;
the theorems of section 5 do without all of them.

Some properties are conjunctions of what one component owes: `StoreKept` of
`IndexHasFiles` and `BudgetKept`, `AskedOnce` of `PromptWhenUnanswered` and
`SubmittedOnce`, `OneInstruction` of `FilesKept` and `PromptOnce`, `AnswerArrives` of `PagesWhole` and `RefusedIsLocal`,
`FilesFollowTask` of `InputsKept`, `InputsGo` and `OutputsSent`, `QuotaKept` of
`RefusedOnce`, `ResumeWithPause` and `EndsDeclared`, `StartedOnce` of `NoneTwice`,
`PollingUp`, `RecoveredFirst` and `ShutDown`.

Several properties hold up to a named event, because the code promises nothing
after it; the condition is part of the property, never of the instance:
`PromptWhenUnanswered` until the server answered a lookup or a poll with a 5xx, 402,
408 or 429, `DeliveredIsComplete` until the agent restarted or moved on within a poll,
`CancelledMeansStopped` until a request failed or the bridge restarted, `Settles`
except for what a store error left `sending`, `ApplyingEnds` except for what was
killed while the bot lives on, `OneExecutionPerOwner` except beside a row the
owner withdrew or a worker lost, `ActiveEnds` for a row that was not lost, `BudgetKept` except for strays and while a media
transfer is under way, `Expires` until a midnight clean-up was skipped or the index
became unreadable, `SettledTree` from a deployment that was killed, timed out, failed
after its record or rolled back with a failing command, or whose record the
maintenance overwrote, to the next one that succeeds, `NeverAnotherRepo` except for a
session a command stored just while the executor was to read the row,
`ReloadNotLost` until a sync failed between its steps, `KeysServe` until a PUT, a save
or the bot failed inside a change, `AnswerArrives` but for what is spared (`Spared`)
and the tail the first page may lose, `TrailKept` but for what a reader had left to
write when it was cut off, `ShutDown` but for the clean-up of downloads, `TurnOnPin`
but for the sweeps that pass over a pin, turns with media that change their model and
turns that are resumed, `RebootAsSaid` but for a button recorded after the last look or
pressed for the request before, `LetsNothingThrough` for what had not been let through
before, `OutcomeTrue` but for the unit files of a failed release.

Three runs end in a violation: each states what a document says, and the
counterexample is what the code does; `PROJECT.json` quotes the lines:

| Run | What happens |
|---|---|
| release_running | the restarted bot quarantines the release being installed |
| tools_provision | a tool the owner removed is installed again: the bot records the removal in another file than the one provisioning reads |
| activation_data | a release activated again is rolled back to the database of its first attempt, losing what was written since |

`CHECK_DEADLOCK FALSE` is set where the system may really stop: when a task and its
commands are over (conversation), when every reminder has ended and the bounded
clock stands still, the inputs of a chat or the events of a host are used up (the
three compositions), when the newest release is installed or quarantined
(ReleaseUpdate), and when nothing is left to install or activate (Tools,
Activation).

### Known limits of the code

Behaviours the models contain and the properties above therefore exclude. Each
was met as a counterexample of a stronger property, or while translating the line.

The queue and its executor:

* `task_service_v3.py:174`: an exception of `store.heartbeat` ends the heartbeat
  for good; the lease lapses and a second worker executes the row
  (`lost`, as in the next item).
* `task_service_v3.py:164`: a worker in its clean-up finishes any row that reads
  `running`, also one deferred and claimed again meanwhile; line 163 judges the execution by
  that row's status.
* `task_queue.py:1053`: cancelling a running row frees its owner at once, so the
  next row may start while the worker still executes the cancelled one;
  `README.md:101` has tasks run one at a time per owner (why
  `OneExecutionPerOwner` has its exceptions, this one and the two above).
* `task_queue.py:1538`: recovery deletes the one-off running rows that had no
  checkpoint yet, which `docs/durable-task-resume.md:25` keeps as failed.
* `task_execution_service.py:611`: after a dead letter the handler goes on to
  `finish`, which overwrites it with `failed`; a late report may turn a completed
  row into a failed one or overwrite an owner's retry (`OwnerQueue` admits both).
* `task_execution_service.py:508`: an error in the final message of a daily
  deferral fails the row just deferred.
* `task_service.py:121`: a crash between the insert and the save of the dispatch
  flags leaves a daily task running as a plain one; line 216: a restart or a lost
  request between cancelling the row and aborting the session leaves the agent at
  work, and aborting a deferred task may end another task's turn.
* With the pool at its limit a row of another owner can starve behind a row that
  is deferred and claimed again for ever (why `LoneRowIsTaken` is checked with
  room for both).

The agent and its sessions:

* `task_execution_service.py:571`, `retry_policy.py:169-172`: a 5xx, 402, 408 or 429
  of the local server on a lookup or a poll is taken for a confirmed failure of the
  provider; the message id is dropped and a second prompt sent while the first is at
  work, which `docs/durable-task-resume.md:9,17` excludes.
* `opencode_client.py:248`: an agent restarted between two steps of a turn shows
  an idle session with a completed reply; the step is delivered as the answer.
* `workspace_runtime.py`: the wrapper around `core._create_fresh_session` is never
  reached, so `/new`, `/start`, `/use` and the panel create sessions in no
  directory; a session a command stores just before the executor reads the row is
  used for the prompt and then bound until the row changes (`Exposed`); `/sync` may
  move a tree under a turn.
* `bot.py:1390`: the workers start before managed repositories are allowed again
  (`gh_plugin.py:43`), so a recovered task of one is refused and fails.
* The quota pause ends at 12:00 UTC, though `docs/zen-free-quota-recovery.md:3,5`
  says the next 00:00, so a bucket that is renewed at midnight lies idle for half a
  day; `retry_policy.py:139-154`: a paid model's 429 whose `Retry-After` lands on
  that noon pauses the free tasks of all; a paid model's fallback to a free one
  never looks at the pause; failures counted for giving up survive a successful day;
  a daily job ignores a longer `Retry-After`; `is_task_complete` ignores a hedge
  before its sentinel.
* `workspace_runtime.py:117-127`: under `run_v3` the agent gets another HTTP client
  and the first is closed, which `bot.py:169` has given to the key manager: every
  activation and rotation raises and the file goes on naming the key that an earlier
  process activated. The new client has no credential pool, so `credential_pool.py`
  is used by nothing.
* `provider_keys.py`: where the client stays open, `rotate_on_error` looks at the
  file's active key and may go back to a spent one.
* `model_manager.py`: the nightly process has no reader of pins and moves pinned
  conversations, though `docs/t51-model-picker-ar.md:39` has both kinds of sweep pass
  them over; `task_execution_service.py:276-299` gives up the pin for a model that
  reads the task's pictures; a picker's buttons are positions in a catalogue fetched
  again.

Schedules, reminders, downloads:

* `task_queue.py:426`: retiming a one-off schedule that `promote_due` has just
  disabled plans a run that never comes; `task_queue.py:510`: a renamed schedule
  no longer shows the history of its old name.
* `reminder_service.py:324`: a store error while marking leaves the rest of the
  batch `sending` until the next start of the process.
* `download_service.py:641`: an empty HTTP response is recorded with size 0, and
  `_read_index` (line 367) refuses an index with such a record from then on.
* `cache_retention.py:45`: a death during a transfer leaves a `.part` or
  `.working` file, which keeps every later clean-up from its work and is not
  counted in the budget; line 49: unfinished tasks are looked for before the lock
  is taken, so one may be enqueued before the files go.
* `bot.py:531`: the docstring speaks of at least 24 hours of retention; midnight
  removes whatever was recorded before it, seconds old or not.

The chat:

* `attachments.py:201`: a late file of an album cancels a flush in progress, whose
  files vanish with it; `media_service.py:174`: a captioned file over the limit
  loses the waiting ones; a `/direct` that fails to enqueue loses the files it took;
  a text delivered again after its first delivery took files makes a second task.
* `draft_service.py:52`: `/draft schedule` passes its arguments in the wrong order;
  an open draft, a wizard and an input waited for are lost by a restart.
* `control_ui.py:1395`: an edit waits for its input before the schedule is looked
  up; line 1113: a refused input is waited for again, contrary to the docstring of
  lines 3-6; a confirmed deletion acts on whatever has the position by then; the
  confirmation `docs/t52-control-panel-ar.md` asks of every change is not asked by
  the schedules' toggle and retry.
* Pages: `news_pages.py:107`: `_chunks` ignores fences, so a line of code that looks
  like a heading splits its block, and drops the first of two consecutive headings,
  contrary to line 10. `markdown_html.py:285-317`: a table shows 12 rows and cuts
  cells at 90 characters; the rest is counted or gone, and in no file.
  `execution.py:155`: the first page is rendered a second time into the status
  message, and what then no longer fits is sent nowhere, contrary to lines 146-147. A
  bot that stops between `finish` and the delivery leaves the answer unsent.
* `callbacks/interactions.py`: a typed answer may discard taps, contrary to the
  docstring of `_answers_with`.
* `task_execution_service.py:657`: the event reader is stopped only after the final
  text is out; what it has buffered is published over it
  (`progress_reporter.py:249`), contrary to line 180 there and `README.md:70`. If
  the stream had ended by itself, the cancellation may cut off the reader's last
  write (`progress_reporter.py:248-252`), and entries of the trail stay unsaved,
  contrary to line 412 (`CutOff`). In the same way the queue's announcement of a
  task's place may edit the message of a task that has begun since (`TellPlace`).
* Task files: a cancellation before the executor's first look leaves the input;
  the output directory is never emptied and is sent again by every continuation,
  files after the tenth by name never; a retried failed task has lost its input.
* `bot.py`: a service is assigned before its `start()`; if that raises, the next
  attempt skips it and the bot polls without it; SIGTERM waits for the attempts;
  `post_shutdown` (1436-1463) never cancels the clean-up of downloads (541-546).

The host:

* `self_update.py:275`: a deployment turned away by the lock or by a running task
  is quarantined like one that failed; line 243: the version is compared long
  before the deployment lock is taken, so an updater may go back to an older
  release; line 220: the policy is read once, minutes before `deploy.sh` at 270.
* `deploy.sh:121-124`: the commands of a rollback end in `|| true`: a checkout, an
  install or a restart that fails leaves tree, record and bot apart, and the
  deployment is reported as rolled back. `daily-maintenance.sh:157`: the bot is
  restarted whatever it does, and 159 overwrites `deployed-ref` outside the lock.
* `reboot-guard.sh` never compares `request_id`, so a button of the request before
  counts for this one; a button pressed after the script's last look (the request is
  `awaiting` until line 123) is accepted and changes nothing; a task that starts after
  the script has looked for running ones is rebooted under.
* `daily-maintenance.sh:233-239`, `server_admin.py:157-160,178-182`: the emergency stop
  is looked at once, before the first command. The upgrade that follows an index being
  refreshed, the rest of a panel's update and a deployment being verified go on,
  although `docs/emergency-update-stop-ar.md:3` says the stop stops them.
* `deploy/opencode-bridge-telegram.service:9,13`: the bot runs
  `/home/ubuntu/opencode-bridge`, never `releases/current`: an activation moves the link
  and the identity and restarts the same checkout; the unit files it installs
  (`systemd.py:54-83`) are not rolled back.
* `activate_artifact.py`: a rollback may judge the failed release's bot before its
  restart, restores the database under a running bot, and a crash between switch
  and commit makes an unproven release the next "previous";
  `docs/t04-database-layer-ar.md:37` has the writer stopped and the file kept.
* `control_ui.py:197`: a crash between unlinking a snapshot and its metadata
  leaves the metadata for ever.
* `skill_sync.py:321`: a batch is not all or nothing; a hand-made skill of the same
  name is replaced; `clear_reload` may lose a later sync's flag.
* `tool_manager.py`: a removal that crashes before its record is not recorded.
* `adaptive_workers.py`: a bad sample after the last save is forgotten by a crash;
  while all workers are busy no samples are taken, yet stable time passes.

The settings:

* A user's policy (`settings.py:810`) is used by the read-only views of settings and
  limits alone: the services are built from the settings of all, though
  `settings.py:3-5` gives policies precedence over them. It may set
  `attachment_pending_seconds` to 1 where the start requires 60, and its values are
  looked at when it is applied, so a policy the start admits can make both views fail.
* `ttl_hours` is accepted up to 8760 and used up to 24 (`download_service.py:237`);
  `nan` passes every range of a float, since it is on no side of a bound.

## 4. Fairness

* TaskPool: the event loop runs every coroutine that can run, time passes, and a
  turn ends. The last is not the pool's to guarantee: AgentTurn's `TurnLeft` shows
  it of the client, given a server that works on what it accepted.
* AgentTurn: the executor's loop sleeps five seconds and every request has a
  one-minute limit, so it keeps going. `Session` is fair: a prompt that was taken
  up proceeds, and the wait for a provider is the server's own. `TakenUpInTime`
  says a prompt is taken up within the three polls after which the client gives
  the session up.
* Schedules: the store's lock is an `asyncio.Lock`, first come first served, and
  the pool calls `promote_due` at least once a minute.
* Reminders: the scheduler polls for ever and Telegram requests have a timeout.
* ReleaseUpdate: scripts end, by `deploy_timeout` if need be, and the bot's
  service is restarted by systemd.
* Downloads: transfers and clean-ups proceed, reads of a response have a time
  limit. `Tick` and the task's `Gate` are strongly fair: the owner's short
  sections disable both again and again, yet they take milliseconds and the loop
  resumes the task between them. A transfer that trickles for ever is out of the
  model, since HTTP transfers have no overall deadline but a size limit.
* The other parts state no fairness: what they owe is safety.

Crashes, faults and the owner's commands are never fair.

## 5. Proofs

Every theorem holds for all values of the constants allowed by the module's
assumption (`HostAssumption`, `OwnerAssumption`, `ScheduleAssumption`,
`TurnAssumption`, `WorkspaceAssumption`, `UpdateAssumption`, `StoreAssumption`,
`ReminderAssumption`, `SizeAssumption`, `RowAssumption`), which name what the code's
own constants and configuration checks guarantee. Composition costs one lemma: every
step is a step of the part it explores or leaves that part's variables alone
(`OneAtATime`), so a theorem about a part is one about the composition.

* **TaskPoolProofs.** Types need one more conjunct, `DeferSites`: where a deferral
  returns to is decided by where it was asked for. `OneLeasePerOwner` and
  `WithinCapacity` follow because only `claim_next` makes a row active
  (`OnlyClaimActivates`), and it looks at all of them in its transaction. That a
  row stays its executor's (`ExecutorInv`) is inductive only as a whole: different
  workers hold different rows, what is claimed stays leased and what is executed
  stays running under a lease, and ids are fresh. It says so of the rows that were not
  lost (to a dead heartbeat, or to an executor on its way out when they were claimed
  again), and lost rows are history that no action reads but for its bound: nothing is
  assumed about heartbeats or executors. `SingleTurn` follows from it: two rows under
  execution are two active rows of one owner unless one was withdrawn or lost.
* **The refinement.** `PoolImplementsQueue`: a row's stage is its status without
  leases (`StageOf`), what is kept are the rows to be recorded (`KeptRows`).
  `QueueInv` has what a stale snapshot could spoil: ids are fresh, a row exists
  only for a task asked for, and an executor's copy of the flags agrees with the
  row (`CopyAgrees`). Each of the pool's actions is then one of the queue's or a
  stutter. `OwnerQueueProofs` proves of the queue itself that one task of an owner
  is worked on at a time and nothing kept goes but by the owner's hand.
* **ReleaseUpdateProofs.** `LedgerInv`: an updater past its claim is at a release
  whose phase is spent, no two are at the same one, and a release rolled back is
  spent for good; hence `SingleClaim` and `FailedNotRetried`. `HostInv`, for
  `SettledTree`: the deployment lock is held exactly in the stages that hold it,
  by one (`OneHolder`), and the holder's stage tells how far tree, record and bot
  have come, forward or back (`UnderWay`); it claims nothing of a rollback with a
  failing command, nor once a deployment was killed, timed out or failed after its
  record or the maintenance wrote the record in its middle, until the next deployment
  that succeeds.
* **TimedServicesProofs.** Reminders: `Inv` adds to types and `BatchHeld` the accounting
  `Counted`: each message sent is a counted attempt, a crash, a store error, the
  final "sent" or the delivery under way. `RetriesBounded` and `EndedIsSilent`
  follow. That executions overlap only by the owner's doing needs the schedules'
  types alone: `promote_due` opens one only where none is open, in one section.
  Downloads: that every record has its file (`RecordsHaveFiles`) rests on
  who may touch what: the lock's holder alone is inside (`StorageExclusive`), what
  it read is still the index when it writes (`Fresh`), a transfer works on a slot
  without a record (`Apart`), and what is unlinked has none any more (`Dropped`).
  `StoreIsKept` adds the budget. The bytes of a set of files are taken as the number
  of chunks the files have together (`BytesAreTotal`), so the library's facts on
  cardinality apply. `QuotaInv`: what is recorded and what is still to be unlinked
  fit the budget together at every instant (`Within`), and the transfer under way was
  promised no more than is left (`Promised`) and writes no more (`Sized`).
* **ConversationProofs.** `TurnInv`: only the checkpoint's message may be at work or
  answered until a retried refusal (`OthersOver`, `GivenUpIsOver`), a step whose
  turn is over was cut off by the agent's restart (`StepIsCutOff`), and once the
  owner's abort is out nothing is at work for a cancelled task unless its executor
  is at a watch or an abort of its own (`StoppedUnlessWatched`). It gives
  `DeliveredIsComplete`, `CancelledMeansStopped` and the action property
  `AskedOnce`. `WorkspacesInv`: every place that hands a session on (row, binding,
  checkpoint, executor, command) got one that fits its repository, or one a command
  put there while the executor was settling; hence `NeverAnotherRepo`.
* **OwnerServicesProofs.** `SchedulesInv`: whoever waits at the lock brings a time
  later than every occurrence recorded and than those of the promotions before it
  in line (`InLine`), and what an enabled schedule waits for is later than all its
  history (`Recorded`), so no two occurrences meet in one row (`OneRowEach`).
  `IntakeInv`: no file is with two of the stored batch, the album, the jobs and the
  tasks (`NotShared`), and what they have is on disk. `FilesInv`: one execution is
  at work, and while a task that has ended has its input somebody is there to delete
  it (`Answerable`). `QuotaInv`: until the pause is in force each refusal since noon
  has its execution in flight or cut off by a restart; then only what was sent before
  may be refused (`RefusalsCounted`). `StartupInv`: what runs is assigned, and what
  is assigned runs but for what raised; workers run over recovered rows only.
  `TrailInv`: what was answered is saved, and only a reader still to be stopped, or cut
  off in its last write, can have more. `CardsTellTrue` and `ConfirmedOnce` are inductive
  but for types.
* **PagesProofs.** `AnswersArrive`, for answers of any length and pages of any size:
  the pages that are delivered are its lines in their order but for what is spared.
  What is cut is computed by folds over sequences. Each fold is shown to have a
  trace, the values it takes from one element to the next (`TraceExists`), and what
  holds along a trace follows by induction on its positions as a set of numbers
  (`NatSetInduction`). Reading: what was read is in the blocks or in the fence still
  open (`ReadTrace`). Cutting: a block is its pieces, none larger than a page
  (`SplitWhole`). Packing: what was packed is in the pages or in the open one
  (`PackTrace`). Sections: with the open one and the heading that waits they tell an
  interval of the answer (`Tells`, `Sectioned`), so their pages do too. Sending: a
  page is skipped only when it was refused itself.
* **HostServicesProofs.** `ControlInv`: what each half-written change has already
  put into the files (`HalfWritten`), whence no state of the files contradicts
  itself. `RebootInv`: the script's word is the decision on disk, pressed for
  this request unless one crossed into it. `WatchdogInv`: a
  cycle works on what the file holds, and its own restart is in the file before it
  is made. `PackagesInv`: each tool of "activate all" is still pending or told, and
  the policy written is the one read. `SkillsInv`: one sync works on the state it
  read, a batch touches what the ledger has in another version, and outside it the
  agent has read what is there unless a reload is owed. `InventoryInv`: the key on
  its way to the server is stored, and outside a change the server has the active
  one. `ChoiceInv`: a turn is bound to the pin of now, what is resumed
  remembers the model it began with, a sweep that looked moves nobody with a pin but
  who set it since. `CapacityInv`: below all workers recovery
  is counted from the last pressure (`Recovering`). `ActivationInv`: what link, bot
  and identity are at each stage. `SnapshotsInv`: what a purge found usable is newer
  than all it has not looked at, and still there unless others took it.
  `SettingsAreLegal`: sources on which a program
  starts give what the assumptions ask of settings (workers, restarts, cool-down,
  sizes of prompts and downloads); `PoliciesAreLegal` says it of a user's policy.

Only model-checked: `ActiveEnds`, `LoneRowIsTaken`, `ApplyingEnds`, `Settles`,
`DueMovesOn`, `Expires` and `TurnLeft`, which are liveness under fairness and need
`ENABLED`. Every invariant and every other action property of a passing run has a
theorem. The induction theorems of the library take an operator as a parameter,
which the provers cannot instantiate; where one is needed it is made on a set of
numbers instead.

## 6. Plan

Done: the models of sections 1 and 2, and a theorem for every safety property of a
passing run. What could follow:

1. The result of an update as the next process announces it (`update_report.py`),
   and `/gh` commands over a checkout that a task works in.
2. A composition of TaskPool and AgentTurn for sessions shared by tasks.

Not modelled: text, menus, formatting, media conversion, network fetches of public
pages, read-only inventories, preferences, GitHub administration, command policy and
audit, and library code that nothing in `src/` calls (circuit breaker, fair queue,
storage back ends, `attachment_storage_service.py`, the panel router
`bridge/telegram/panels`, which no live entry point shows); see `PROJECT.json`.
