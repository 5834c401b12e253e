------------------------------ MODULE Schedules ------------------------------
(***************************************************************************)
(* The named scheduled jobs of one owner: the scheduled_jobs table with    *)
(* the operations of task_queue.py and of                                  *)
(* bridge/services/schedule_service.py on it, the occurrences and the run  *)
(* history promote_due writes, and the agent_tasks rows it inserts.        *)
(*                                                                         *)
(* The store serves its callers through one asyncio.Lock, which is fair:   *)
(* `queue` is the lock's line of waiting coroutines.  What a caller works  *)
(* out before it asks for the lock (utc_now() above all) is in its request *)
(* and can be old by the time it is served.  The bot handles one update of *)
(* the owner at a time, and the worker pool runs one promote_due at a time.*)
(***************************************************************************)
EXTENDS Integers, Sequences, FiniteSets

CONSTANTS
    MaxJobs,     \* schedules ever created; ids are AUTOINCREMENT, never reused
    Names,       \* schedule names, unique among the owner's schedules
    MaxClock,    \* bound on the clock
    Period,      \* repeat_seconds of every recurring schedule, in ticks
    Commands,    \* the editing commands the owner uses
    MaxCrashes   \* bound on process restarts

\* The commands that first read the schedule.
Edits == {"time", "interval", "once", "timezone", "pause", "resume", "run", "duplicate"}

\* What the buttons of a schedule's card ask for.
Buttons == {"pause", "resume", "run", "duplicate", "delete"}

ASSUME ScheduleAssumption ==
    /\ MaxJobs \in Nat \ {0}
    /\ IsFiniteSet(Names) /\ Names # {}
    /\ MaxClock \in Nat \ {0}
    /\ Period \in Nat \ {0}
    /\ Commands \subseteq Edits
    /\ MaxCrashes \in Nat

Jobs  == 1..MaxJobs
Null  == 0                          \* next_run_at IS NULL
Times == 1..(MaxClock + Period)

Definitions == [name : Names, enabled : BOOLEAN, next : Times \cup {Null}, repeats : BOOLEAN]

\* A task row of a schedule is named by the occurrence it materializes
\* (idempotency_key schedule:<id>:<occurrence>); <<j, Null>> is a row that
\* /schedrun inserted, of which the model keeps one per schedule at a time.
TaskKeys     == Jobs \X (Times \cup {Null})
\* "open" stands for queued, leased and running.
OpenStatuses == {"open", "retrying"}
TaskStatuses == OpenStatuses \cup {"final", "absent"}

Ops   == {"promote", "create", "rename", "delete", "find", "look", "retime", "switch",
          "insert"}

\* One coroutine waiting for the lock, with the locals it will use.
Requests ==
    [op : Ops, edit : Edits \cup Buttons \cup {"none"},
     name : Names, new : Names,          \* the schedule, and a second name
     job : Jobs \cup {0},                \* the id read by an earlier section
     at : Times \cup {Null},             \* now_dt, or the new next_run_at
     repeats : BOOLEAN,
     on : BOOLEAN]                       \* enabled, to be written

VARIABLES
    clock,
    jobs,     \* scheduled_jobs: ids present -> definition
    created,  \* ids given out
    seen,     \* schedule_occurrences
    runs,     \* schedule_runs, by name of the mirrored schedules row
    tasks,    \* agent_tasks with a schedule_job_id
    queue,    \* the line at the store's lock
    crashes

vars == <<clock, jobs, created, seen, runs, tasks, queue, crashes>>

Named(n)      == {j \in DOMAIN jobs : jobs[j].name = n}
Promoting     == \E k \in DOMAIN queue : queue[k].op = "promote"
OwnerBusy     == \E k \in DOMAIN queue : queue[k].op # "promote"
\* Fault: a row waiting for its retry does not count as open.
HasTaskInLine(j) == \E t \in Times \cup {Null} : tasks[<<j, t>>] = "open"

HasOpenTask(j) == \E t \in Times \cup {Null} : tasks[<<j, t>>] \in OpenStatuses

Init ==
    /\ clock = 1
    /\ jobs = <<>>
    /\ created = 0
    /\ seen = {}
    /\ runs = {}
    /\ tasks = [k \in TaskKeys |-> "absent"]
    /\ queue = <<>>
    /\ crashes = 0

-----------------------------------------------------------------------------
(* Callers join the line.                                                  *)

Join(request) == queue' = Append(queue, request)

Blank == [op |-> "look", edit |-> "none", name |-> CHOOSE n \in Names : TRUE,
          new |-> CHOOSE n \in Names : TRUE, job |-> 0, at |-> Null,
          repeats |-> FALSE, on |-> FALSE]

\* A worker calls promote_due (at most one at a time, _promote_lock).
AskPromotion ==
    /\ ~Promoting
    /\ Join([Blank EXCEPT !.op = "promote", !.at = clock])
    /\ UNCHANGED <<clock, jobs, created, seen, runs, tasks, crashes>>

\* create_once, create_recurring: a time in the past is refused beforehand.
Acceptable(at, r) == at > clock /\ (r => at = clock + Period)

\* /schedule, /repeat.
AskCreate(n, at, r) ==
    /\ ~OwnerBusy
    /\ Acceptable(at, r)
    /\ Join([Blank EXCEPT !.op = "create", !.name = n, !.at = at, !.repeats = r])
    /\ UNCHANGED <<clock, jobs, created, seen, runs, tasks, crashes>>

AskRename(n, new) ==
    /\ ~OwnerBusy
    /\ Join([Blank EXCEPT !.op = "rename", !.name = n, !.new = new])
    /\ UNCHANGED <<clock, jobs, created, seen, runs, tasks, crashes>>

AskDelete(n) ==
    /\ ~OwnerBusy
    /\ Join([Blank EXCEPT !.op = "delete", !.name = n])
    /\ UNCHANGED <<clock, jobs, created, seen, runs, tasks, crashes>>

\* /schedrun, of which the model keeps one execution per schedule at a time.
Free(edit, j) == edit = "run" => tasks[<<j, Null>>] = "absent"

\* Every other command first reads the schedule by its name.
AskEdit(n, edit, new, at) ==
    /\ ~OwnerBusy
    /\ edit \in Commands
    /\ edit = "duplicate" \/ new = n
    /\ IF edit = "time" THEN at \in Times ELSE at = Null
    /\ \A j \in Named(n) : Free(edit, j)
    /\ Join([Blank EXCEPT !.op = "look", !.edit = edit, !.name = n, !.new = new, !.at = at])
    /\ UNCHANGED <<clock, jobs, created, seen, runs, tasks, crashes>>

\* A button carries the id of the schedule its card was drawn from, which may be
\* gone or have another name by now.
AskButton(j, edit) ==
    /\ ~OwnerBusy
    /\ j <= created
    /\ edit \in Commands \cup {"delete"} /\ Free(edit, j)
    /\ Join([Blank EXCEPT !.op = "find", !.edit = edit, !.job = j])
    /\ UNCHANGED <<clock, jobs, created, seen, runs, tasks, crashes>>

-----------------------------------------------------------------------------
(* The one at the head of the line is served.                              *)

Serving(op) == queue # <<>> /\ Head(queue).op = op
Asked       == Head(queue)
Leave       == queue' = Tail(queue)

\* Fault: a passed time is kept.
SoonIfUnset(at, wait) == IF at = Null THEN clock + wait ELSE at

SoonIfPast(at, wait) == IF at = Null \/ at <= clock THEN clock + wait ELSE at

\* What the coroutine works out from the row it has read, and asks for next;
\* Blank when it refuses (ValueError).
Retime(q, at, r) ==
    IF at <= clock THEN Blank
    ELSE [Blank EXCEPT !.op = "retime", !.name = q.name, !.at = at, !.repeats = r]

Switch(j, at, on) == [Blank EXCEPT !.op = "switch", !.job = j, !.at = at, !.on = on]

AfterLook(q, j) ==
    LET d == jobs[j]
    IN CASE q.edit = "time"      -> Retime(q, q.at, d.repeats)
         [] q.edit = "interval"  -> Retime(q, clock + Period, TRUE)
         [] q.edit = "once"      -> Retime(q, SoonIfPast(d.next, 1), FALSE)
         [] q.edit = "timezone"  ->
              Retime(q, IF d.next = Null THEN clock + 1 ELSE d.next, d.repeats)
         [] q.edit = "pause"     -> Switch(j, d.next, FALSE)
         [] q.edit = "resume"    ->
              Switch(j, SoonIfPast(d.next, IF d.repeats THEN Period ELSE 1), TRUE)
         [] q.edit = "run"       -> [Blank EXCEPT !.op = "insert", !.job = j]
         [] q.edit = "duplicate" ->
              LET at == IF d.next = Null THEN clock + 1 ELSE d.next
              IN IF at <= clock THEN Blank
                 ELSE [Blank EXCEPT !.op = "create", !.name = q.new, !.at = at, !.repeats = d.repeats]

\* The section that reads; the caller goes on without giving way and joins the
\* line again, behind whoever came meanwhile.
Look ==
    /\ Serving("look")
    /\ IF Named(Asked.name) = {} THEN Leave
       ELSE LET next == AfterLook(Asked, CHOOSE j \in Named(Asked.name) : TRUE)
            IN queue' = IF next = Blank THEN Tail(queue) ELSE Append(Tail(queue), next)
    /\ UNCHANGED <<clock, jobs, created, seen, runs, tasks, crashes>>

\* The names a copy may get; when the model's are used up its insert is refused.
CopyNames(d) ==
    LET unused == {n \in Names : Named(n) = {}} IN IF unused = {} THEN {d.name} ELSE unused

\* The handler of a button lists the schedules and goes on by the name the one with
\* its id has now, as the command of that name does.
Find ==
    /\ Serving("find")
    /\ IF Asked.job \notin DOMAIN jobs THEN Leave
       ELSE LET d  == jobs[Asked.job]
                op == IF Asked.edit = "delete" THEN "delete" ELSE "look"
            IN \E new \in IF Asked.edit = "duplicate" THEN CopyNames(d) ELSE {d.name} :
                  queue' = Append(Tail(queue), [Blank EXCEPT !.op = op, !.edit = Asked.edit,
                                                             !.name = d.name, !.new = new])
    /\ UNCHANGED <<clock, jobs, created, seen, runs, tasks, crashes>>

\* INSERT, refused when the name is taken.
Create ==
    /\ Serving("create")
    /\ IF Named(Asked.name) # {} \/ created = MaxJobs
         THEN UNCHANGED <<jobs, created>>
         ELSE /\ created' = created + 1
              /\ jobs' = [j \in DOMAIN jobs \cup {created + 1} |->
                            IF j = created + 1
                              THEN [name |-> Asked.name, enabled |-> TRUE, next |-> Asked.at,
                                    repeats |-> Asked.repeats]
                              ELSE jobs[j]]
    /\ Leave
    /\ UNCHANGED <<clock, seen, runs, tasks, crashes>>

Rename ==
    /\ Serving("rename")
    /\ jobs' = IF Named(Asked.new) \subseteq Named(Asked.name)
                 THEN [j \in DOMAIN jobs |->
                         IF j \in Named(Asked.name) THEN [jobs[j] EXCEPT !.name = Asked.new]
                                                    ELSE jobs[j]]
                 ELSE jobs
    /\ Leave
    /\ UNCHANGED <<clock, created, seen, runs, tasks, crashes>>

\* Occurrences, history and task rows of a deleted schedule stay.
Delete ==
    /\ Serving("delete")
    /\ jobs' = [j \in DOMAIN jobs \ Named(Asked.name) |-> jobs[j]]
    /\ Leave
    /\ UNCHANGED <<clock, created, seen, runs, tasks, crashes>>

\* update_scheduled_job_timing leaves `enabled` alone.
WriteTiming ==
    /\ Serving("retime")
    /\ jobs' = [j \in DOMAIN jobs |->
                  IF j \in Named(Asked.name)
                    THEN [jobs[j] EXCEPT !.next = Asked.at, !.repeats = Asked.repeats]
                    ELSE jobs[j]]
    /\ Leave
    /\ UNCHANGED <<clock, created, seen, runs, tasks, crashes>>

\* The second half of set_scheduled_job_enabled.
WriteEnabled ==
    /\ Serving("switch")
    /\ jobs' = [j \in DOMAIN jobs |->
                  IF j = Asked.job THEN [jobs[j] EXCEPT !.enabled = Asked.on, !.next = Asked.at]
                                   ELSE jobs[j]]
    /\ Leave
    /\ UNCHANGED <<clock, created, seen, runs, tasks, crashes>>

\* The second half of enqueue_scheduled_job_now.
InsertNow ==
    /\ Serving("insert")
    /\ tasks' = [tasks EXCEPT ![<<Asked.job, Null>>] = "open"]
    /\ Leave
    /\ UNCHANGED <<clock, jobs, created, seen, runs, crashes>>

\* promote_due skips, for ever, an occurrence it finds recorded.
Due(now) ==
    {j \in DOMAIN jobs :
        /\ jobs[j].enabled /\ jobs[j].next # Null /\ jobs[j].next <= now
        /\ <<j, jobs[j].next>> \notin seen}

NextAfter(t, now) ==
    CHOOSE u \in Times :
        /\ u > now /\ u - Period <= now
        /\ \E k \in 1..(MaxClock + 1) : u = t + k * Period

\* Fault: a skipped schedule stays where it is.
AdvancedUnlessSkipped(j, now) ==
    CASE HasOpenTask(j)  -> jobs[j]
      [] jobs[j].repeats -> [jobs[j] EXCEPT !.next = NextAfter(jobs[j].next, now)]
      [] OTHER           -> [jobs[j] EXCEPT !.enabled = FALSE, !.next = Null]

Advanced(j, now) ==
    IF jobs[j].repeats
      THEN [jobs[j] EXCEPT !.next = NextAfter(jobs[j].next, now)]
      ELSE [jobs[j] EXCEPT !.enabled = FALSE, !.next = Null]

\* History of an occurrence goes under the schedule's present name, once
\* (INSERT OR IGNORE), whether it ran or was skipped for an open task.
Runs(j) == {[name |-> jobs[j].name, at |-> jobs[j].next, job |-> j]}
Unrecorded(r) == ~\E old \in runs : old.name = r.name /\ old.at = r.at

PromoteDue ==
    /\ Serving("promote")
    /\ LET now     == Asked.at
           handled == Due(now)
       IN /\ tasks' = [k \in TaskKeys |->
                          IF k[1] \in handled /\ k[2] = jobs[k[1]].next /\ ~HasOpenTask(k[1])
                            THEN "open" ELSE tasks[k]]
          /\ seen' = seen \cup {<<j, jobs[j].next>> : j \in handled}
          /\ runs' = runs \cup {r \in UNION {Runs(j) : j \in handled} : Unrecorded(r)}
          /\ jobs' = [j \in DOMAIN jobs |-> IF j \in handled THEN Advanced(j, now) ELSE jobs[j]]
    /\ Leave
    /\ UNCHANGED <<clock, created, crashes>>

Serve ==
    \/ Find \/ Look \/ Create \/ Rename \/ Delete \/ WriteTiming \/ WriteEnabled
    \/ InsertNow \/ PromoteDue

-----------------------------------------------------------------------------
(* The task rows, whose life TaskPool describes, and the environment.      *)

TaskMoves(k, from, to) ==
    /\ tasks[k] \in from
    /\ tasks' = [tasks EXCEPT ![k] = to]
    /\ UNCHANGED <<clock, jobs, created, seen, runs, queue, crashes>>

TaskRuns(k) ==
    \/ TaskMoves(k, {"open"}, "retrying")
    \/ TaskMoves(k, {"retrying"}, "open")
    \/ TaskMoves(k, {"open"}, "final")

\* retry_failed, and the deletion of a row, by the owner.
RetryTask(k)  == TaskMoves(k, {"final"}, "open")
DeleteTask(k) == TaskMoves(k, {"open", "retrying", "final"}, "absent")

Tick ==
    /\ clock < MaxClock
    /\ clock' = clock + 1
    /\ UNCHANGED <<jobs, created, seen, runs, tasks, queue, crashes>>

\* The line at the lock dies with the process; what was committed stays.
Restart ==
    /\ crashes < MaxCrashes /\ queue # <<>>
    /\ crashes' = crashes + 1
    /\ queue' = <<>>
    /\ UNCHANGED <<clock, jobs, created, seen, runs, tasks>>

OwnerAsks ==
    \/ \E n \in Names, at \in Times, r \in BOOLEAN : AskCreate(n, at, r)
    \/ \E n, new \in Names : AskRename(n, new)
    \/ \E n \in Names : AskDelete(n)
    \/ \E n, new \in Names, edit \in Edits, at \in Times \cup {Null} : AskEdit(n, edit, new, at)
    \/ \E j \in Jobs, edit \in Buttons : AskButton(j, edit)

Next ==
    \/ OwnerAsks \/ AskPromotion \/ Serve
    \/ \E k \in TaskKeys : TaskRuns(k) \/ RetryTask(k) \/ DeleteTask(k)
    \/ Tick \/ Restart

Spec == Init /\ [][Next]_vars

\* Time passes, the workers' loop calls promote_due, and the lock serves whoever
\* waits at its head.
FairSpec == Spec /\ WF_vars(Tick) /\ WF_vars(AskPromotion) /\ WF_vars(Serve)
-----------------------------------------------------------------------------
(* Properties.                                                             *)

\* The columns hold what they can hold; ids present were given out, and the
\* UNIQUE(owner_id, name) constraint holds.
TypeOK ==
    /\ clock \in 1..MaxClock
    /\ created \in 0..MaxJobs
    /\ DOMAIN jobs \subseteq 1..created
    /\ \A j \in DOMAIN jobs : jobs[j] \in Definitions /\ Named(jobs[j].name) = {j}
    /\ seen \subseteq (1..created) \X Times
    /\ runs \subseteq [name : Names, at : Times, job : 1..created]
    /\ tasks \in [TaskKeys -> TaskStatuses]
    /\ \A k \in DOMAIN queue : queue[k] \in Requests
    /\ crashes \in 0..MaxCrashes

\* Every occurrence taken, also a skipped one, has a history row of its own: no
\* two occurrences meet in one row, whatever was renamed, deleted or resumed.
OccurrenceRecorded ==
    \A o \in seen : \E r \in runs : r.job = o[1] /\ r.at = o[2]

Overlapping(j) ==
    \E t, u \in Times \cup {Null} :
        t # u /\ tasks[<<j, t>>] \in OpenStatuses /\ tasks[<<j, u>>] \in OpenStatuses

\* Executions of a schedule overlap only when the owner runs it at once or
\* retries an old one, never by promote_due, also while one waits for a retry.
OverlapOnlyByOwner ==
    [][\A j \in Jobs :
          Overlapping(j)' /\ ~Overlapping(j)
              => Serving("insert") \/ \E k \in TaskKeys : RetryTask(k)]_vars

\* Every schedule that comes due moves on: it runs, is skipped for an execution
\* still open, or the owner changes it.
DueMovesOn ==
    \A j \in Jobs, t \in 1..MaxClock :
        LET pending == j \in DOMAIN jobs /\ jobs[j].enabled /\ jobs[j].next = t
        IN pending ~> ~pending
=============================================================================
