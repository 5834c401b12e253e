------------------------------ MODULE TaskPool ------------------------------
(***************************************************************************)
(* The durable task queue (task_queue.py) and the bounded worker pool that *)
(* drains it (task_service_v3.py), with the store calls the executor makes *)
(* (bridge/services/task_execution_service.py) and the owner's queue       *)
(* operations (bridge/services/task_service.py).                           *)
(*                                                                         *)
(* One action is one section under the store's transaction lock.  A store  *)
(* method that reads a row in one section and writes it in another         *)
(* (finish, retry_or_dead_letter) is two actions.  Timestamps are kept as  *)
(* the number of ticks still to run: 0 is a timestamp in the past.         *)
(***************************************************************************)
EXTENDS Integers, FiniteSets

CONSTANTS
    MaxTasks,        \* rows ever inserted; ids are AUTOINCREMENT, never reused
    Workers,         \* the worker coroutines of one process
    Owners,          \* chat owners
    OwnerOf,         \* [Tasks -> Owners]
    KindOf,          \* [Tasks -> Kinds]
    Asked,           \* [Tasks -> SUBSET {"direct", "daily"}] dispatch flags
    MaxActive,       \* claim_next's bound on leased and running rows
    LeaseTicks,      \* length of a lease
    MaxDelay,        \* longest retry delay, and the recurrence period
    MaxFailures,     \* transient failures after which a task is given up
    PriorityBound,   \* change_priority clamps to -PriorityBound..PriorityBound
    MaxCrashes,      \* bound on process crashes
    MaxLost          \* bound on the rows lost to a worker between two restarts

Tasks == 1..MaxTasks

\* "plain": a one-off prompt; "job": inserted for a scheduled job
\* (schedule_job_id); "recurring": a legacy row with repeat_seconds.
Kinds == {"plain", "job", "recurring"}

Flags == {"direct", "daily", "session"}

ASSUME SizeAssumption ==
    /\ MaxTasks \in Nat \ {0}
    /\ IsFiniteSet(Workers)
    /\ MaxActive \in Nat \ {0}
    /\ LeaseTicks \in Nat \ {0}
    /\ MaxDelay \in Nat \ {0}
    /\ MaxFailures \in Nat \ {0}
    /\ PriorityBound \in Nat
    /\ MaxCrashes \in Nat
    /\ MaxLost \in Nat

ASSUME RowAssumption ==
    /\ OwnerOf \in [Tasks -> Owners]
    /\ KindOf \in [Tasks -> Kinds]
    /\ Asked \in [Tasks -> SUBSET {"direct", "daily"}]
    \* only enqueue_prompt asks for flags
    /\ \A i \in Tasks : Asked[i] # {} => KindOf[i] = "plain"

-----------------------------------------------------------------------------
VARIABLES
    next,     \* the id the next INSERT gets
    row,      \* the agent_tasks table
    unsaved,  \* tasks whose enqueue_prompt has not saved their flags yet
    worker,   \* the worker coroutines, each with its execute call
    crashes,
    lost      \* history: rows that a worker lost its hold of since the last start

\* The state of the program; lost only remembers what the properties excuse.
core == <<next, row, unsaved, worker, crashes>>
vars == <<next, row, unsaved, worker, crashes, lost>>

Active   == {"leased", "running"}
Waiting  == {"queued", "retrying"}
Open     == Active \cup Waiting
Recorded == {"completed", "failed", "dead_letter", "cancelled"}
Statuses == Open \cup Recorded \cup {"absent", "scheduled"}

\* flags and failures are checkpoint_json: the dispatch flags, whether the
\* session is known, transient_failures.
Rows == [status    : Statuses,
         lease     : 0..LeaseTicks,   \* ticks until lease_expires_at
         notBefore : 0..MaxDelay,     \* ticks until next_attempt_at
         due       : 0..MaxDelay,     \* ticks until due_at of a recurring row
         priority  : Int,
         flags     : SUBSET Flags,
         failures  : 0..MaxFailures]

NoRow == [status |-> "absent", lease |-> 0, notBefore |-> 0, due |-> 0,
          priority |-> 0, flags |-> {}, failures |-> 0]

PCs == {"idle", "claimed", "starting", "working", "finish", "finishing",
        "defer", "deferring", "finalizing", "tail"}

\* Where in execute (or _execute, for "epilogue") a store call is made.
Sites == {"none", "turn", "daily", "quota", "provider", "handler", "epilogue"}

\* flags and failures are execute's own copy of the checkpoint; site, ok, retry
\* and keep belong to the store call it is in.
WorkerStates ==
    [pc : PCs, task : Tasks, beats : BOOLEAN,
     flags : SUBSET Flags, failures : 0..MaxFailures,
     site : Sites, ok : BOOLEAN, retry : BOOLEAN, keep : BOOLEAN]

Idle == [pc |-> "idle", task |-> 1, beats |-> FALSE, flags |-> {}, failures |-> 0,
         site |-> "none", ok |-> FALSE, retry |-> FALSE, keep |-> FALSE]

Status(i)       == row[i].status
SameOwner(i, j) == OwnerOf[i] = OwnerOf[j]

\* keeps_record
KeepsRecord(i) == KindOf[i] # "plain" \/ "daily" \in row[i].flags

\* get returned nothing or a cancelled row; should_continue is false.
Withdrawn(i) == Status(i) \in {"absent", "cancelled"}

ActiveRows == {i \in Tasks : Status(i) \in Active}

Init ==
    /\ next = 1
    /\ row = [i \in Tasks |-> NoRow]
    /\ unsaved = {}
    /\ worker = [w \in Workers |-> Idle]
    /\ crashes = 0
    /\ lost = {}

-----------------------------------------------------------------------------
(* Intake and the owner's queue operations.                                *)

\* enqueue, enqueue_once on a fresh key, promote_due's INSERT and schedule.
Enqueue(i) ==
    /\ i = next
    /\ next' = next + 1
    /\ row' = [row EXCEPT ![i] =
                 IF KindOf[i] = "recurring"
                   THEN [NoRow EXCEPT !.status = "scheduled", !.due = MaxDelay]
                   ELSE [NoRow EXCEPT !.status = "queued"]]
    /\ unsaved' = IF Asked[i] = {} THEN unsaved ELSE unsaved \cup {i}
    /\ UNCHANGED <<worker, crashes>>

\* The second half of enqueue_prompt: the checkpoint is overwritten with the
\* flags merged into the snapshot enqueue returned, which was empty.
SaveDispatchFlags(i) ==
    /\ i \in unsaved
    /\ unsaved' = unsaved \ {i}
    /\ row' = IF Status(i) \in Open
                THEN [row EXCEPT ![i].flags = Asked[i], ![i].failures = 0]
                ELSE row
    /\ UNCHANGED <<next, worker, crashes>>

Cancel(i) ==
    /\ Status(i) \in Open \cup {"scheduled"}
    /\ row' = [row EXCEPT ![i] = IF KeepsRecord(i)
                                   THEN [@ EXCEPT !.status = "cancelled"]
                                   ELSE NoRow]
    /\ UNCHANGED <<next, unsaved, worker, crashes>>

DeleteWaiting(o) ==
    /\ \E i \in Tasks : OwnerOf[i] = o /\ Status(i) \in Waiting
    /\ row' = [i \in Tasks |-> IF OwnerOf[i] = o /\ Status(i) \in Waiting
                                 THEN NoRow ELSE row[i]]
    /\ UNCHANGED <<next, unsaved, worker, crashes>>

\* Of the terminal statuses the DELETE lists all but dead_letter.
DeleteUserTask(i) ==
    /\ Status(i) \in Waiting \cup {"scheduled", "cancelled", "completed", "failed"}
    /\ row' = [row EXCEPT ![i] = NoRow]
    /\ UNCHANGED <<next, unsaved, worker, crashes>>

Clamp(p) == IF p > PriorityBound THEN PriorityBound
            ELSE IF p < -PriorityBound THEN -PriorityBound ELSE p

ChangePriority(i, delta) ==
    /\ Status(i) \in Waiting
    /\ row' = [row EXCEPT ![i].priority = Clamp(@ + delta)]
    /\ UNCHANGED <<next, unsaved, worker, crashes>>

\* The order of the claim query: priority DESC, created_at, id.
Precedes(i, j) ==
    \/ row[i].priority > row[j].priority
    \/ row[i].priority = row[j].priority /\ i < j

WaitingOf(o) == {i \in Tasks : OwnerOf[i] = o /\ Status(i) \in Waiting}

\* Swap i with its neighbour j in the owner's waiting order, then renumber the
\* priorities of all waiting rows from the length of the list less one to 0.
MoveWaiting(i, j) ==
    LET mine    == WaitingOf(OwnerOf[i])
        rank(k) == Cardinality({m \in mine : Precedes(k, m)})
        moved(k) == CASE k = i -> rank(j) [] k = j -> rank(i) [] OTHER -> rank(k)
    IN /\ i \in mine /\ j \in mine
       /\ rank(i) - rank(j) \in {-1, 1}
       /\ row' = [k \in Tasks |-> IF k \in mine
                                    THEN [row[k] EXCEPT !.priority = moved(k)]
                                    ELSE row[k]]
       /\ UNCHANGED <<next, unsaved, worker, crashes>>

\* The checkpoint, with its count of transient failures, is left as it is.
RetryFailed(i) ==
    /\ Status(i) \in {"failed", "dead_letter"}
    /\ row' = [row EXCEPT ![i].status = "queued", ![i].notBefore = 0, ![i].lease = 0]
    /\ UNCHANGED <<next, unsaved, worker, crashes>>

\* The first UPDATE of promote_due, over legacy rows.
PromoteDue ==
    LET ripe == {i \in Tasks : Status(i) = "scheduled" /\ row[i].due = 0}
    IN /\ ripe # {}
       /\ row' = [i \in Tasks |-> IF i \in ripe THEN [row[i] EXCEPT !.status = "queued"]
                                                ELSE row[i]]
       /\ UNCHANGED <<next, unsaved, worker, crashes>>

-----------------------------------------------------------------------------
(* Claiming.                                                               *)

\* Fault: the lease comparison is off by one tick.
RequeuedEarly ==
    [i \in Tasks |-> IF Status(i) \in Active /\ row[i].lease <= 1
                       THEN [row[i] EXCEPT !.status = "queued"] ELSE row[i]]

\* claim_next first puts every row whose lease has run out back in the queue.
Requeued ==
    [i \in Tasks |-> IF Status(i) \in Active /\ row[i].lease = 0
                       THEN [row[i] EXCEPT !.status = "queued"] ELSE row[i]]

Full(table) == Cardinality({i \in Tasks : table[i].status \in Active}) >= MaxActive

\* Fault: the NOT EXISTS over the owner's leased and running rows is missing.
ClaimableBesideActive(i, table) ==
    /\ table[i].status \in Waiting
    /\ table[i].notBefore = 0
    /\ \A e \in Tasks : SameOwner(e, i) /\ e < i => table[e].status # "retrying"

\* Fault: earlier deferred rows do not block.
ClaimablePastDeferred(i, table) ==
    /\ table[i].status \in Waiting
    /\ table[i].notBefore = 0
    /\ \A r \in Tasks : SameOwner(r, i) => table[r].status \notin Active

\* Fault: a deferred row blocks itself.
ClaimableBlockedBySelf(i, table) ==
    /\ table[i].status \in Waiting
    /\ table[i].notBefore = 0
    /\ \A r \in Tasks : SameOwner(r, i) => table[r].status \notin Active
    /\ \A e \in Tasks : SameOwner(e, i) /\ e <= i => table[e].status # "retrying"

Claimable(i, table) ==
    /\ table[i].status \in Waiting
    /\ table[i].notBefore = 0
    /\ \A r \in Tasks : SameOwner(r, i) => table[r].status \notin Active
    /\ \A e \in Tasks : SameOwner(e, i) /\ e < i =>
                            table[e].status \notin Active \cup {"retrying"}

\* v has called finish or retry_or_dead_letter for row i and is still in the
\* executor's notifications and clean-up.
Settling(v, i) ==
    /\ worker[v].task = i
    /\ worker[v].pc \in {"finish", "finishing", "finalizing", "tail"}

\* The bound on lost rows (MaxLost) leaves room for i.
MayLose(i) == Cardinality(lost \cup {i}) <= MaxLost

ClaimNext(w, i) ==
    /\ worker[w].pc = "idle"
    /\ ~Full(Requeued)
    /\ Claimable(i, Requeued)
    /\ \A j \in Tasks \ {i} : Claimable(j, Requeued) => Precedes(i, j)
    /\ (\E v \in Workers : Settling(v, i)) => MayLose(i)
    /\ row' = [Requeued EXCEPT ![i].status = "leased", ![i].lease = LeaseTicks]
    /\ worker' = [worker EXCEPT ![w].pc = "claimed", ![w].task = i]
    /\ UNCHANGED <<next, unsaved, crashes>>

\* Nothing to claim, or the pool is full: the requeue is committed all the same.
ClaimNothing(w) ==
    /\ worker[w].pc = "idle"
    /\ Requeued # row
    /\ Full(Requeued) \/ \A i \in Tasks : ~Claimable(i, Requeued)
    /\ row' = Requeued
    /\ UNCHANGED <<next, unsaved, worker, crashes>>

\* Every worker claims as "legacy-worker", so lease_owner matches any of them.
\* The lock serves sections in arrival order and enqueue_prompt needs fewer of
\* them after its INSERT than a worker needs to get here, so its flags are in.
MarkRunning(w) ==
    LET i == worker[w].task
    IN /\ worker[w].pc = "claimed"
       /\ i \notin unsaved
       /\ IF Status(i) = "leased"
            THEN /\ row' = [row EXCEPT ![i].status = "running"]
                 /\ worker' = [worker EXCEPT ![w].pc = "starting", ![w].beats = TRUE]
            ELSE /\ worker' = [worker EXCEPT ![w] = Idle]
                 /\ UNCHANGED row
       /\ UNCHANGED <<next, unsaved, crashes>>

\* Any worker's beat renews the row, whichever worker runs it; a beat that
\* finds no leased or running row ends the coroutine.
Heartbeat(w) ==
    LET i == worker[w].task
    IN /\ worker[w].beats
       /\ IF Status(i) \in Active
            THEN /\ row' = [row EXCEPT ![i].lease = LeaseTicks]
                 /\ UNCHANGED worker
            ELSE /\ worker' = [worker EXCEPT ![w].beats = FALSE]
                 /\ UNCHANGED row
       /\ UNCHANGED <<next, unsaved, crashes>>

\* store.heartbeat raises: nothing catches it in the coroutine.
HeartbeatDies(w) ==
    /\ worker[w].beats
    /\ MayLose(worker[w].task)
    /\ worker' = [worker EXCEPT ![w].beats = FALSE]
    /\ UNCHANGED <<next, row, unsaved, crashes>>

-----------------------------------------------------------------------------
(* The executor.                                                           *)

Invoke(w, label, from, success, canRetry) ==
    worker' = [worker EXCEPT ![w].pc = label, ![w].site = from, ![w].ok = success,
                             ![w].retry = canRetry, ![w].keep = FALSE]

\* execute is past its store calls: only notifications and clean-up are left.
LeaveTurn(w) ==
    worker' = [worker EXCEPT ![w] = [Idle EXCEPT !.pc = "tail", !.task = worker[w].task,
                                                 !.beats = worker[w].beats]]

\* execute reads the row, copies its checkpoint, and saves it with the session
\* before anything is submitted.
Begin(w) ==
    LET i == worker[w].task
        known == row[i].flags \cup {"session"}
    IN /\ worker[w].pc = "starting"
       /\ ~Withdrawn(i)
       /\ worker' = [worker EXCEPT ![w].pc = "working", ![w].flags = known,
                                   ![w].failures = row[i].failures]
       /\ row' = IF Status(i) \in Open THEN [row EXCEPT ![i].flags = known] ELSE row
       /\ UNCHANGED <<next, unsaved, crashes>>

\* The row is gone or cancelled before the turn starts, the turn sees it while
\* polling, or delivery.begin raises before the executor's try block.
Abandon(w) ==
    /\ \/ worker[w].pc = "starting"
       \/ worker[w].pc = "working" /\ Withdrawn(worker[w].task)
    /\ LeaveTurn(w)
    /\ UNCHANGED <<next, row, unsaved, crashes>>

\* An attachment is refused before the session is known.
RefuseAttachment(w) ==
    /\ worker[w].pc = "starting"
    /\ ~Withdrawn(worker[w].task)
    /\ Invoke(w, "finish", "handler", FALSE, FALSE)
    /\ UNCHANGED <<next, row, unsaved, crashes>>

\* A stored Zen-free quota pause defers the task before it is submitted, once.
QuotaPaused(w) ==
    /\ worker[w].pc = "working" /\ worker[w].site = "none"
    /\ Invoke(w, "defer", "quota", FALSE, TRUE)
    /\ UNCHANGED <<next, row, unsaved, crashes>>

\* The agent answered, or answered nothing twice; a daily task whose answer
\* lacks the completion marker is deferred to the next day.
Reply(w) ==
    /\ worker[w].pc = "working"
    /\ ~Withdrawn(worker[w].task)
    /\ \/ \E success \in BOOLEAN : Invoke(w, "finish", "turn", success, FALSE)
       \/ "daily" \in worker[w].flags /\ Invoke(w, "defer", "daily", FALSE, TRUE)
    /\ UNCHANGED <<next, row, unsaved, crashes>>

\* The turn failed at the provider.  Quota failures are retried without limit
\* and reset the count; transient ones are retried below MaxFailures.
ProviderFails(w) ==
    /\ worker[w].pc = "working"
    /\ \E count \in {0, worker[w].failures + 1} :
         worker' = [worker EXCEPT
                      ![w].pc = "defer", ![w].site = "provider", ![w].ok = FALSE,
                      ![w].retry = (count < MaxFailures), ![w].keep = FALSE,
                      ![w].failures = IF count > MaxFailures THEN MaxFailures ELSE count]
    /\ UNCHANGED <<next, row, unsaved, crashes>>

\* The turn raised something that is not a provider failure.
TurnFails(w) ==
    /\ worker[w].pc = "working"
    /\ Invoke(w, "finish", "handler", FALSE, FALSE)
    /\ UNCHANGED <<next, row, unsaved, crashes>>

\* finish has returned.
Finished(w) ==
    worker' = [worker EXCEPT ![w] = IF @.site = "epilogue" THEN Idle
                                    ELSE [@ EXCEPT !.pc = "finalizing"]]

\* finish: the snapshot.
FinishRead(w) ==
    LET i == worker[w].task
    IN /\ worker[w].pc = "finish"
       /\ IF Withdrawn(i)
            THEN Finished(w)
            ELSE worker' = [worker EXCEPT ![w].pc = "finishing", ![w].keep = KeepsRecord(i)]
       /\ UNCHANGED <<next, row, unsaved, crashes>>

\* What finish writes: a recurring row goes back to the schedule, a kept row
\* records the outcome, and any other row is removed.
FinishedRow(i, success, keep) ==
    IF KindOf[i] = "recurring"
      THEN {[row[i] EXCEPT !.status = "scheduled", !.lease = 0, !.notBefore = 0,
                           !.flags = {}, !.failures = 0,
                           !.due = IF @ = 0 THEN d ELSE @] : d \in 1..MaxDelay}
      ELSE IF keep
      THEN {[row[i] EXCEPT !.status = IF success THEN "completed" ELSE "failed",
                           !.lease = 0, !.notBefore = 0]}
      ELSE {NoRow}

\* Fault: finish writes without looking at the status again.
FinishWriteBlind(w) ==
    /\ worker[w].pc = "finishing"
    /\ \E r \in FinishedRow(worker[w].task, worker[w].ok, worker[w].keep) :
         row' = [row EXCEPT ![worker[w].task] = r]
    /\ Finished(w)
    /\ UNCHANGED <<next, unsaved, crashes>>

\* finish: the write, decided by the snapshot and applied to any row that is
\* not cancelled by now, whoever holds its lease.
FinishWrite(w) ==
    LET i == worker[w].task
    IN /\ worker[w].pc = "finishing"
       /\ IF Withdrawn(i)
            THEN UNCHANGED row
            ELSE \E r \in FinishedRow(i, worker[w].ok, worker[w].keep) :
                   row' = [row EXCEPT ![i] = r]
       /\ Finished(w)
       /\ UNCHANGED <<next, unsaved, crashes>>

\* What execute does when retry_or_dead_letter did not return a retrying row:
\* a quota pause falls through to the turn, a daily deferral to finish(success),
\* a provider failure to finish(failure).
NotDeferred(w) ==
    CASE worker[w].site = "quota"    -> worker' = [worker EXCEPT ![w].pc = "working"]
      [] worker[w].site = "daily"    -> Invoke(w, "finish", "turn", TRUE, FALSE)
      [] worker[w].site = "provider" -> Invoke(w, "finish", "handler", FALSE, FALSE)

\* retry_or_dead_letter: the snapshot.
DeferRead(w) ==
    LET i == worker[w].task
    IN /\ worker[w].pc = "defer"
       /\ IF Withdrawn(i)
            THEN NotDeferred(w)
            ELSE worker' = [worker EXCEPT ![w].pc = "deferring", ![w].keep = KeepsRecord(i)]
       /\ UNCHANGED <<next, row, unsaved, crashes>>

\* What retry_or_dead_letter writes for worker w.
DeferredRow(w) ==
    LET i == worker[w].task
        saved == [row[i] EXCEPT !.lease = 0, !.flags = worker[w].flags,
                                !.failures = worker[w].failures]
    IN IF worker[w].retry
         THEN {[saved EXCEPT !.status = "retrying", !.notBefore = d] : d \in 1..MaxDelay}
         ELSE IF worker[w].keep
         THEN {[saved EXCEPT !.status = "dead_letter", !.notBefore = 0]}
         ELSE {NoRow}

\* retry_or_dead_letter: the write, and the row it returns.
DeferWrite(w) ==
    LET i == worker[w].task
    IN /\ worker[w].pc = "deferring"
       /\ IF Status(i) \in Open
            THEN \E r \in DeferredRow(w) : row' = [row EXCEPT ![i] = r]
            ELSE UNCHANGED row
       /\ IF row'[i].status # "retrying" THEN NotDeferred(w)
          ELSE IF worker[w].site = "daily"
          THEN worker' = [worker EXCEPT ![w].pc = "finalizing"]
          ELSE LeaveTurn(w)
       /\ UNCHANGED <<next, unsaved, crashes>>

\* The final message is out, or the row was found cancelled.
Finalize(w) ==
    /\ worker[w].pc = "finalizing"
    /\ LeaveTurn(w)
    /\ UNCHANGED <<next, row, unsaved, crashes>>

\* finalize_text raises (its activity write fails).  Inside the try block the
\* generic handler then fails the task unless it is cancelled; inside a handler
\* the error leaves execute.
FinalizeRaises(w) ==
    /\ worker[w].pc = "finalizing"
    /\ IF worker[w].site = "handler" \/ Status(worker[w].task) = "cancelled"
         THEN LeaveTurn(w)
         ELSE Invoke(w, "finish", "handler", FALSE, FALSE)
    /\ UNCHANGED <<next, row, unsaved, crashes>>

\* Fault: a row left running by the executor is not finished.
EpilogueWithoutFinish(w) ==
    /\ worker[w].pc = "tail"
    /\ worker' = [worker EXCEPT ![w] = Idle]
    /\ UNCHANGED <<next, row, unsaved, crashes>>

\* The end of _execute: a row that is still running is finished, as a success
\* when execute returned and as a failure when it raised.
Epilogue(w) ==
    /\ worker[w].pc = "tail"
    /\ IF Status(worker[w].task) = "running"
         THEN \E success \in BOOLEAN : Invoke(w, "finish", "epilogue", success, FALSE)
         ELSE worker' = [worker EXCEPT ![w] = Idle]
    /\ UNCHANGED <<next, row, unsaved, crashes>>

-----------------------------------------------------------------------------
(* Time, crashes, restarts.                                                *)

Less(t) == IF t = 0 THEN 0 ELSE t - 1

\* A live heartbeat (every 30 s) renews a lease (120 s) before it runs out, and
\* a worker marks what it has just claimed well within the lease.
Tick ==
    /\ \A w \in Workers :
         /\ worker[w].pc = "claimed" \/ worker[w].beats
         /\ Status(worker[w].task) \in Active
         => row[worker[w].task].lease > 1
    /\ row' = [i \in Tasks |-> [row[i] EXCEPT !.lease = Less(@), !.due = Less(@),
                                              !.notBefore = Less(@)]]
    /\ row' # row
    /\ UNCHANGED <<next, unsaved, worker, crashes>>

\* Fault: recovery removes every row it failed, also those to be recorded.
RecoveredUnrecorded(i) ==
    IF Status(i) \notin Active THEN row[i]
    ELSE IF Status(i) = "leased" \/ row[i].flags # {}
    THEN [row[i] EXCEPT !.status = "queued", !.lease = 0]
    ELSE NoRow

\* recover_interrupted: work with a checkpoint, or not started yet, is queued
\* again; the rest fails, and a failed one-off row is removed.
Recovered(i) ==
    IF Status(i) \notin Active THEN row[i]
    ELSE IF Status(i) = "leased" \/ row[i].flags # {}
    THEN [row[i] EXCEPT !.status = "queued", !.lease = 0]
    ELSE IF KindOf[i] = "plain" THEN NoRow
    ELSE [row[i] EXCEPT !.status = "failed", !.lease = 0]

\* The process dies, or stop() cancels the workers where they are, and it starts
\* again; start() runs recover_interrupted before any worker claims.
CrashRestart ==
    /\ crashes < MaxCrashes
    /\ crashes' = crashes + 1
    /\ unsaved' = {}
    /\ worker' = [w \in Workers |-> Idle]
    /\ row' = [i \in Tasks |-> Recovered(i)]
    /\ UNCHANGED next

\* The bound on rows is reached and nothing is left to do: the pool polls on.
Drained ==
    /\ next = MaxTasks + 1
    /\ unsaved = {}
    /\ \A i \in Tasks : Status(i) \notin Open \cup {"scheduled"}
    /\ \A w \in Workers : worker[w] = Idle
    /\ UNCHANGED core

-----------------------------------------------------------------------------
Intake == \E i \in Tasks : Enqueue(i) \/ SaveDispatchFlags(i)

\* /queue: clear, remove, up and down.  What it shows of the queue beforehand may be
\* old when it acts; the operation decides by the row it finds.
QueueCommand ==
    \/ \E o \in Owners : DeleteWaiting(o)
    \/ \E i \in Tasks : DeleteUserTask(i)
    \/ \E i \in Tasks : \E delta \in {-1, 1} : ChangePriority(i, delta)

OwnerActs ==
    \/ \E i \in Tasks : Cancel(i) \/ RetryFailed(i)
    \/ QueueCommand
    \/ \E i, j \in Tasks : MoveWaiting(i, j)

Claim(w) == (\E i \in Tasks : ClaimNext(w, i)) \/ ClaimNothing(w)

\* The two ways a worker loses its hold of a row: its heartbeat dies, and the
\* row, put back in the queue, is claimed before its last executor is out of it.
Loses(w) ==
    \/ /\ HeartbeatDies(w)
       /\ lost' = lost \cup {worker[w].task}
    \/ \E i \in Tasks :
         /\ ClaimNext(w, i)
         /\ \E v \in Workers : Settling(v, i)
         /\ lost' = lost \cup {i}

\* A claim of a row that nobody is in the way out of.
Takes(w) ==
    \/ \E i \in Tasks : ClaimNext(w, i) /\ \A v \in Workers : ~Settling(v, i)
    \/ ClaimNothing(w)

Execute(w) ==
    \/ MarkRunning(w) \/ Begin(w) \/ Abandon(w) \/ RefuseAttachment(w)
    \/ QuotaPaused(w) \/ Reply(w) \/ ProviderFails(w) \/ TurnFails(w)
    \/ FinishRead(w) \/ FinishWrite(w) \/ DeferRead(w) \/ DeferWrite(w)
    \/ Finalize(w) \/ FinalizeRaises(w) \/ Epilogue(w)

Next ==
    \/ /\ \/ Intake \/ OwnerActs \/ PromoteDue
          \/ \E w \in Workers : Takes(w) \/ Execute(w) \/ Heartbeat(w)
          \/ Tick \/ Drained
       /\ UNCHANGED lost
    \/ \E w \in Workers : Loses(w)
    \/ CrashRestart /\ lost' = {}

Spec == Init /\ [][Next]_vars

\* What the event loop guarantees: a worker below the admission limit polls at
\* least every poll_seconds, a started section ends, a heartbeat beats, time
\* passes.  That a turn ends is an assumption on the agent: the executor polls
\* it until it replies, fails or goes idle.
TurnEnds(w) == Reply(w) \/ ProviderFails(w) \/ TurnFails(w) \/ Abandon(w)

Fairness ==
    /\ WF_core(Tick)
    /\ \A i \in Tasks : WF_core(SaveDispatchFlags(i))
    /\ \A w \in Workers :
         /\ WF_core(Claim(w)) /\ WF_core(Heartbeat(w))
         /\ WF_core(MarkRunning(w)) /\ WF_core(Begin(w) \/ Abandon(w)) /\ WF_core(TurnEnds(w))
         /\ WF_core(FinishRead(w)) /\ WF_core(FinishWrite(w))
         /\ WF_core(DeferRead(w)) /\ WF_core(DeferWrite(w))
         /\ WF_core(Finalize(w)) /\ WF_core(Epilogue(w))

FairSpec == Spec /\ Fairness

-----------------------------------------------------------------------------
(* Properties.                                                             *)

\* Every variable holds what the columns, or the coroutines' locals, can hold.
TypeOK ==
    /\ next \in 1..(MaxTasks + 1)
    /\ row \in [Tasks -> Rows]
    /\ unsaved \subseteq Tasks
    /\ worker \in [Workers -> WorkerStates]
    /\ crashes \in 0..MaxCrashes
    /\ lost \subseteq Tasks

\* An owner never has two rows leased or running at once, across lease expiry,
\* requeueing, retries, priorities and restarts (claim_next's NOT EXISTS).
OneLeasePerOwner ==
    \A i, j \in ActiveRows : SameOwner(i, j) => i = j

\* The claim transaction never lets more rows be leased or running than
\* max_active, whatever leases a dead worker left behind.
WithinCapacity == Cardinality(ActiveRows) <= MaxActive

\* A deferred (retrying) row blocks the owner's later rows, also those of
\* higher priority: none of them is leased or running.  A worker that lost the
\* row may defer it late, beside a later row that was taken meanwhile.
DeferredBlocksLater ==
    \A i, j \in Tasks :
        /\ SameOwner(i, j) /\ i < j /\ i \notin lost
        /\ Status(i) = "retrying"
        => Status(j) \notin Active

\* The executor is between the row it took and the write of its outcome.
Executing(w) == worker[w].pc \in {"starting", "working", "defer", "deferring"}

\* While a worker executes a row that it did not lose, the row is running under
\* a live lease or the owner withdrew it: no other path requeues it, finishes it
\* or hands it to somebody else.
ExecutorHoldsRow ==
    \A w \in Workers : Executing(w) =>
        LET i == worker[w].task
        IN \/ i \in lost
           \/ Withdrawn(i)
           \/ Status(i) = "running" /\ row[i].lease > 0

\* Only a provider failure is deferred without a retry.
DeferSites ==
    \A w \in Workers : worker[w].pc \in {"defer", "deferring"} =>
        \/ worker[w].site \in {"quota", "daily"} /\ worker[w].retry
        \/ worker[w].site = "provider"

\* Two busy workers are only on the same row when it was lost.
DistinctWork ==
    \A v, w \in Workers :
        /\ v # w /\ worker[v].pc # "idle" /\ worker[w].pc # "idle"
        /\ worker[v].task = worker[w].task
        => worker[v].task \in lost

\* Unless it was lost, what w claimed stays leased, and what it executes stays
\* running under a lease it beats for, until the owner withdraws the row.
Held(w) ==
    LET i == worker[w].task
    IN /\ worker[w].pc = "claimed" /\ i \notin lost =>
              Withdrawn(i) \/ (Status(i) = "leased" /\ row[i].lease > 0)
       /\ Executing(w) /\ i \notin lost =>
              \/ Withdrawn(i)
              \/ Status(i) = "running" /\ row[i].lease > 0 /\ worker[w].beats

\* Workers hold ids that were inserted, and only those have rows.
FreshIds     == \A i \in Tasks : i >= next => Status(i) = "absent"
InsertedOnly ==
    FreshIds /\ \A w \in Workers : worker[w].pc # "idle" => worker[w].task < next

\* What every step keeps: a row changes hands under an executor only when its
\* heartbeat died or when it was claimed again before the executor was out of it.
ExecutorInv ==
    DistinctWork /\ (\A w \in Workers : Held(w)) /\ InsertedOnly /\ DeferSites

\* Two workers never execute the same row, unless one of them lost it.
NoDoubleExecution ==
    \A v, w \in Workers :
        /\ v # w /\ Executing(v) /\ Executing(w)
        /\ worker[v].task = worker[w].task
        => worker[v].task \in lost

\* The agent executes one task of an owner at a time.  A second one starts only
\* beside a turn whose row the owner cancelled or removed under its executor, or
\* that was lost: the heartbeat of a running turn died on a store error, or a row
\* was queued again while its last executor was still on its way out.
OneExecutionPerOwner ==
    \A v, w \in Workers :
        /\ v # w /\ worker[v].pc = "working" /\ worker[w].pc = "working"
        /\ SameOwner(worker[v].task, worker[w].task)
        => \E u \in {v, w} : Withdrawn(worker[u].task) \/ worker[u].task \in lost

\* A row the recording policy keeps (scheduled, recurring or daily work) leaves
\* the table only when the owner deletes it: neither the stale snapshot of
\* finish or retry_or_dead_letter nor recovery removes it.
RecordKept ==
    [][\A i \in Tasks :
          KeepsRecord(i) /\ Status(i) # "absent" /\ row'[i].status = "absent"
              => OwnerActs]_vars

\* A cancelled row stays cancelled until the owner deletes it: the executor that
\* is still running cannot finish, defer or requeue it.
CancelledIsFinal ==
    [][\A i \in Tasks :
          Status(i) = "cancelled" => row'[i].status \in {"cancelled", "absent"}]_vars

\* A leased or running row does not stay so for ever: its worker finishes it,
\* defers it or dies, also when the executor fails before its try block.  A row that
\* was lost may: heartbeats that die again and again hand it from worker to worker.
ActiveEnds ==
    \A i \in Tasks : Status(i) \in Active ~> Status(i) \notin Active \/ i \in lost

\* A waiting row that is its owner's only open row is taken in the end, also a
\* deferred one, and also when an earlier deferred row was cancelled.
LoneRowIsTaken ==
    \A i \in Tasks :
        Status(i) \in Waiting ~>
            \/ Status(i) \notin Waiting
            \/ \E j \in Tasks \ {i} : SameOwner(i, j) /\ Status(j) \in Open
=============================================================================
