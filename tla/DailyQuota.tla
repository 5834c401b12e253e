----------------------------- MODULE DailyQuota -----------------------------
(***************************************************************************)
(* Tasks of several owners, the free models' daily bucket, and time: what  *)
(* a refused prompt is taken for (retry_policy.py), the pause the first    *)
(* refusal records for all (task_queue.py), the look every execution has   *)
(* at it before it sends, and the days of a job that goes on until its     *)
(* agent says it is complete (task_execution_service.py,                   *)
(* daily_continuation.py).                                                 *)
(*                                                                         *)
(* Time is counted in half days; noon, when a pause ends, is odd.  Waits  *)
(* of a minute are none here.  A look, a refusal, the pause and the new    *)
(* time of the row are steps of their own, over any of which the bridge    *)
(* may stop.                                                               *)
(***************************************************************************)
EXTENDS Naturals, FiniteSets

CONSTANTS
    Tasks,      \* each of an owner of its own
    Daily,      \* those that go on day after day
    Paid,       \* those that may be asked of another model than a free one
    Slots,      \* executions at once
    Renewals,   \* when the provider renews the bucket: "noon" or "midnight"
    MaxTime, MaxFailures, MaxStops  \* bounds; MaxFailures is five in the code

VARIABLES
    time,
    spent,    \* the provider's bucket is empty
    pause,    \* provider_quota_pauses: reset_at, 0 without a row
    model,    \* of each task: "free", or "paid" (any other)
    stage, due, failures,  \* of each task
    reset,    \* of each task: the noon its refusal was said to last to, until it waits for it
    hasty,    \* ghost: daily tasks that ended on a line that hedged or went on
    refused,  \* ghost: free prompts refused since noon
    stops     \* ghost: restarts since noon, and all of them

rows == <<model, stage, due, failures, reset, hasty>>
vars == <<time, spent, pause, rows, refused, stops>>

NextNoon(t) == t + IF t % 2 = 1 THEN 2 ELSE 1
Later(a, b) == IF a < b THEN b ELSE a

\* The last line of an answer: whether it has the marker, and what follows it;
\* without the marker, what the line is.
Lines == [marker : BOOLEAN, after : {"none", "short", "phrase", "hedge", "long"}]

\* Waiting for its turn or for a retry; "resting" waits for the bucket or a new day.
Waiting  == {t \in Tasks : stage[t] \in {"waiting", "resting"}}
InFlight == {t \in Tasks \ Waiting : stage[t] \notin {"completed", "failed"}}

Init ==
    /\ time = 0 /\ spent = FALSE /\ pause = 0
    /\ model \in [Tasks -> {"free", "paid"}] /\ \A t \in Tasks \ Paid : model[t] = "free"
    /\ stage = [t \in Tasks |-> "waiting"] /\ due = [t \in Tasks |-> 0]
    /\ failures = [t \in Tasks |-> 0] /\ reset = [t \in Tasks |-> 0]
    /\ hasty = {} /\ refused = 0 /\ stops = [today |-> 0, all |-> 0]

Goes(t, to) == stage' = [stage EXCEPT ![t] = to]
\* A time that has come is none.
Waits(t, how, until) == Goes(t, how) /\ due' = [due EXCEPT ![t] = IF until <= time THEN 0 ELSE until]

-----------------------------------------------------------------------------
Claim(t) ==
    /\ t \in Waiting /\ due[t] = 0 /\ Cardinality(InFlight) < Slots
    /\ Waits(t, "claimed", 0)
    /\ UNCHANGED <<time, spent, pause, model, failures, reset, hasty, refused, stops>>

\* Fault: an expired record is not the only one that is passed over.
LookPast(t) ==
    /\ stage[t] = "claimed" /\ Goes(t, "sent")
    /\ UNCHANGED <<time, spent, pause, model, due, failures, reset, hasty, refused, stops>>

\* get_provider_quota_pause, asked for a free model only: it waits for the reset.
Look(t) ==
    /\ stage[t] = "claimed"
    /\ IF model[t] = "free" /\ pause > time
         THEN Waits(t, "resting", pause)
         ELSE Goes(t, "sent") /\ UNCHANGED due
    /\ UNCHANGED <<time, spent, pause, model, failures, reset, hasty, refused, stops>>

\* classify_retry: the bucket is empty until noon.  Any other model's 429 that names
\* that time is taken for the same.
Refuse(t) ==
    /\ stage[t] = "sent" /\ (model[t] = "free" => spent)
    /\ Goes(t, "limited") /\ reset' = [reset EXCEPT ![t] = NextNoon(time)]
    /\ refused' = IF model[t] = "free" THEN refused + 1 ELSE refused
    /\ UNCHANGED <<time, spent, pause, model, due, failures, hasty, stops>>

\* What is neither a quota nor a passing failure fails the task.
Permanent(t) ==
    /\ stage[t] = "sent" /\ Goes(t, "failed")
    /\ UNCHANGED <<time, spent, pause, model, due, failures, reset, hasty, refused, stops>>

\* The pause until then is recorded for all, never shortened, ...
RecordPause(t) ==
    /\ stage[t] = "limited" /\ pause' = Later(pause, reset[t]) /\ Goes(t, "paused")
    /\ UNCHANGED <<time, spent, model, due, failures, reset, hasty, refused, stops>>

\* ... and the row waits for it; a daily job for the noon that is next by now.
WaitForNoon(t) ==
    /\ stage[t] = "paused"
    /\ Waits(t, "resting", IF t \in Daily THEN NextNoon(time) ELSE reset[t])
    /\ failures' = [failures EXCEPT ![t] = 0] /\ reset' = [reset EXCEPT ![t] = 0]
    /\ UNCHANGED <<time, spent, pause, model, hasty, refused, stops>>

\* Another quota, for as long as the provider says, which a daily job does not heed.
\* So it is with a paid model that the provider does not have: it is replaced by a
\* free one that is never looked up, and a refusal is taken for the paid one's.
WaitForQuota(t, until) ==
    /\ stage[t] = "sent"
    /\ IF t \in Daily THEN Waits(t, "resting", NextNoon(time)) ELSE Waits(t, "waiting", until)
    /\ failures' = [failures EXCEPT ![t] = 0]
    /\ UNCHANGED <<time, spent, pause, model, reset, hasty, refused, stops>>

\* A failure of the provider or the connection counts until a quota intervenes; a day that went well or the
\* owner's retry does not renew the budget.
CountFailure(t) ==
    /\ stage[t] = "sent"
    /\ failures' = [failures EXCEPT ![t] = IF @ < MaxFailures THEN @ + 1 ELSE @]
    /\ IF failures'[t] < MaxFailures
         THEN Waits(t, "waiting", time)
         ELSE Goes(t, "failed") /\ UNCHANGED due
    /\ UNCHANGED <<time, spent, pause, model, reset, hasty, refused, stops>>

\* is_task_complete does not look at what stands before the marker.
IsTaskComplete(line) ==
    \/ line.marker /\ line.after \in {"none", "short", "phrase"}
    \/ ~line.marker /\ line.after = "phrase"

Answered(t, line) ==
    /\ stage[t] = "sent" /\ (model[t] = "free" => ~spent)
    /\ IF t \in Daily /\ ~IsTaskComplete(line)
         THEN Waits(t, "resting", NextNoon(time)) /\ UNCHANGED hasty
         ELSE /\ Goes(t, "completed") /\ UNCHANGED due
              /\ hasty' = IF t \in Daily /\ line.after \in {"hedge", "long"}
                            THEN hasty \cup {t} ELSE hasty
    /\ UNCHANGED <<time, spent, pause, model, failures, reset, refused, stops>>

-----------------------------------------------------------------------------
\* The owner retries a failed task: the checkpoint, with its count, stays.
RetryFailed(t) ==
    /\ stage[t] = "failed" /\ Waits(t, "waiting", time)
    /\ UNCHANGED <<time, spent, pause, model, failures, reset, hasty, refused, stops>>

Exhaust ==
    /\ ~spent /\ spent' = TRUE
    /\ UNCHANGED <<time, pause, rows, refused, stops>>

Tick ==
    /\ time < MaxTime /\ time' = time + 1
    /\ spent' = (spent /\ (time % 2 = 0) = (Renewals = "midnight"))
    /\ IF time % 2 = 0 THEN refused' = 0 /\ stops' = [stops EXCEPT !.today = 0]
                       ELSE UNCHANGED <<refused, stops>>
    /\ due' = [t \in Tasks |-> IF due[t] <= time + 1 THEN 0 ELSE due[t]]
    /\ UNCHANGED <<pause, model, stage, failures, reset, hasty>>

\* The bridge stops: what was in flight is taken up again, the pause stays.
Restart ==
    /\ stops.all < MaxStops /\ InFlight # {}
    /\ stops' = [today |-> stops.today + 1, all |-> stops.all + 1]
    /\ stage' = [t \in Tasks |-> IF t \in InFlight THEN "waiting" ELSE stage[t]]
    /\ due' = [t \in Tasks |-> IF t \in InFlight THEN 0 ELSE due[t]]
    /\ reset' = [t \in Tasks |-> 0]
    /\ UNCHANGED <<time, spent, pause, model, failures, hasty, refused>>

Next ==
    \/ \E t \in Tasks :
          \/ Claim(t) \/ Look(t) \/ Refuse(t) \/ Permanent(t)
          \/ RecordPause(t) \/ WaitForNoon(t) \/ CountFailure(t) \/ RetryFailed(t)
          \/ \E until \in {time, time + 3} : WaitForQuota(t, until)
          \/ \E line \in Lines : Answered(t, line)
    \/ Exhaust \/ Tick \/ Restart

Spec == Init /\ [][Next]_vars
-----------------------------------------------------------------------------
\* docs/zen-free-quota-recovery.md:5: after the first refusal the tasks behind it
\* wait without asking.  From one noon to the next as many free prompts are
\* refused as can be in flight, once more for each restart in between.
RefusedOnce == refused <= Slots * (1 + stops.today)

\* "work resumes automatically [...] even after a process restart" (:5): a task that
\* rests for the bucket is due when the pause that is recorded ends, and a daily job on
\* its next day, which begins at noon.  (How long the pause is, is not said here: the
\* code's noon is not the midnight of docs/zen-free-quota-recovery.md:3,5.)
ResumeWithPause ==
    \A t \in Tasks : stage[t] = "resting" =>
        due[t] <= IF t \in Daily THEN NextNoon(time) ELSE pause

\* A daily job ends as complete only on a line that neither hedges nor goes on
\* after its declaration.
EndsDeclared == hasty = {}

QuotaKept == RefusedOnce /\ ResumeWithPause /\ EndsDeclared
=============================================================================
