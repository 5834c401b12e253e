----------------------------- MODULE WorkerLimit -----------------------------
(***************************************************************************)
(* How many workers may claim (adaptive_workers.py, resource_monitor.py,   *)
(* shadow_policy_audit.py, worker_capacity.py, TaskServiceV3's             *)
(* active_worker_limit).  Every look of an idle worker samples the host:   *)
(* pressure lowers the limit at once, recovery raises it by one after a    *)
(* time without pressure.  Beside it a shadow policy, which decides        *)
(* nothing, gathers evidence over restarts that it might replace the       *)
(* policy in use.                                                          *)
(*                                                                         *)
(* A host is a record of classes: each signal's class is 0 to 3, cut at    *)
(* the thresholds both policies share.  Times are ticks since, capped.     *)
(***************************************************************************)
EXTENDS Integers, Sequences, FiniteSetsExt, SequencesExt

CONSTANTS
    Workers,      \* AGENT_TASK_WORKERS, which TaskService caps at 2
    Hosts,           \* the conditions the host may be in
    Recovery,        \* recovery_seconds
    Window,          \* evaluation_window
    MinSamples, MinAgreement, MaxMean, MaxDelta, MaxAggressive, \* the gates, in percent
    Stable,          \* promotion_min_stable_seconds
    PersistEvery,    \* persist_interval_seconds
    MaxAge,          \* max_state_age_seconds
    MaxEnds          \* bound: ends of the process

VARIABLES
    host,       \* the host's condition, or that it cannot be read
    limit,      \* StabilizedWorkerLimit._current, 0 before the first sample
    pressed,    \* ticks since _last_pressure_at, Never when it is None
    raised,     \* ticks since _last_increase_at
    level,      \* HostResourcePolicy._shadow_health_level
    deltas,     \* AuditedShadowPolicy._deltas
    since,      \* ticks since _statistically_ready_since
    advised,    \* _last_readiness: what the audit trail last said
    file,       \* shadow-readiness.json, with its age
    unsaved,    \* ticks since _last_persist_at
    calm,       \* ghost: ticks since a sample asked for fewer than Workers
    earned,     \* ghost: ticks the process was up since the evidence fell short
    ends

vars == <<host, limit, pressed, raised, level, deltas, since, advised, file, unsaved,
          calm, earned, ends>>

Never == -1
Unreadable == [mem |-> -1]
NoLevel == "none"
NoFile == [deltas |-> <<>>, stable |-> -1, earned |-> 0, age |-> 0]
-----------------------------------------------------------------------------
Signals == {"mem", "psi", "swap", "load", "disk"}

\* What each class of each signal takes off the score.
Penalty(signal, class) ==
    IF class = 0 THEN 0
    ELSE (CASE signal = "mem"  -> <<12, 30, 50>>
            [] signal = "psi"  -> <<8, 22, 40>>
            [] signal = "swap" -> <<8, 22, 35>>
            [] signal = "load" -> <<7, 20, 35>>
            [] signal = "disk" -> <<8, 25, 40>>)[class]

HealthScore(h) == Max({0, 100 - MapThenSumSet(LAMBDA s : Penalty(s, h[s]), Signals)})

HealthLevel(score) ==
    CASE score >= 80 -> "healthy"
      [] score \in 60..79 -> "degraded"
      [] score \in 35..59 -> "high"
      [] OTHER -> "critical"

\* decide: every signal may lower what is allowed, none may raise it.
AllowedWorkers(h) ==
    Min({Workers}
        \cup {1 : s \in {s \in Signals : h[s] = 3}}
        \cup {2 : s \in {s \in Signals \ {"load"} : h[s] = 2}}
        \cup {Max({1, h.cpus}) : s \in {s \in {"load"} : h[s] = 2}}
        \cup {IF h.total = "small" THEN 1 ELSE 2 : t \in {h.total} \ {"large"}})

ShadowWorkers(lv) ==
    CASE lv = "critical" -> 1
      [] lv = "high" -> Min({Workers, 2})
      [] lv = "degraded" -> Min({Workers, 3})
      [] OTHER -> Workers

Rank(lv) == CASE lv = "healthy" -> 0 [] lv = "degraded" -> 1 [] lv = "high" -> 2 [] OTHER -> 3

\* A level gets worse at once and better one step at a time, past a threshold
\* above the one it was entered at.
Stabilized(score, previous) ==
    LET raw == HealthLevel(score)
        threshold == CASE previous = "critical" -> 40 [] previous = "high" -> 65
                       [] previous = "degraded" -> 85 [] OTHER -> 101
    IN  IF previous = NoLevel \/ Rank(raw) >= Rank(previous) THEN raw
        ELSE IF score < threshold THEN previous
        ELSE CASE previous = "critical" -> "high"
               [] previous = "high" -> "degraded"
               [] OTHER -> "healthy"
-----------------------------------------------------------------------------
\* The gates a window of deltas must pass.
StatisticallyReady(window) ==
    LET n == Len(window)
        Number(Test(_)) == Cardinality({i \in 1..n : Test(window[i])})
        Size(d) == IF d < 0 THEN -d ELSE d
    IN  /\ n >= MinSamples
        /\ Number(LAMBDA d : d = 0) * 100 >= MinAgreement * n
        /\ MapThenSumSet(LAMBDA i : Size(window[i]), 1..n) * 100 <= MaxMean * n
        /\ \A i \in 1..n : Size(window[i]) <= MaxDelta
        /\ Number(LAMBDA d : d > 0) * 100 <= MaxAggressive * n

PromotionReady(window, elapsed) == StatisticallyReady(window) /\ elapsed >= Stable

Init ==
    /\ host \in Hosts
    /\ limit = 0 /\ pressed = Never /\ raised = Never
    /\ level = NoLevel /\ deltas = <<>> /\ since = Never /\ advised = "none"
    /\ file = NoFile /\ unsaved = Never
    /\ calm = 0 /\ earned = 0 /\ ends = 0

\* The time recovery is counted from: the last raise, or the last pressure, or now.
Baseline == IF raised # Never THEN raised ELSE IF pressed # Never THEN pressed ELSE 0

\* The first sample is taken as it is.
FirstLimit(target) ==
    /\ limit = 0
    /\ limit' = target
    /\ pressed' = IF target < Workers THEN 0 ELSE pressed
    /\ UNCHANGED raised

Lower(target) ==
    /\ limit > 0 /\ target < limit
    /\ limit' = target /\ pressed' = 0 /\ raised' = Never

Hold(target) ==
    /\ limit > 0 /\ target = limit
    /\ pressed' = IF target < Workers THEN 0 ELSE pressed
    /\ UNCHANGED <<limit, raised>>

Wait(target) ==
    /\ limit > 0 /\ target > limit /\ Baseline < Recovery
    /\ pressed' = IF pressed = Never /\ raised = Never THEN 0 ELSE pressed
    /\ UNCHANGED <<limit, raised>>

Raise(target) ==
    /\ limit > 0 /\ target > limit /\ Baseline >= Recovery
    /\ limit' = Min({target, limit + 1, Workers})
    /\ raised' = 0
    /\ pressed' = IF limit' >= Workers THEN Never ELSE pressed

\* _observe: the delta joins the window, the trail is told when the verdict
\* changes, and the window is saved when its time has come.
Observe(delta) ==
    LET window == IF Len(deltas) = Window THEN Append(Tail(deltas), delta) ELSE Append(deltas, delta)
        good   == StatisticallyReady(window)
        age    == IF ~good THEN Never ELSE IF since = Never THEN 0 ELSE since
    IN  /\ deltas' = window
        /\ since' = age
        /\ earned' = IF good THEN earned ELSE 0
        /\ advised' = IF Len(window) < MinSamples THEN advised
                      ELSE IF PromotionReady(window, age) THEN "ready" ELSE "not_ready"
        /\ IF unsaved = Never \/ unsaved >= PersistEvery
           THEN /\ file' = [deltas |-> window, stable |-> IF good THEN age ELSE 0,
                            earned |-> earned', age |-> 0]
                /\ unsaved' = 0
           ELSE UNCHANGED <<file, unsaved>>

\* active_worker_limit, as every idle worker asks it before each claim: a fresh
\* sample, the decision on it, its observation, and the limit that follows.
Ask ==
    /\ host # Unreadable
    /\ LET target == Max({1, AllowedWorkers(host)})
           lv     == Stabilized(HealthScore(host), level)
       IN  /\ level' = lv
           /\ Observe(ShadowWorkers(lv) - target)
           /\ \/ FirstLimit(target) \/ Lower(target) \/ Hold(target) \/ Wait(target) \/ Raise(target)
           /\ calm' = IF target < Workers THEN 0 ELSE calm
    /\ UNCHANGED <<host, ends>>

\* The host's condition changes, or /proc cannot be read, when no worker may
\* claim and nothing is decided.
HostChanges ==
    /\ host' \in (Hosts \cup {Unreadable}) \ {host}
    /\ UNCHANGED <<limit, pressed, raised, level, deltas, since, advised, file, unsaved,
                   calm, earned, ends>>

Older(age, cap) == IF age = Never THEN Never ELSE Min({age + 1, cap})

Tick ==
    /\ pressed' = Older(pressed, Recovery) /\ raised' = Older(raised, Recovery)
    /\ since' = Older(since, Stable) /\ unsaved' = Older(unsaved, PersistEvery)
    /\ file' = [file EXCEPT !.age = IF file = NoFile THEN 0 ELSE Min({@ + 1, MaxAge + 1})]
    /\ calm' = Min({calm + 1, Recovery})
    /\ earned' = Min({earned + 1, Stable})
    /\ UNCHANGED <<host, limit, level, deltas, advised, ends>>

\* The elapsed time counted from when the file was written.
RestoredWithAge(stable, age) == IF stable > 0 THEN Min({stable + age, Stable}) ELSE Never

\* _restore_state: the time the process was down is no evidence.
Restored(stable, age) == IF stable > 0 THEN Min({stable, Stable}) ELSE Never

\* The process ends and starts again, after any time: the limit and the shadow
\* level start anew, the evidence comes back from a file that is young enough.
Restart ==
    \E down \in 0..MaxAge + 1 :
        LET age  == Min({file.age + down, MaxAge + 1})
            kept == file # NoFile /\ age <= MaxAge
        IN  /\ ends < MaxEnds
            /\ ends' = ends + 1
            /\ limit' = 0 /\ pressed' = Never /\ raised' = Never /\ level' = NoLevel
            /\ calm' = 0
            /\ advised' = "none"
            /\ file' = [file EXCEPT !.age = IF file = NoFile THEN 0 ELSE age]
            /\ IF kept
               THEN /\ deltas' = file.deltas
                    /\ since' = IF StatisticallyReady(file.deltas)
                                THEN Restored(file.stable, age) ELSE Never
                    /\ earned' = file.earned
                    /\ unsaved' = 0
               ELSE /\ deltas' = <<>> /\ since' = Never /\ earned' = 0 /\ unsaved' = Never
            /\ UNCHANGED host

Next == Ask \/ HostChanges \/ Tick \/ Restart

Spec == Init /\ [][Next]_vars
-----------------------------------------------------------------------------
\* Limits, ages and evidence are what they can be.
TypeOK ==
    /\ host \in Hosts \cup {Unreadable} /\ limit \in 0..Workers
    /\ pressed \in {Never} \cup 0..Recovery /\ raised \in {Never} \cup 0..Recovery
    /\ deltas \in BoundedSeq(-1..1, Window)
    /\ since \in {Never} \cup 0..Stable /\ unsaved \in {Never} \cup 0..PersistEvery
    /\ calm \in 0..Recovery /\ earned \in 0..Stable /\ ends \in 0..MaxEnds

\* The limit is raised only by one, and only when no sample of the last
\* recovery_seconds asked for fewer workers (StabilizedWorkerLimit:
\* "deliberately slow worker recovery").
RaisedSlowly == limit > 0 /\ limit' > limit => limit' = limit + 1 /\ calm >= Recovery

\* The trail advises promotion only after promotion_min_stable_seconds for which
\* the bridge was up and the evidence it holds stayed good; time it was down,
\* whatever a file says and however often it restarts, never counts
\* (AuditedShadowPolicy: "never counts service downtime as additional stable
\* evidence").
PromotionEarned == advised = "ready" => earned >= Stable

\* Both: more workers, and the advice for a policy that would allow more, are
\* earned by time spent under observation.
EarnedByTime == [][RaisedSlowly /\ PromotionEarned']_vars
=============================================================================
