------------------------- MODULE OwnerServicesProofs -------------------------
(***************************************************************************)
(* For every number of schedules, files, questions, tasks and restarts:    *)
(* what the owner sends meets one task, what was confirmed or promised     *)
(* happens once, and what is shown is so.  One theorem for each part of    *)
(* OwnerServices, each from an inductive invariant of that part alone.     *)
(***************************************************************************)
EXTENDS OwnerServices, FiniteSetTheorems, TLAPS

\* A behaviour explores one part: every step is a step of it or leaves it alone.
LEMMA OneAtATime ==
  ASSUME [AllNext]_allVars
  PROVE  /\ [Next]_schedules
         /\ [Incoming!Next]_intake
         /\ [Interactions!Next]_questions
         /\ [Chat!Next]_panel
         /\ [Status!Next]_progress
         /\ [Own!Next]_files
         /\ [Bucket!Next]_quota
         /\ [Bot!Next]_process
  BY DEF AllNext, allVars, OnlySchedules, OnlyIntake, OnlyQuestions, OnlyPanel, OnlyPages,
         OnlyProgress, OnlyFiles, OnlyQuota, OnlyProcess

\* Every part starts in an initial state of its own.
LEMMA PartsStart ==
  ASSUME AllInit
  PROVE  /\ Init /\ Incoming!Init /\ Interactions!Init /\ Chat!Init /\ Status!Init
         /\ Own!Init /\ Bucket!Init /\ Bot!Init
  BY DEF AllInit
-----------------------------------------------------------------------------
(* Startup.                                                                *)

\* What is counted as running was assigned, and the other way round but for what
\* raised; an attempt has assigned what it passed, a shutdown stopped what it passed.
StartupInv ==
    /\ phase \in {"starting", "polling", "stopping", "gone"} /\ step \in Nat
    /\ assigned \subseteq Bot!Services /\ running \in [Bot!Services -> {0, 1}]
    /\ lame \subseteq Bot!Services
    /\ stale \in BOOLEAN /\ active \in BOOLEAN /\ clean \in BOOLEAN
    /\ \A s \in Bot!Services : running[s] = 1 => s \in assigned
    /\ phase \in {"starting", "polling"} => \A s \in assigned \ lame : running[s] = 1
    /\ phase = "starting" =>
          /\ step <= 13
          /\ \A i \in 1..step : Bot!Steps[i] \in Bot!Services => Bot!Steps[i] \in assigned
    /\ phase = "polling" => assigned = Bot!Services
    /\ phase = "stopping" => step <= 7 /\ \A k \in 1..step : running[Bot!Closing[k]] = 0
    /\ running["tasks"] = 1 => stale = FALSE
    /\ clean = TRUE => phase = "gone" /\ \A k \in 1..7 : running[Bot!Closing[k]] = 0

\* Every service is one of the thirteen steps; the shutdown stops all but one of them.
LEMMA StepFacts ==
  /\ Len(Bot!Steps) = 13 /\ Len(Bot!Closing) = 7 /\ DOMAIN Bot!Closing = 1..7
  /\ \A s \in Bot!Services : \E i \in 1..13 : Bot!Steps[i] = s
  /\ \A k \in 1..7 : Bot!Closing[k] \in Bot!Services
  /\ \A s \in Bot!Services \ {"downloads"} : \E k \in 1..7 : Bot!Closing[k] = s
  /\ "tasks" \in Bot!Services
  <1>1. \A s \in Bot!Services : s \in {Bot!Steps[2], Bot!Steps[4], Bot!Steps[5], Bot!Steps[6],
                                      Bot!Steps[7], Bot!Steps[10], Bot!Steps[11], Bot!Steps[13]}
    BY DEF Bot!Services, Bot!Steps
  <1>2. {2, 4, 5, 6, 7, 10, 11, 13} \subseteq 1..13
    OBVIOUS
  <1>3. \A k \in 1..7 : Bot!Closing[k] \in Bot!Services
    <2>1. \A k \in 1..7 : k \in {1, 2, 3, 4, 5, 6, 7}
      OBVIOUS
    <2>2. {Bot!Closing[1], Bot!Closing[2], Bot!Closing[3], Bot!Closing[4], Bot!Closing[5],
           Bot!Closing[6], Bot!Closing[7]}
          \subseteq Bot!Services
      BY DEF Bot!Services, Bot!Closing
    <2> QED BY <2>1, <2>2
  <1>4. Len(Bot!Steps) = 13 /\ Len(Bot!Closing) = 7 /\ DOMAIN Bot!Closing = 1..7
    BY DEF Bot!Steps, Bot!Closing
  <1>5. "tasks" \in Bot!Services
    BY DEF Bot!Services
  <1>6. \A s \in Bot!Services \ {"downloads"} :
           s \in {Bot!Closing[1], Bot!Closing[2], Bot!Closing[3], Bot!Closing[4], Bot!Closing[5],
                 Bot!Closing[6], Bot!Closing[7]}
    BY DEF Bot!Services, Bot!Closing
  <1>7. {1, 2, 3, 4, 5, 6, 7} \subseteq 1..7
    OBVIOUS
  <1> QED BY <1>1, <1>2, <1>3, <1>4, <1>5, <1>6, <1>7

\* A process begins with nothing of its own.
LEMMA StartupInit == Bot!Init => StartupInv
  <1> SUFFICES ASSUME Bot!Init PROVE StartupInv
    OBVIOUS
  <1>1. running["tasks"] = 0 /\ running \in [Bot!Services -> {0, 1}]
        /\ \A s \in Bot!Services : running[s] = 0
    BY StepFacts DEF Bot!Init
  <1>2. phase = "starting" /\ step = 0 /\ assigned = {} /\ lame = {} /\ stale = FALSE
        /\ active = FALSE /\ clean = FALSE
    BY DEF Bot!Init
  <1>3. stale \in BOOLEAN /\ active \in BOOLEAN /\ clean \in BOOLEAN
    BY <1>2
  <1>4. step <= 13 /\ step \in Nat
    BY <1>2
  <1>5. \A i \in 1..step : Bot!Steps[i] \in Bot!Services => Bot!Steps[i] \in assigned
    BY <1>2
  <1>6. assigned \subseteq Bot!Services /\ lame \subseteq Bot!Services
    BY <1>2
  <1>7. clean = TRUE => phase = "gone" /\ \A k \in 1..7 : running[Bot!Closing[k]] = 0
    BY <1>2
  <1>8. running["tasks"] = 1 => stale = FALSE
    BY <1>2
  <1>9. \A s \in assigned \ lame : running[s] = 1
    BY <1>2
  <1> QED BY <1>1, <1>2, <1>3, <1>4, <1>5, <1>6, <1>7, <1>8, <1>9 DEF StartupInv

\* The attempts keep the invariant, where they fail too.
LEMMA AttemptKeeps ==
  ASSUME StartupInv, Bot!BringUp \/ Bot!Unreachable \/ Bot!StartRaises
  PROVE  StartupInv'
  <1>1. CASE Bot!BringUp
    <2>0. /\ phase = "starting" /\ step < 13 /\ step' = step + 1
          /\ UNCHANGED <<phase, lame, active, clean>>
      BY <1>1, StepFacts DEF Bot!BringUp, Bot!Starting, Bot!NextStep
    <2> DEFINE s == Bot!Steps[step + 1]
    <2>1. CASE s \notin Bot!Services \ assigned
      <3>1. UNCHANGED <<assigned, running, stale>>
        BY <1>1, <2>1 DEF Bot!BringUp, Bot!Current
      <3> QED BY <2>0, <2>1, <3>1 DEF StartupInv
    <2>2. CASE s \in Bot!Services \ assigned
      <3>1. /\ assigned' = assigned \cup {s} /\ running' = [running EXCEPT ![s] = @ + 1]
            /\ stale' = (stale /\ s # "tasks")
        BY <1>1, <2>2 DEF Bot!BringUp, Bot!Current, Bot!Launched
      <3>2. running[s] = 0
        BY <2>2 DEF StartupInv
      <3> HIDE DEF s
      <3>3. /\ running' \in [Bot!Services -> {0, 1}] /\ running'[s] = 1
            /\ \A n \in Bot!Services \ {s} : running'[n] = running[n]
        BY <2>2, <3>1, <3>2 DEF StartupInv
      <3>4. running'["tasks"] = 1 => stale' = FALSE
        BY <3>1, <3>3, StepFacts DEF StartupInv
      <3>5. stale' \in BOOLEAN /\ active' \in BOOLEAN /\ clean' \in BOOLEAN
        BY <2>0, <3>1 DEF StartupInv
      <3>6. \A i \in 1..step' : Bot!Steps[i] \in Bot!Services => Bot!Steps[i] \in assigned'
        BY <2>0, <3>1 DEF s, StartupInv
      <3> QED BY <2>0, <2>2, <3>1, <3>3, <3>4, <3>5, <3>6 DEF StartupInv
    <2> QED BY <2>1, <2>2
  <1>2. CASE Bot!Unreachable \/ Bot!StartRaises
    <2>1. /\ phase = "starting" /\ phase' \in {"starting", "gone"}
          /\ step' = step \/ step' = 0
          /\ UNCHANGED <<running, active, stale, clean>>
      BY <1>2 DEF Bot!Unreachable, Bot!StartRaises, Bot!Starting, Bot!Again
    <2>2. \/ UNCHANGED <<assigned, lame>>
          \/ \E s \in Bot!Services : assigned' = assigned \cup {s} /\ lame' = lame \cup {s}
      BY <1>2 DEF Bot!Unreachable, Bot!StartRaises, Bot!RaisesAfter, Bot!Services
    <2> QED BY <2>1, <2>2 DEF StartupInv
  <1> QED BY <1>1, <1>2

\* So do polling, the shutdown and what may end the process before.
LEMMA LifeKeeps ==
  ASSUME StartupInv,
         \/ Bot!Poll \/ Bot!PollRaises \/ Bot!Sigterm \/ Bot!Stop \/ Bot!Close
         \/ Bot!CloseRaises \/ Bot!Closed \/ Bot!Execute \/ Bot!Killed \/ Bot!Respawn
  PROVE  StartupInv'
  <1>1. CASE Bot!Poll
    <2>1. assigned = Bot!Services
      BY <1>1, StepFacts DEF Bot!Poll, StartupInv
    <2> QED BY <1>1, <2>1 DEF Bot!Poll, StartupInv
  <1>2. CASE Bot!PollRaises \/ Bot!CloseRaises \/ Bot!Killed
    BY <1>2 DEF Bot!PollRaises, Bot!CloseRaises, Bot!Killed, StartupInv
  <1>3. CASE Bot!Sigterm \/ Bot!Stop
    BY <1>3 DEF Bot!Sigterm, Bot!Stop, StartupInv
  <1>4. CASE Bot!Close
    <2> DEFINE s == Bot!Closing[step + 1]
    <2>1. /\ phase = "stopping" /\ step < 7 /\ step' = step + 1 /\ s \in Bot!Services
          /\ running' = [running EXCEPT ![s] = 0] /\ assigned' = assigned \ {s}
          /\ UNCHANGED <<phase, lame, active, stale, clean>>
      BY <1>4, StepFacts DEF Bot!Close, Bot!NextStep, StartupInv
    <2>2. \A k \in 1..step' : running'[Bot!Closing[k]] = 0
      BY <2>1, StepFacts DEF StartupInv
    <2> HIDE DEF s
    <2>3. /\ running' \in [Bot!Services -> {0, 1}] /\ running'[s] = 0
          /\ \A n \in Bot!Services \ {s} : running'[n] = running[n]
      BY <2>1 DEF StartupInv
    <2> QED BY <2>1, <2>2, <2>3, StepFacts DEF StartupInv
  <1>5. CASE Bot!Closed
    BY <1>5, StepFacts DEF Bot!Closed, StartupInv
  <1>6. CASE Bot!Execute
    BY <1>6 DEF Bot!Execute, StartupInv
  <1>7. CASE Bot!Respawn
    <2>1. running'["tasks"] = 0 /\ running' \in [Bot!Services -> {0, 1}]
          /\ \A s \in Bot!Services : running'[s] = 0
      BY <1>7, StepFacts DEF Bot!Respawn
    <2>2. /\ phase' = "starting" /\ step' = 0 /\ assigned' = {} /\ lame' = {}
          /\ active' = FALSE /\ clean' = FALSE /\ stale' \in BOOLEAN
      BY <1>7 DEF Bot!Respawn, StartupInv
    <2>3. stale' \in BOOLEAN /\ active' \in BOOLEAN /\ clean' \in BOOLEAN
      BY <2>2
    <2>4. \A i \in 1..step' : Bot!Steps[i] \in Bot!Services => Bot!Steps[i] \in assigned'
      BY <2>2
    <2>5. clean' = TRUE => phase' = "gone" /\ \A k \in 1..7 : running'[Bot!Closing[k]] = 0
      BY <2>2
    <2>6. running'["tasks"] = 1 => stale' = FALSE
      BY <2>1
    <2> QED BY <2>1, <2>2, <2>3, <2>4, <2>5, <2>6 DEF StartupInv
  <1> QED BY <1>1, <1>2, <1>3, <1>4, <1>5, <1>6, <1>7

\* Whatever attempts fail half-way, no service runs twice and none is missing, and
\* no worker starts beside what the process before left running.
THEOREM ServicesStartOnce == AllSpec => []StartedOnce
  <1>1. AllInit => StartupInv BY PartsStart, StartupInit
  <1>2. StartupInv /\ [AllNext]_allVars => StartupInv'
    <2>1. StartupInv /\ UNCHANGED process => StartupInv'
      BY DEF process, StartupInv
    <2> QED BY <2>1, OneAtATime, AttemptKeeps, LifeKeeps DEF Bot!Next
  <1>3. StartupInv => StartedOnce
    BY StepFacts
       DEF StartupInv, StartedOnce, Bot!StartedOnce, Bot!NoneTwice, Bot!PollingUp,
           Bot!RecoveredFirst, Bot!ShutDown
  <1> QED BY <1>1, <1>2, <1>3, PTL DEF AllSpec
-----------------------------------------------------------------------------
(* DailyQuota.                                                             *)

Flying == {"claimed", "sent", "limited", "paused"}
Stages == Flying \cup {"waiting", "resting", "completed", "failed"}

Flights  == {t \in Waiters : stage[t] \in Flying}
FreeSent == {t \in Waiters : stage[t] = "sent" /\ model[t] = "free"}
Refusers == {t \in Waiters : stage[t] = "limited" /\ reset[t] > time}

QuotaType ==
    /\ time \in Nat /\ pause \in Nat /\ limited \in Nat /\ (pause = 0 \/ pause % 2 = 1)
    /\ stage \in [Waiters -> Stages] /\ due \in [Waiters -> Nat]
    /\ stops \in [today : Nat, all : Nat]
    /\ reset \in [Waiters -> Nat]
    /\ \A t \in Waiters : /\ reset[t] = 0 \/ reset[t] % 2 = 1
                         /\ reset[t] <= Bucket!NextNoon(time)
    /\ IsFiniteSet(Flights) /\ Cardinality(Flights) <= Slots

\* While no pause is in force each refusal since noon has its execution in flight or
\* cut off by a restart; once one is, only what was sent before may be refused.
RefusalsCounted ==
    /\ pause <= time => limited <= Cardinality(Refusers) + Slots * stops.today
    /\ pause > time  => limited + Cardinality(FreeSent) <= Slots * stops.today + Slots

RestsUntilNoon ==
    \A t \in Waiters :
      /\ stage[t] = "resting" =>
            due[t] <= Bucket!NextNoon(time) /\ (t \notin Daily => due[t] <= pause)
      /\ stage[t] = "paused" => reset[t] <= pause

QuotaInv ==
    /\ QuotaType /\ RefusalsCounted
    /\ pause <= Bucket!NextNoon(time) /\ RestsUntilNoon
    /\ hasty = {}

\* Noon is an odd half day, after now and before the noon after it.
LEMMA NoonFacts ==
  ASSUME NEW n \in Nat
  PROVE  /\ Bucket!NextNoon(n) \in Nat /\ Bucket!NextNoon(n) > n
         /\ Bucket!NextNoon(n) % 2 = 1
         /\ Bucket!NextNoon(n + 1) >= Bucket!NextNoon(n)
         /\ n % 2 = 0 => Bucket!NextNoon(n) = n + 1
  BY DEF Bucket!NextNoon

\* What is in flight, what of it was sent to a free model and what was refused are
\* as few as the slots.
LEMMA FlightFacts ==
  ASSUME QuotaType
  PROVE  /\ FreeSent \subseteq Flights /\ Refusers \subseteq Flights /\ FreeSent \cap Refusers = {}
         /\ IsFiniteSet(FreeSent) /\ IsFiniteSet(Refusers) /\ IsFiniteSet(Flights)
         /\ Cardinality(FreeSent) \in Nat /\ Cardinality(Refusers) \in Nat
         /\ Cardinality(Flights) \in Nat
         /\ Cardinality(FreeSent) + Cardinality(Refusers) <= Slots
         /\ Slots \in Nat /\ Slots * stops.today \in Nat
  <1>1. FreeSent \subseteq Flights /\ Refusers \subseteq Flights /\ FreeSent \cap Refusers = {}
    BY DEF FreeSent, Refusers, Flights, Flying
  <1>2. IsFiniteSet(Flights) /\ IsFiniteSet(FreeSent) /\ IsFiniteSet(Refusers)
    BY <1>1, FS_Subset DEF QuotaType
  <1>3. /\ Cardinality(FreeSent) \in Nat /\ Cardinality(Refusers) \in Nat
        /\ Cardinality(Flights) \in Nat
    BY <1>2, FS_CardinalityType
  <1>4. Cardinality(FreeSent \cup Refusers) = Cardinality(FreeSent) + Cardinality(Refusers)
    <2>1. /\ Cardinality(FreeSent \cup Refusers) =
                Cardinality(FreeSent) + Cardinality(Refusers) - Cardinality(FreeSent \cap Refusers)
      BY <1>2, FS_Union
    <2>2. Cardinality(FreeSent \cap Refusers) = 0
      BY <1>1, FS_EmptySet
    <2> QED BY <1>3, <2>1, <2>2
  <1>5. Cardinality(FreeSent \cup Refusers) <= Cardinality(Flights)
    <2>1. FreeSent \cup Refusers \subseteq Flights
      BY <1>1
    <2> QED BY <1>2, <2>1, FS_Subset
  <1>6. Slots \in Nat /\ stops.today \in Nat
    BY OwnerAssumption DEF QuotaType
  <1>7. Slots * stops.today \in Nat
    BY <1>6
  <1> QED BY <1>1, <1>2, <1>3, <1>4, <1>5, <1>6, <1>7 DEF QuotaType

\* A task that moves from one stage to another, as the sets see it.
LEMMA StageMoves ==
  ASSUME QuotaType, NEW t \in Waiters, NEW to \in Stages, Bucket!Goes(t, to), UNCHANGED <<model, time>>,
         \A n \in Waiters \ {t} : reset'[n] = reset[n]
  PROVE  /\ stage' \in [Waiters -> Stages] /\ stage'[t] = to
         /\ \A n \in Waiters \ {t} : stage'[n] = stage[n]
         /\ Flights' = IF to \in Flying THEN Flights \cup {t} ELSE Flights \ {t}
         /\ FreeSent' = IF to = "sent" /\ model[t] = "free" THEN FreeSent \cup {t} ELSE FreeSent \ {t}
         /\ Refusers' = IF to = "limited" /\ reset'[t] > time THEN Refusers \cup {t} ELSE Refusers \ {t}
  BY DEF QuotaType, Bucket!Goes, Flights, FreeSent, Refusers

\* What only takes tasks out of flight keeps the count.
LEMMA FewerInFlight ==
  ASSUME QuotaType, RefusalsCounted, UNCHANGED <<pause, time, limited, stops>>,
         Flights' \subseteq Flights, FreeSent' \subseteq FreeSent, Refusers' = Refusers
  PROVE  /\ IsFiniteSet(Flights') /\ Cardinality(Flights') <= Slots /\ RefusalsCounted'
  <1>1. IsFiniteSet(Flights') /\ Cardinality(Flights') <= Cardinality(Flights)
        /\ Cardinality(Flights') \in Nat
    BY FlightFacts, FS_Subset, FS_CardinalityType
  <1>2. Cardinality(FreeSent') <= Cardinality(FreeSent) /\ Cardinality(FreeSent') \in Nat
    BY FlightFacts, FS_Subset, FS_CardinalityType
  <1>3. Slots \in Nat /\ Slots * stops.today \in Nat /\ stops' = stops
    BY FlightFacts
  <1>4. IsFiniteSet(Flights') /\ Cardinality(Flights') <= Slots
    BY <1>1, <1>3, FlightFacts DEF QuotaType
  <1>5. pause' <= time' => limited' <= Cardinality(Refusers') + Slots * stops'.today
    BY DEF RefusalsCounted
  <1>6. pause' > time' => limited' + Cardinality(FreeSent') <= Slots * stops'.today + Slots
    BY <1>2, <1>3, FlightFacts DEF RefusalsCounted, QuotaType
  <1> QED BY <1>4, <1>5, <1>6 DEF RefusalsCounted

\* A task that is given a time to wait until.
LEMMA WaitsSays ==
  ASSUME QuotaInv, NEW t \in Waiters, NEW how \in {"claimed", "waiting", "resting"},
         NEW until \in Nat, Bucket!Waits(t, how, until),
         how = "resting" => until <= Bucket!NextNoon(time) /\ (t \notin Daily => until <= pause),
         \A n \in Waiters \ {t} : reset'[n] = reset[n], UNCHANGED <<time, pause>>
  PROVE  due' \in [Waiters -> Nat] /\ RestsUntilNoon' /\ Bucket!Goes(t, how)
  <1>1. /\ stage' = [stage EXCEPT ![t] = how]
        /\ due' = [due EXCEPT ![t] = IF until <= time THEN 0 ELSE until]
    BY DEF Bucket!Waits, Bucket!Goes
  <1>2. (IF until <= time THEN 0 ELSE until) \in Nat
        /\ (how = "resting" =>
              /\ (IF until <= time THEN 0 ELSE until) <= Bucket!NextNoon(time)
              /\ t \notin Daily => (IF until <= time THEN 0 ELSE until) <= pause)
    BY NoonFacts DEF QuotaInv, QuotaType
  <1> QED BY <1>1, <1>2 DEF QuotaInv, QuotaType, RestsUntilNoon, Bucket!Goes

\* Taking a task up, looking at the pause and being refused keep the count.
LEMMA FlightKeeps ==
  ASSUME QuotaInv, NEW t \in Waiters, Bucket!Claim(t) \/ Bucket!Look(t) \/ Bucket!Refuse(t)
  PROVE  QuotaInv'
  <1>0. QuotaType /\ RefusalsCounted
    BY DEF QuotaInv
  <1>1. CASE Bucket!Claim(t)
    <2>1. /\ Bucket!Waits(t, "claimed", 0) /\ stage[t] \in {"waiting", "resting"}
          /\ UNCHANGED <<time, pause, model, reset, hasty, limited, stops>>
      BY <1>1 DEF Bucket!Claim, Bucket!Waiting
    <2>2. due' \in [Waiters -> Nat] /\ RestsUntilNoon' /\ Bucket!Goes(t, "claimed")
      BY <2>1, WaitsSays DEF QuotaType
    <2>3. /\ stage' \in [Waiters -> Stages] /\ Flights' = Flights \cup {t} /\ t \notin Flights
          /\ FreeSent' = FreeSent /\ Refusers' = Refusers
      BY <1>0, <2>1, <2>2, StageMoves DEF Flying, Stages, Flights, FreeSent, Refusers
    <2>4. Cardinality(Flights) < Slots
      <3>1. Bucket!InFlight = Flights
        BY <1>0 DEF Bucket!InFlight, Bucket!Waiting, Flights, Flying, QuotaType, Stages
      <3>2. Bucket!Cardinality(Flights) = Cardinality(Flights)
        BY DEF Bucket!Cardinality, Cardinality
      <3> QED BY <1>1, <3>1, <3>2 DEF Bucket!Claim
    <2>5. IsFiniteSet(Flights') /\ Cardinality(Flights') = Cardinality(Flights) + 1
      BY <1>0, <2>3, FlightFacts, FS_AddElement
    <2>6. Cardinality(Flights') <= Slots
      BY <1>0, <2>4, <2>5, FlightFacts
    <2>7. RefusalsCounted'
      BY <1>0, <2>1, <2>3 DEF RefusalsCounted
    <2>8. QuotaType'
      BY <1>0, <2>1, <2>2, <2>3, <2>5, <2>6 DEF QuotaType
    <2> QED BY <2>1, <2>2, <2>7, <2>8 DEF QuotaInv
  <1>2. CASE Bucket!Look(t)
    <2>1. /\ stage[t] = "claimed" /\ UNCHANGED <<time, pause, model, reset, hasty, limited, stops>>
      BY <1>2 DEF Bucket!Look
    <2>2. CASE model[t] = "free" /\ pause > time
      <3>1. Bucket!Waits(t, "resting", pause)
        BY <1>2, <2>2 DEF Bucket!Look
      <3>2. due' \in [Waiters -> Nat] /\ RestsUntilNoon' /\ Bucket!Goes(t, "resting")
        BY <2>1, <3>1, WaitsSays DEF QuotaInv, QuotaType
      <3>3. /\ stage' \in [Waiters -> Stages] /\ Flights' \subseteq Flights
            /\ FreeSent' \subseteq FreeSent /\ Refusers' = Refusers
        BY <1>0, <2>1, <3>2, StageMoves DEF Flying, Stages, Refusers
      <3>4. IsFiniteSet(Flights') /\ Cardinality(Flights') <= Slots /\ RefusalsCounted'
        BY <1>0, <2>1, <3>3, FewerInFlight
      <3>5. QuotaType'
        BY <1>0, <2>1, <3>2, <3>3, <3>4 DEF QuotaType
      <3> QED BY <2>1, <3>2, <3>4, <3>5 DEF QuotaInv
    <2>3. CASE ~(model[t] = "free" /\ pause > time)
      <3>1. Bucket!Goes(t, "sent") /\ UNCHANGED due
        BY <1>2, <2>3 DEF Bucket!Look
      <3>2. /\ stage' \in [Waiters -> Stages] /\ Flights' = Flights /\ Refusers' = Refusers
            /\ model[t] # "free" => FreeSent' = FreeSent
            /\ \A n \in Waiters \ {t} : stage'[n] = stage[n]
            /\ stage'[t] = "sent"
        BY <1>0, <2>1, <3>1, StageMoves DEF Flying, Stages, Flights, FreeSent, Refusers
      <3>3. RestsUntilNoon'
        BY <2>1, <3>1, <3>2 DEF QuotaInv, RestsUntilNoon
      <3>4. RefusalsCounted'
        <4>1. CASE model[t] = "free"
          BY <1>0, <2>1, <2>3, <3>2, <4>1 DEF RefusalsCounted, QuotaType
        <4>2. CASE model[t] # "free"
          BY <1>0, <2>1, <3>2, <4>2 DEF RefusalsCounted
        <4> QED BY <4>1, <4>2
      <3>5. QuotaType'
        BY <1>0, <2>1, <3>1, <3>2 DEF QuotaType
      <3> QED BY <2>1, <3>3, <3>4, <3>5 DEF QuotaInv
    <2> QED BY <2>2, <2>3
  <1>3. CASE Bucket!Refuse(t)
    <2>1. /\ stage[t] = "sent" /\ Bucket!Goes(t, "limited")
          /\ reset' = [reset EXCEPT ![t] = Bucket!NextNoon(time)]
          /\ limited' = IF model[t] = "free" THEN limited + 1 ELSE limited
          /\ UNCHANGED <<time, pause, model, due, hasty, stops>>
      BY <1>3 DEF Bucket!Refuse
    <2>0. /\ reset'[t] = Bucket!NextNoon(time) /\ reset'[t] > time /\ reset'[t] % 2 = 1
          /\ reset' \in [Waiters -> Nat] /\ \A n \in Waiters \ {t} : reset'[n] = reset[n]
      BY <1>0, <2>1, NoonFacts DEF QuotaType
    <2>2. /\ stage' \in [Waiters -> Stages] /\ Flights' = Flights
          /\ FreeSent' = FreeSent \ {t} /\ (model[t] = "free" => t \in FreeSent)
          /\ Refusers' = Refusers \cup {t} /\ t \notin Refusers
          /\ \A n \in Waiters \ {t} : stage'[n] = stage[n]
          /\ stage'[t] = "limited"
      BY <1>0, <2>0, <2>1, StageMoves DEF Flying, Stages, Flights, FreeSent, Refusers
    <2>3. RestsUntilNoon'
      BY <2>0, <2>1, <2>2 DEF QuotaInv, RestsUntilNoon
    <2>4. Cardinality(Refusers') = Cardinality(Refusers) + 1
      BY <1>0, <2>2, FlightFacts, FS_AddElement
    <2>7. /\ Cardinality(FreeSent') \in Nat /\ Cardinality(FreeSent') <= Cardinality(FreeSent)
          /\ model[t] = "free" => Cardinality(FreeSent') = Cardinality(FreeSent) - 1
      BY <1>0, <2>2, FlightFacts, FS_Subset, FS_CardinalityType, FS_RemoveElement
    <2>5. RefusalsCounted'
      <3>1. limited \in Nat /\ time \in Nat /\ pause \in Nat
        BY <1>0 DEF QuotaType
      <3>2. pause <= time => limited <= Cardinality(Refusers) + Slots * stops.today
        BY <1>0 DEF RefusalsCounted
      <3>3. pause > time => limited + Cardinality(FreeSent) <= Slots * stops.today + Slots
        BY <1>0 DEF RefusalsCounted
      <3>4. pause' <= time' => limited' <= Cardinality(Refusers') + Slots * stops'.today
        BY <1>0, <2>1, <2>4, <3>1, <3>2, FlightFacts
      <3>5. pause' > time' => limited' + Cardinality(FreeSent') <= Slots * stops'.today + Slots
        BY <1>0, <2>1, <2>7, <3>1, <3>3, FlightFacts
      <3> QED BY <3>4, <3>5 DEF RefusalsCounted
    <2>6. QuotaType'
      <3>1. limited' \in Nat
        BY <1>0, <2>1 DEF QuotaType
      <3>2. \A n \in Waiters : (reset'[n] = 0 \/ reset'[n] % 2 = 1) /\ reset'[n] <= Bucket!NextNoon(time')
        BY <1>0, <2>0, <2>1, NoonFacts DEF QuotaType
      <3> QED BY <1>0, <2>0, <2>1, <2>2, <3>1, <3>2 DEF QuotaType
    <2> QED BY <2>1, <2>3, <2>5, <2>6 DEF QuotaInv
  <1> QED BY <1>1, <1>2, <1>3

\* The pause is recorded while every refusal since noon is in flight or cut off; one
\* refused before noon records nothing that is to come.
LEMMA PauseKeeps ==
  ASSUME QuotaInv, NEW t \in Waiters, Bucket!RecordPause(t)
  PROVE  QuotaInv'
  <1>0. QuotaType /\ RefusalsCounted
    BY DEF QuotaInv
  <1>1. /\ stage[t] = "limited" /\ Bucket!Goes(t, "paused")
        /\ pause' = Bucket!Later(pause, reset[t])
        /\ UNCHANGED <<time, model, due, reset, hasty, limited, stops>>
    BY DEF Bucket!RecordPause
  <1>2. /\ stage' \in [Waiters -> Stages] /\ Flights' = Flights /\ FreeSent' = FreeSent
        /\ Refusers' = Refusers \ {t} /\ (reset[t] <= time => t \notin Refusers)
        /\ \A n \in Waiters \ {t} : stage'[n] = stage[n]
        /\ stage'[t] = "paused"
    <2>1. reset[t] \in Nat /\ time \in Nat
      BY <1>0 DEF QuotaType
    <2> QED BY <1>0, <1>1, <2>1, StageMoves DEF Flying, Stages, Flights, FreeSent, Refusers
  <1>4. /\ pause' \in Nat /\ (pause' = 0 \/ pause' % 2 = 1) /\ pause' >= pause /\ pause' >= reset[t]
        /\ pause' <= Bucket!NextNoon(time') /\ time \in Nat /\ pause \in Nat
        /\ reset[t] \in Nat /\ limited \in Nat
    BY <1>0, <1>1 DEF Bucket!Later, QuotaInv, QuotaType
  <1>3. RestsUntilNoon'
    <2>1. due \in [Waiters -> Nat] /\ reset \in [Waiters -> Nat]
      BY <1>0 DEF QuotaType
    <2> QED BY <1>1, <1>2, <1>4, <2>1 DEF QuotaInv, RestsUntilNoon
  <1>5. limited + Cardinality(FreeSent) <= Slots * stops.today + Slots
    <2>2. pause <= time => limited <= Cardinality(Refusers) + Slots * stops.today
      BY <1>0 DEF RefusalsCounted
    <2>3. pause > time => limited + Cardinality(FreeSent) <= Slots * stops.today + Slots
      BY <1>0 DEF RefusalsCounted
    <2> QED BY <1>0, <1>4, <2>2, <2>3, FlightFacts
  <1>6. RefusalsCounted'
    <2>1. CASE pause' > time
      BY <1>0, <1>1, <1>2, <1>4, <1>5, <2>1 DEF RefusalsCounted
    <2>2. CASE ~(pause' > time)
      <3>1. reset[t] <= time /\ pause <= time /\ pause' <= time
        BY <1>4, <2>2
      <3>2. Refusers' = Refusers
        BY <1>2, <3>1
      <3> QED BY <1>0, <1>1, <1>4, <3>1, <3>2 DEF RefusalsCounted
    <2> QED BY <2>1, <2>2
  <1>7. QuotaType'
    BY <1>0, <1>1, <1>2, <1>4 DEF QuotaType
  <1> QED BY <1>1, <1>3, <1>4, <1>6, <1>7 DEF QuotaInv

\* So do the ends of an execution and the owner's retry, whatever they make the row
\* wait for.
LEMMA EndsKeep ==
  ASSUME QuotaInv, NEW t \in Waiters,
         \/ Bucket!Permanent(t) \/ Bucket!WaitForNoon(t) \/ Bucket!CountFailure(t)
         \/ Bucket!RetryFailed(t) \/ (\E until \in {time, time + 3} : Bucket!WaitForQuota(t, until))
         \/ (\E line \in Bucket!Lines : Bucket!Answered(t, line))
  PROVE  QuotaInv'
  <1>0. QuotaType /\ RefusalsCounted /\ time \in Nat /\ Bucket!NextNoon(time) \in Nat
    BY NoonFacts DEF QuotaInv, QuotaType
  <1>1. /\ stage[t] \in {"sent", "paused", "failed"}
        /\ UNCHANGED <<time, pause, model, limited, stops>>
        /\ reset' = reset \/ reset' = [reset EXCEPT ![t] = 0]
    BY DEF Bucket!Permanent, Bucket!WaitForNoon, Bucket!CountFailure, Bucket!RetryFailed,
           Bucket!WaitForQuota, Bucket!Answered
  <1>2. PICK to \in {"waiting", "resting", "completed", "failed"} :
           /\ Bucket!Goes(t, to)
           /\ \/ UNCHANGED due /\ to \in {"completed", "failed"}
              \/ \E until \in Nat : /\ Bucket!Waits(t, to, until) /\ to \in {"waiting", "resting"}
                                    /\ to = "resting" =>
                                          /\ until <= Bucket!NextNoon(time)
                                          /\ t \notin Daily => until <= pause
    <2>1. CASE Bucket!Permanent(t)
      BY <2>1 DEF Bucket!Permanent
    <2>2. ASSUME Bucket!WaitForNoon(t)
          PROVE  \/ Bucket!Waits(t, "resting", Bucket!NextNoon(time)) /\ t \in Daily
                 \/ /\ Bucket!Waits(t, "resting", reset[t]) /\ reset[t] \in Nat
                    /\ reset[t] <= Bucket!NextNoon(time) /\ reset[t] <= pause
      BY <1>0, <2>2 DEF Bucket!WaitForNoon, QuotaInv, QuotaType, RestsUntilNoon
    <2>3. CASE Bucket!CountFailure(t)
      BY <1>0, <2>3 DEF Bucket!CountFailure, Bucket!Waits
    <2>4. CASE Bucket!RetryFailed(t)
      BY <1>0, <2>4 DEF Bucket!RetryFailed, Bucket!Waits
    <2>5. ASSUME NEW until \in {time, time + 3}, Bucket!WaitForQuota(t, until)
          PROVE  \/ Bucket!Waits(t, "resting", Bucket!NextNoon(time)) /\ t \in Daily
                 \/ Bucket!Waits(t, "waiting", until) /\ until \in Nat
      BY <1>0, <2>5 DEF Bucket!WaitForQuota
    <2>6. ASSUME NEW line \in Bucket!Lines, Bucket!Answered(t, line)
          PROVE  \/ Bucket!Waits(t, "resting", Bucket!NextNoon(time)) /\ t \in Daily
                 \/ Bucket!Goes(t, "completed") /\ UNCHANGED due
      BY <2>6 DEF Bucket!Answered
    <2> QED BY <1>0, <2>1, <2>2, <2>3, <2>4, <2>5, <2>6 DEF Bucket!Waits
  <1>3. /\ stage' \in [Waiters -> Stages] /\ Flights' \subseteq Flights
        /\ FreeSent' \subseteq FreeSent /\ Refusers' = Refusers
        /\ \A n \in Waiters \ {t} : stage'[n] = stage[n] /\ reset'[n] = reset[n]
        /\ stage'[t] = to
    <2>1. /\ Bucket!Goes(t, to) /\ to \in Stages /\ to \notin Flying
          /\ \A n \in Waiters \ {t} : reset'[n] = reset[n]
      BY <1>0, <1>1, <1>2 DEF Stages, Flying, QuotaType
    <2> QED BY <1>0, <1>1, <1>2, <2>1, StageMoves DEF Flying, Stages, Refusers
  <1>4. due' \in [Waiters -> Nat] /\ RestsUntilNoon'
    <2>1. CASE UNCHANGED due /\ to \in {"completed", "failed"}
      BY <1>1, <1>3, <2>1 DEF QuotaInv, QuotaType, RestsUntilNoon
    <2>2. ASSUME NEW until \in Nat, Bucket!Waits(t, to, until), to \in {"waiting", "resting"},
                 to = "resting" => until <= Bucket!NextNoon(time) /\ (t \notin Daily => until <= pause)
          PROVE  due' \in [Waiters -> Nat] /\ RestsUntilNoon'
      BY <1>1, <1>3, <2>2, WaitsSays
    <2> QED BY <1>2, <2>1, <2>2
  <1>5. IsFiniteSet(Flights') /\ Cardinality(Flights') <= Slots /\ RefusalsCounted'
    BY <1>0, <1>1, <1>3, FewerInFlight
  <1>6. QuotaType'
    <2>1. /\ reset' \in [Waiters -> Nat]
          /\ \A n \in Waiters : (reset'[n] = 0 \/ reset'[n] % 2 = 1) /\ reset'[n] <= Bucket!NextNoon(time')
      BY <1>0, <1>1 DEF QuotaType
    <2> QED BY <1>0, <1>1, <1>3, <1>4, <1>5, <2>1 DEF QuotaType
  <1>7. hasty' = {}
    BY DEF QuotaInv, Bucket!Permanent, Bucket!WaitForNoon, Bucket!CountFailure,
           Bucket!RetryFailed, Bucket!WaitForQuota, Bucket!Answered, Bucket!IsTaskComplete
  <1> QED BY <1>1, <1>4, <1>5, <1>6, <1>7 DEF QuotaInv

\* At noon the count begins anew and the pause ends; at midnight neither changes.
LEMMA HalfDayKeeps ==
  ASSUME QuotaInv, Bucket!Tick
  PROVE  QuotaInv'
  <1>0. QuotaType /\ RefusalsCounted /\ time \in Nat /\ pause \in Nat /\ limited \in Nat
        /\ stops \in [today : Nat, all : Nat]
    BY DEF QuotaInv, QuotaType
  <1>1. /\ time' = time + 1 /\ UNCHANGED <<pause, model, stage, reset, hasty>>
        /\ due' = [t \in Waiters |-> IF due[t] <= time + 1 THEN 0 ELSE due[t]]
        /\ IF time % 2 = 0 THEN limited' = 0 /\ stops' = [stops EXCEPT !.today = 0]
                           ELSE UNCHANGED <<limited, stops>>
    BY DEF Bucket!Tick
  <1>2. /\ Bucket!NextNoon(time') >= Bucket!NextNoon(time) /\ Bucket!NextNoon(time) \in Nat
        /\ Bucket!NextNoon(time') \in Nat
        /\ time % 2 = 0 => Bucket!NextNoon(time) = time + 1
    BY <1>0, <1>1, NoonFacts
  <1>3. /\ UNCHANGED <<Flights, FreeSent>> /\ Refusers' \subseteq Refusers
        /\ time % 2 # 0 => Refusers' = Refusers
    <2>1. \A t \in Waiters : reset[t] \in Nat /\ (reset[t] = 0 \/ reset[t] % 2 = 1)
      BY <1>0 DEF QuotaType
    <2>2. \A t \in Waiters : (time % 2 # 0 /\ reset[t] > time) => reset[t] > time + 1
      BY <1>0, <2>1
    <2> QED BY <1>0, <1>1, <2>1, <2>2 DEF Flights, FreeSent, Refusers
  <1>4. due' \in [Waiters -> Nat] /\ RestsUntilNoon'
    <2>1. due \in [Waiters -> Nat]
      BY <1>0 DEF QuotaType
    <2> QED BY <1>0, <1>1, <1>2, <2>1 DEF QuotaInv, RestsUntilNoon
  <1>5. pause' <= Bucket!NextNoon(time')
    BY <1>0, <1>1, <1>2 DEF QuotaInv
  <1>6. QuotaType'
    <2>1. limited' \in Nat /\ stops' \in [today : Nat, all : Nat]
      BY <1>0, <1>1
    <2>2. \A t \in Waiters : (reset'[t] = 0 \/ reset'[t] % 2 = 1) /\ reset'[t] <= Bucket!NextNoon(time')
      BY <1>0, <1>1, <1>2 DEF QuotaType
    <2> QED BY <1>0, <1>1, <1>3, <1>4, <2>1, <2>2 DEF QuotaType
  <1>7. RefusalsCounted'
    <2>1. CASE time % 2 = 0
      <3>1. limited' = 0 /\ pause' <= time' /\ Slots * stops'.today \in Nat
        <4>1. stops' = [stops EXCEPT !.today = 0] /\ limited' = 0
          BY <1>1, <2>1
        <4>2. stops'.today \in Nat /\ Slots \in Nat
          BY <1>0, <4>1, OwnerAssumption
        <4> QED BY <1>0, <1>1, <1>2, <2>1, <4>1, <4>2 DEF QuotaInv
      <3>2. Cardinality(Refusers') \in Nat
        BY <1>6, FlightFacts, FS_Subset, FS_CardinalityType, <1>0, <1>3
      <3> QED BY <1>0, <1>1, <3>1, <3>2 DEF RefusalsCounted
    <2>2. CASE time % 2 # 0
      <3>1. UNCHANGED <<limited, stops>>
        BY <1>1, <2>2
      <3>2. pause > time => pause > time'
        <4>1. pause = 0 \/ pause % 2 = 1
          BY <1>0 DEF QuotaType
        <4>2. time % 2 = 1
          BY <1>0, <2>2
        <4> QED BY <1>0, <1>1, <4>1, <4>2
      <3>3. pause <= time' => pause <= time
        BY <1>0, <1>1, <3>2
      <3> QED BY <1>0, <1>1, <1>3, <2>2, <3>1, <3>2, <3>3 DEF RefusalsCounted
    <2> QED BY <2>1, <2>2
  <1> QED BY <1>1, <1>4, <1>5, <1>6, <1>7 DEF QuotaInv

\* A restart cuts off what is in flight, and adds as many refusals as the slots.
LEMMA CutOffKeeps ==
  ASSUME QuotaInv, Bucket!Restart
  PROVE  QuotaInv'
  <1>0. QuotaType /\ RefusalsCounted /\ time \in Nat /\ pause \in Nat /\ limited \in Nat
        /\ stops \in [today : Nat, all : Nat]
    BY DEF QuotaInv, QuotaType
  <1>1. /\ stops' = [today |-> stops.today + 1, all |-> stops.all + 1]
        /\ stage' = [t \in Waiters |-> IF t \in Flights THEN "waiting" ELSE stage[t]]
        /\ due' = [t \in Waiters |-> IF t \in Flights THEN 0 ELSE due[t]]
        /\ reset' = [t \in Waiters |-> 0]
        /\ UNCHANGED <<time, pause, model, hasty, limited>>
    <2>1. Bucket!InFlight = Flights
      BY <1>0 DEF Bucket!InFlight, Bucket!Waiting, Flights, Flying, QuotaType, Stages
    <2> QED BY <2>1 DEF Bucket!Restart
  <1>2. Flights' = {} /\ FreeSent' = {} /\ Refusers' = {}
    BY <1>0, <1>1 DEF Flights, FreeSent, Refusers, Flying
  <1>3. /\ stage' \in [Waiters -> Stages] /\ due' \in [Waiters -> Nat] /\ RestsUntilNoon'
    BY <1>0, <1>1 DEF QuotaInv, QuotaType, Stages, RestsUntilNoon
  <1>4. IsFiniteSet({}) /\ Cardinality({}) = 0
    BY FS_EmptySet
  <1>5. stops'.today = stops.today + 1 /\ stops' \in [today : Nat, all : Nat]
    BY <1>0, <1>1
  <1>6. QuotaType'
    BY <1>0, <1>1, <1>2, <1>3, <1>4, <1>5, FlightFacts, NoonFacts DEF QuotaType
  <1>7. Slots * stops'.today = Slots * stops.today + Slots
    <2>1. Slots \in Nat /\ stops.today \in Nat
      BY <1>0, FlightFacts
    <2> QED BY <1>5, <2>1
  <1>8. RefusalsCounted'
    <2>1. pause <= time => limited <= Cardinality(Refusers) + Slots * stops.today
      BY <1>0 DEF RefusalsCounted
    <2>2. pause > time => limited + Cardinality(FreeSent) <= Slots * stops.today + Slots
      BY <1>0 DEF RefusalsCounted
    <2>3. limited <= Slots * stops.today + Slots
      BY <1>0, <2>1, <2>2, FlightFacts
    <2> QED BY <1>0, <1>1, <1>2, <1>4, <1>7, <2>3, FlightFacts DEF RefusalsCounted
  <1> QED BY <1>1, <1>3, <1>6, <1>8 DEF QuotaInv

\* The first day begins with nothing refused.
LEMMA QuotaInit == ASSUME Bucket!Init PROVE QuotaInv
  <1>1. /\ time = 0 /\ pause = 0 /\ limited = 0 /\ hasty = {}
        /\ stage = [t \in Waiters |-> "waiting"] /\ due = [t \in Waiters |-> 0]
        /\ stops = [today |-> 0, all |-> 0] /\ reset = [t \in Waiters |-> 0]
    BY DEF Bucket!Init
  <1>2. Flights = {} /\ FreeSent = {} /\ Refusers = {}
    BY <1>1 DEF Flights, FreeSent, Refusers, Flying
  <1>3. IsFiniteSet({}) /\ Cardinality({}) = 0
    BY FS_EmptySet
  <1>4. QuotaType
    BY <1>1, <1>2, <1>3, OwnerAssumption, NoonFacts DEF QuotaType, Stages
  <1>5. RefusalsCounted
    BY <1>1, <1>2, <1>3, <1>4, FlightFacts DEF RefusalsCounted
  <1>6. RestsUntilNoon /\ pause <= Bucket!NextNoon(time)
    BY <1>1, NoonFacts DEF RestsUntilNoon
  <1> QED BY <1>1, <1>4, <1>5, <1>6 DEF QuotaInv

\* Every step of DailyQuota keeps the invariant.
LEMMA QuotaStep == ASSUME QuotaInv, [Bucket!Next]_quota PROVE QuotaInv'
  <1>1. CASE Bucket!Exhaust \/ UNCHANGED quota
    <2>1. UNCHANGED <<time, pause, model, stage, due, reset, hasty, limited, stops>>
      BY <1>1 DEF Bucket!Exhaust, Bucket!rows, quota
    <2> QED BY <2>1 DEF QuotaInv, QuotaType, RefusalsCounted, RestsUntilNoon, Flights, FreeSent, Refusers
  <1> QED BY <1>1, FlightKeeps, PauseKeeps, EndsKeep, HalfDayKeeps, CutOffKeeps DEF Bucket!Next

\* From noon to noon as many free prompts are refused as there are slots, and once
\* more for each restart; nobody rests past the pause, a daily job not past its next
\* day; and a daily job ends only on a line that declares it.
THEOREM QuotaIsKept == AllSpec => []QuotaKept
  <1>1. AllInit => QuotaInv BY PartsStart, QuotaInit
  <1>2. QuotaInv /\ [AllNext]_allVars => QuotaInv' BY OneAtATime, QuotaStep
  <1>3. QuotaInv => QuotaKept
    <2> SUFFICES ASSUME QuotaInv PROVE QuotaKept
      OBVIOUS
    <2>0. QuotaType /\ RefusalsCounted
      BY DEF QuotaInv
    <2>1. limited <= Slots * stops.today + Slots
      <3>1. limited \in Nat /\ time \in Nat /\ pause \in Nat
        BY <2>0 DEF QuotaType
      <3>2. pause <= time => limited <= Cardinality(Refusers) + Slots * stops.today
        BY <2>0 DEF RefusalsCounted
      <3>3. pause > time => limited + Cardinality(FreeSent) <= Slots * stops.today + Slots
        BY <2>0 DEF RefusalsCounted
      <3> QED BY <2>0, <3>1, <3>2, <3>3, FlightFacts
    <2>2. Slots * (1 + stops.today) = Slots * stops.today + Slots
      <3>1. Slots \in Nat /\ stops.today \in Nat
        BY <2>0, FlightFacts DEF QuotaType
      <3> QED BY <3>1
    <2> QED
      BY <2>1, <2>2 DEF QuotaInv, RestsUntilNoon, QuotaKept, Bucket!QuotaKept,
                        Bucket!RefusedOnce, Bucket!ResumeWithPause, Bucket!EndsDeclared
  <1> QED BY <1>1, <1>2, <1>3, PTL DEF AllSpec
-----------------------------------------------------------------------------
(* TaskFiles.                                                              *)

Busy     == {"claimed", "begin", "prepare", "refuse", "turn", "sending"}
Cleaners == {"prepare", "refuse", "turn", "sending", "leaving"}
Rows     == Own!MayRun \cup {"unsent", "completed", "failed", "cancelled", "gone"}

\* The row is with one executor at most, and one that is at work has it running
\* unless it was cancelled.
OneAtWork ==
    /\ at \in [Executors -> Busy \cup {"idle", "leaving"}] /\ row \in Rows
    /\ \A e, f \in Executors : at[e] \in Busy /\ at[f] \in Busy => e = f
    /\ \A e \in Executors : at[e] = "claimed" => row \in {"leased", "cancelled", "gone"}
    /\ \A e \in Executors : at[e] \in Busy \ {"claimed"} => row \in {"running", "cancelled", "gone"}
    /\ row = "running" => \E e \in Executors : at[e] \in Busy
    /\ row = "unsent" => \A e \in Executors : at[e] = "idle"

\* Whoever is to delete the input of a task that has ended.
Answerable == \/ \E e \in Executors : at[e] \in Cleaners
              \/ stop.at = "clean" /\ stop.saw # "running"

InputHeld ==
    /\ fetch # "idle" => row = "unsent" /\ input = "part"
    /\ stop.at = "clean" => row \in {"cancelled", "gone"}
    /\ row \in Own!MayRun /\ forgiven = FALSE => input = "whole"
    /\ row \in {"cancelled", "completed", "failed", "gone"} /\ stray = FALSE =>
          input = "none" \/ Answerable

\* What is to be sent and what was sent is all there is.
OutputHeld ==
    /\ told = TRUE => row \in {"completed", "gone"} /\ \A e \in Executors : at[e] \notin Busy
    /\ \A e \in Executors : at[e] = "sending" /\ missed = FALSE => left \subseteq sent \cup todo
    /\ told = TRUE /\ missed = FALSE => left \subseteq sent

FilesType ==
    /\ told \in BOOLEAN /\ missed \in BOOLEAN /\ stray \in BOOLEAN /\ forgiven \in BOOLEAN
    /\ stop \in [at : {"idle", "looked", "clean"}, saw : Rows \cup {"none"}]

FilesInv == OneAtWork /\ InputHeld /\ OutputHeld /\ FilesType

\* There is nothing before the file comes.
LEMMA FilesInit == ASSUME Own!Init PROVE FilesInv
  BY DEF Own!Init, Own!Quiet, FilesInv, OneAtWork, InputHeld, OutputHeld, FilesType, Rows, Busy,
         Own!MayRun

\* While the file is fetched there is no row.
LEMMA FetchKeeps ==
  ASSUME FilesInv,
         \/ \E how \in {"copy", "endpoint", "cloud"} : Own!Fetch(how)
         \/ Own!Fetched \/ Own!TooLarge \/ Own!BreaksOff \/ Own!Enqueue
  PROVE  FilesInv'
  <1>1. /\ row = "unsent" /\ row' \in {"unsent", "queued"}
        /\ row' = "queued" => input' = "whole" /\ fetch' = "idle"
        /\ fetch' # "idle" => row' = "unsent" /\ input' = "part"
        /\ UNCHANGED <<at, left, todo, sent, told, missed, stop, forgiven>>
        /\ stray' \in BOOLEAN
    <2>1. fetch # "idle" => row = "unsent" /\ input = "part"
      BY DEF FilesInv, InputHeld
    <2>2. stray' \in BOOLEAN
      BY DEF Own!Fetch, Own!Fetched, Own!TooLarge, Own!BreaksOff, Own!Enqueue, Own!ghosts,
             FilesInv, FilesType
    <2>3. /\ row' \in {"unsent", "queued"}
          /\ row' = "queued" => input' = "whole"
          /\ UNCHANGED <<at, left, todo, sent, told, missed, stop, forgiven>>
          /\ row = "unsent"
      BY <2>1 DEF Own!Fetch, Own!Fetched, Own!TooLarge, Own!BreaksOff, Own!Enqueue, Own!outputs,
                  Own!ghosts
    <2>4. /\ row' = "queued" => fetch' = "idle"
          /\ fetch' # "idle" => row' = "unsent" /\ input' = "part"
      BY <2>1, <2>3 DEF Own!Fetch, Own!Fetched, Own!TooLarge, Own!BreaksOff, Own!Enqueue
    <2> QED BY <2>2, <2>3, <2>4
  <1>2. OneAtWork'
    BY <1>1 DEF FilesInv, OneAtWork, Rows, Own!MayRun
  <1>3. InputHeld' /\ OutputHeld' /\ FilesType'
    BY <1>1 DEF FilesInv, InputHeld, OutputHeld, FilesType, OneAtWork, Own!MayRun
  <1> QED BY <1>2, <1>3 DEF FilesInv

\* An executor that moves on, as the others see it.
LEMMA ExecutorMoves ==
  ASSUME FilesInv, NEW e \in Executors, NEW to \in Busy \cup {"idle", "leaving"}, Own!Goes(e, to)
  PROVE  /\ at' \in [Executors -> Busy \cup {"idle", "leaving"}] /\ at'[e] = to
         /\ \A f \in Executors \ {e} : at'[f] = at[f]
  BY DEF FilesInv, OneAtWork, Own!Goes

\* Taking the row up and preparing its work keep the invariant.
LEMMA BeginKeeps ==
  ASSUME FilesInv, NEW e \in Executors,
         Own!Claim(e) \/ Own!MarkRunning(e) \/ Own!Begin(e) \/ Own!Prepare(e)
  PROVE  FilesInv'
  <1> USE DEF Own!outputs, Own!ghosts
  <1>0. UNCHANGED <<fetch, input, left, todo, sent, told, missed, stop, forgiven, stray>>
    BY DEF Own!Claim, Own!MarkRunning, Own!Begin, Own!Prepare
  <1>1. CASE Own!Claim(e)
    <2>1. row \in {"queued", "retrying"} /\ row' = "leased" /\ Own!Goes(e, "claimed")
      BY <1>1 DEF Own!Claim
    <2>2. /\ at' \in [Executors -> Busy \cup {"idle", "leaving"}] /\ at'[e] = "claimed"
          /\ \A f \in Executors \ {e} : at'[f] = at[f]
      BY <2>1, ExecutorMoves DEF Busy
    <2>3. \A f \in Executors : at[f] \notin Busy
      BY <2>1 DEF FilesInv, OneAtWork
    <2>4. OneAtWork'
      BY <2>1, <2>2, <2>3 DEF OneAtWork, Rows, Own!MayRun
    <2>5. InputHeld'
      BY <1>0, <2>1 DEF FilesInv, InputHeld, Own!MayRun
    <2>6. OutputHeld'
      BY <1>0, <2>1, <2>2 DEF FilesInv, OutputHeld
    <2> QED BY <1>0, <2>4, <2>5, <2>6 DEF FilesInv, FilesType
  <1>2. CASE Own!MarkRunning(e)
    <2>1. /\ at[e] = "claimed"
          /\ \/ row = "leased" /\ row' = "running" /\ Own!Goes(e, "begin")
             \/ row # "leased" /\ row' = row /\ Own!Goes(e, "idle")
      BY <1>2 DEF Own!MarkRunning
    <2>2. /\ at' \in [Executors -> Busy \cup {"idle", "leaving"}] /\ at'[e] \in {"begin", "idle"}
          /\ at'[e] = "begin" => row = "leased" /\ row' = "running"
          /\ at'[e] = "idle" => row' = row /\ row \in {"cancelled", "gone"}
          /\ \A f \in Executors \ {e} : at'[f] = at[f] /\ at[f] \notin Busy
      BY <2>1, ExecutorMoves DEF Busy, FilesInv, OneAtWork
    <2>4. OneAtWork'
      BY <2>1, <2>2 DEF FilesInv, OneAtWork, Rows, Own!MayRun, Busy
    <2>5. InputHeld'
      BY <1>0, <2>1, <2>2 DEF FilesInv, InputHeld, Own!MayRun, Answerable, Cleaners
    <2>6. OutputHeld'
      BY <1>0, <2>1, <2>2 DEF FilesInv, OutputHeld, Busy
    <2> QED BY <1>0, <2>4, <2>5, <2>6 DEF FilesInv, FilesType
  <1>3. CASE Own!Begin(e) \/ Own!Prepare(e)
    <2>1. PICK to \in {"idle", "prepare", "turn", "refuse"} :
             /\ Own!Goes(e, to) /\ row' = row /\ at[e] \in {"begin", "prepare"}
             /\ to = "idle" => at[e] = "begin" /\ row \in {"cancelled", "gone"}
      BY <1>3 DEF Own!Begin, Own!Prepare, Own!Stopped
    <2>2. /\ at' \in [Executors -> Busy \cup {"idle", "leaving"}] /\ at'[e] = to
          /\ \A f \in Executors \ {e} : at'[f] = at[f]
      BY <2>1, ExecutorMoves DEF Busy
    <2>4. OneAtWork'
      BY <2>1, <2>2 DEF FilesInv, OneAtWork, Busy
    <2>5. InputHeld'
      BY <1>0, <2>1, <2>2 DEF FilesInv, InputHeld, Answerable, Cleaners
    <2>6. OutputHeld'
      BY <1>0, <2>1, <2>2 DEF FilesInv, OutputHeld, Busy
    <2> QED BY <1>0, <2>4, <2>5, <2>6 DEF FilesInv, FilesType
  <1> QED BY <1>1, <1>2, <1>3

\* So do the agent's turn and what ends it.
LEMMA TurnKeeps ==
  ASSUME FilesInv, NEW e \in Executors,
         \/ Own!Defer(e) \/ Own!Fail(e) \/ Own!Complete(e) \/ Own!Leave(e)
  PROVE  FilesInv'
  <1> USE DEF Own!outputs, Own!ghosts
  <1>1. CASE Own!Defer(e) \/ Own!Fail(e) \/ Own!Complete(e)
    <2>0. /\ UNCHANGED <<fetch, input, left, todo, sent, missed, stop, forgiven, stray>>
          /\ at[e] \in {"refuse", "turn", "sending"} /\ Own!Goes(e, "leaving")
          /\ row \in {"running", "cancelled", "gone"}
      BY <1>1 DEF Own!Defer, Own!Fail, Own!Complete, Own!Finish, FilesInv, OneAtWork, Busy
    <2>1. /\ row \in {"cancelled", "gone"} => row' = row
          /\ row = "running" => row' \in {"retrying", "completed", "failed", "gone"}
      BY <1>1, <2>0 DEF Own!Defer, Own!Fail, Own!Complete, Own!Finish, Own!Stopped
    <2>2. /\ at' \in [Executors -> Busy \cup {"idle", "leaving"}] /\ at'[e] = "leaving"
          /\ \A f \in Executors \ {e} : at'[f] = at[f] /\ at[f] \notin Busy
      BY <2>0, ExecutorMoves DEF Busy, FilesInv, OneAtWork
    <2>3. OneAtWork'
      BY <2>0, <2>1, <2>2 DEF FilesInv, OneAtWork, Rows, Own!MayRun, Busy
    <2>4. InputHeld'
      BY <2>0, <2>1, <2>2 DEF FilesInv, InputHeld, Own!MayRun, Answerable, Cleaners
    <2>5. OutputHeld' /\ told' \in BOOLEAN
      <3>1. CASE Own!Defer(e) \/ Own!Fail(e)
        <4>1. told' = told /\ told # TRUE
          BY <2>0, <3>1 DEF Own!Defer, Own!Fail, FilesInv, OutputHeld, Busy
        <4> QED BY <2>0, <2>2, <4>1 DEF FilesInv, FilesType, OutputHeld, Busy
      <3>2. CASE Own!Complete(e)
        <4>1. /\ at[e] = "sending" /\ todo = {} /\ told' \in BOOLEAN
              /\ told' = TRUE => row = "running" /\ row' \in {"completed", "gone"}
          BY <2>0, <3>2 DEF Own!Complete, Own!Finish, Own!Stopped
        <4> QED BY <2>0, <2>2, <4>1 DEF FilesInv, OutputHeld, Busy
      <3> QED BY <1>1, <3>1, <3>2
    <2> QED BY <2>0, <2>3, <2>4, <2>5 DEF FilesInv, FilesType
  <1>2. CASE Own!Leave(e)
    <2>1. /\ at[e] = "leaving" /\ Own!Goes(e, "idle")
          /\ row \in Own!MayRun => input' = input
          /\ row \notin Own!MayRun => input' = "none"
          /\ UNCHANGED <<row, fetch, left, todo, sent, told, missed, stop, forgiven, stray>>
      BY <1>2 DEF Own!Leave
    <2>2. /\ at' \in [Executors -> Busy \cup {"idle", "leaving"}] /\ at'[e] = "idle"
          /\ \A f \in Executors \ {e} : at'[f] = at[f]
      BY <2>1, ExecutorMoves
    <2>3. OneAtWork'
      BY <2>1, <2>2 DEF FilesInv, OneAtWork, Busy
    <2>4. InputHeld'
      BY <2>1, <2>2 DEF FilesInv, OneAtWork, InputHeld, Own!MayRun, Answerable, Cleaners
    <2>5. OutputHeld'
      BY <2>1, <2>2 DEF FilesInv, OutputHeld, Busy
    <2> QED BY <2>1, <2>3, <2>4, <2>5 DEF FilesInv, FilesType
  <1> QED BY <1>1, <1>2

\* The outputs of the turn are collected and sent one by one.
LEMMA OutputKeeps ==
  ASSUME FilesInv, NEW e \in Executors,
         Own!Collect(e) \/ (\E name \in Written : Own!AgentLeaves(e, name) \/ Own!Send(e, name))
  PROVE  FilesInv'
  <1> USE DEF Own!outputs, Own!ghosts
  <1>0. /\ UNCHANGED <<fetch, input, row, told, stop, forgiven, stray>> /\ told # TRUE
        /\ at[e] \in {"turn", "sending"}
    BY DEF Own!Collect, Own!AgentLeaves, Own!Send, FilesInv, OutputHeld, Busy
  <1>1. CASE Own!Collect(e)
    <2>1. PICK to \in {"leaving", "sending"} :
             /\ Own!Goes(e, to) /\ missed' \in BOOLEAN /\ UNCHANGED <<left, sent>>
             /\ to = "leaving" => row # "running" /\ UNCHANGED <<todo, missed>>
             /\ to = "sending" => todo' = Own!FirstOf(left) /\ missed' = (Own!FirstOf(left) # left)
      BY <1>1 DEF Own!Collect, Own!Stopped, FilesInv, FilesType
    <2>2. /\ at' \in [Executors -> Busy \cup {"idle", "leaving"}] /\ at'[e] = to
          /\ \A f \in Executors \ {e} : at'[f] = at[f] /\ at[f] \notin Busy
      BY <1>0, <2>1, ExecutorMoves DEF Busy, FilesInv, OneAtWork
    <2>3. OneAtWork'
      BY <1>0, <2>1, <2>2 DEF FilesInv, OneAtWork, Busy
    <2>4. InputHeld'
      BY <1>0, <2>1, <2>2 DEF FilesInv, InputHeld, Answerable, Cleaners
    <2>5. to = "sending" /\ missed' = FALSE => todo' = left
      BY <2>1
    <2>6. OutputHeld'
      BY <1>0, <2>1, <2>2, <2>5 DEF FilesInv, OutputHeld, Busy
    <2> QED BY <1>0, <2>1, <2>3, <2>4, <2>6 DEF FilesInv, FilesType
  <1>2. ASSUME NEW name \in Written, Own!AgentLeaves(e, name) \/ Own!Send(e, name)
        PROVE  FilesInv'
    <2>1. UNCHANGED at /\ missed' \in BOOLEAN
      BY <1>2 DEF Own!AgentLeaves, Own!Send, FilesInv, FilesType
    <2>2. OneAtWork' /\ InputHeld'
      BY <1>0, <2>1 DEF FilesInv, OneAtWork, InputHeld, Answerable
    <2>3. OutputHeld'
      <3>1. CASE Own!AgentLeaves(e, name)
        BY <1>0, <2>1, <3>1 DEF Own!AgentLeaves, FilesInv, OneAtWork, OutputHeld, Busy
      <3>2. CASE Own!Send(e, name)
        <4>1. /\ left' = left /\ todo' = todo \ {name}
              /\ \/ sent' = sent \cup {name} /\ missed' = missed
                 \/ missed' = TRUE
          BY <3>2 DEF Own!Send
        <4> QED BY <1>0, <2>1, <4>1 DEF FilesInv, OutputHeld
      <3> QED BY <1>2, <3>1, <3>2
    <2> QED BY <1>0, <2>1, <2>2, <2>3 DEF FilesInv, FilesType
  <1> QED BY <1>1, <1>2

\* The owner's commands make the row end with somebody to delete its files, or a
\* stray is noted.
LEMMA OwnerKeeps ==
  ASSUME FilesInv,
         \/ Own!Look \/ Own!CancelRow \/ Own!CleanUp \/ Own!AbortLost \/ Own!AbortRunning
         \/ Own!Remove \/ Own!RetryFailed
  PROVE  FilesInv'
  <1> USE DEF Own!outputs, Own!ghosts, Own!Quiet
  <1>0. UNCHANGED <<at, fetch, left, todo, sent, told, missed>>
    BY DEF Own!Look, Own!CancelRow, Own!CleanUp, Own!AbortLost, Own!AbortRunning, Own!Remove,
           Own!RetryFailed
  <1>1. CASE Own!Look
    BY <1>0, <1>1 DEF Own!Look, FilesInv, OneAtWork, InputHeld, OutputHeld, FilesType, Answerable
  <1>2. CASE Own!CancelRow
    <2>1. UNCHANGED <<input, forgiven>> /\ stop.at = "looked"
      BY <1>2 DEF Own!CancelRow
    <2>2. CASE row \in Own!MayRun
      <3>1. /\ row' \in {"cancelled", "gone"} /\ stop'.saw = stop.saw
            /\ stop' = [stop EXCEPT !.at = "clean"]
            /\ stray' = (stray \/ (stop.saw = "running" /\ ~Own!Attended))
        BY <1>2, <2>2 DEF Own!CancelRow, Own!Ended, FilesInv, FilesType
      <3>2. stray' \in BOOLEAN /\ (stray' = FALSE => stop.saw # "running" \/ Own!Attended)
        BY <3>1 DEF FilesInv, FilesType
      <3>3. OneAtWork'
        BY <1>0, <2>2, <3>1 DEF FilesInv, OneAtWork, Rows, Own!MayRun
      <3>4. InputHeld'
        BY <1>0, <2>1, <2>2, <3>1, <3>2
           DEF FilesInv, InputHeld, Own!MayRun, Answerable, Own!Attended, Own!Cleans, Cleaners
      <3>5. OutputHeld'
        BY <1>0, <2>2, <3>1 DEF FilesInv, OutputHeld, Own!MayRun
      <3>6. FilesType'
        BY <1>0, <2>1, <3>1, <3>2 DEF FilesInv, FilesType
      <3> QED BY <3>3, <3>4, <3>5, <3>6 DEF FilesInv
    <2>3. CASE row \notin Own!MayRun
      BY <1>0, <1>2, <2>1, <2>3
         DEF Own!CancelRow, FilesInv, OneAtWork, InputHeld, OutputHeld, FilesType, Answerable
    <2> QED BY <2>2, <2>3
  <1>3. CASE Own!CleanUp \/ Own!AbortLost
    <2>1. /\ row' = row /\ row \in {"cancelled", "gone"} /\ stop' = Own!Quiet
          /\ UNCHANGED forgiven /\ stray' \in BOOLEAN
          /\ input' = input \/ input' = "none"
          /\ stray' = FALSE => stray = FALSE /\ (stop.saw = "running" \/ input' = "none")
      BY <1>3 DEF Own!CleanUp, Own!AbortLost, FilesInv, FilesType, InputHeld
    <2>2. OneAtWork' /\ OutputHeld' /\ FilesType'
      BY <1>0, <2>1 DEF FilesInv, OneAtWork, OutputHeld, FilesType
    <2>3. InputHeld'
      BY <1>0, <2>1 DEF FilesInv, InputHeld, Own!MayRun, Answerable
    <2> QED BY <2>2, <2>3 DEF FilesInv
  <1>4. CASE Own!AbortRunning \/ Own!Remove
    <2>1. /\ row' \in {"cancelled", "gone"} /\ UNCHANGED <<input, forgiven>>
          /\ row = "completed" => row' = "gone"
          /\ row \notin {"unsent", "gone"}
      BY <1>4 DEF Own!AbortRunning, Own!Remove, Own!Ended
    <2>5. /\ stray' \in BOOLEAN
          /\ stray' = FALSE => stray = FALSE /\ (Own!Attended \/ (stop'.at = "clean" /\ stop'.saw # "running"))
      <3>1. CASE Own!AbortRunning
        BY <3>1 DEF Own!AbortRunning, FilesInv, FilesType
      <3>2. CASE Own!Remove
        BY <3>2 DEF Own!Remove, FilesInv, FilesType
      <3> QED BY <1>4, <3>1, <3>2
    <2>6. /\ stop' \in [at : {"idle", "looked", "clean"}, saw : Rows \cup {"none"}]
          /\ stop'.at = "clean" => row' \in {"cancelled", "gone"}
      BY <1>4, <2>1 DEF Own!AbortRunning, Own!Remove, FilesInv, FilesType
    <2>2. OneAtWork'
      BY <1>0, <1>4, <2>1 DEF Own!AbortRunning, Own!Remove, FilesInv, OneAtWork, Rows, Busy
    <2>3. OutputHeld' /\ FilesType'
      BY <1>0, <2>1, <2>5, <2>6 DEF FilesInv, OutputHeld, FilesType
    <2>4. InputHeld'
      BY <1>0, <2>1, <2>5, <2>6
         DEF FilesInv, InputHeld, Own!MayRun, Answerable, Own!Attended, Own!Cleans, Cleaners
    <2> QED BY <2>2, <2>3, <2>4 DEF FilesInv
  <1>5. CASE Own!RetryFailed
    BY <1>0, <1>5
       DEF Own!RetryFailed, FilesInv, OneAtWork, InputHeld, OutputHeld, FilesType, Own!MayRun, Rows
  <1> QED BY <1>1, <1>2, <1>3, <1>4, <1>5

\* A restart leaves nobody at work, and notes a stray where somebody had to clean.
LEMMA RestartKeepsFiles == ASSUME FilesInv, Own!Restart PROVE FilesInv'
  <1> USE DEF Own!outputs, Own!ghosts, Own!Quiet
  <1>1. /\ at' = [e \in Executors |-> "idle"] /\ fetch' = "idle" /\ stop' = Own!Quiet
        /\ UNCHANGED <<input, left, sent, told, missed, forgiven>>
        /\ row \in {"leased", "running"} => row' \in {"queued", "gone"} /\ (row = "leased" => row' = "queued")
        /\ row \notin {"leased", "running"} => row' = row
    BY DEF Own!Restart
  <1>2. /\ stray' \in BOOLEAN
        /\ stray' = FALSE =>
              /\ stray = FALSE /\ stop = Own!Quiet
              /\ row' \notin Own!MayRun => \A e \in Executors : at[e] = "idle"
    BY DEF Own!Restart, FilesInv, FilesType
  <1>3. row = "running" /\ row' = "gone" => stray' # FALSE
    BY <1>2 DEF FilesInv, OneAtWork, Busy, Own!MayRun
  <1>4. OneAtWork'
    BY <1>1 DEF FilesInv, OneAtWork, Rows, Own!MayRun, Busy
  <1>5. OutputHeld'
    BY <1>1 DEF FilesInv, OutputHeld, Busy
  <1>6. InputHeld'
    BY <1>1, <1>2, <1>3 DEF FilesInv, InputHeld, Own!MayRun, Answerable, Cleaners
  <1> QED BY <1>1, <1>2, <1>4, <1>5, <1>6 DEF FilesInv, FilesType

\* Every step of TaskFiles keeps the invariant.
LEMMA FilesStep == ASSUME FilesInv, [Own!Next]_files PROVE FilesInv'
  <1>1. CASE UNCHANGED files
    BY <1>1 DEF files, FilesInv, OneAtWork, InputHeld, OutputHeld, FilesType, Answerable
  <1> QED BY <1>1, FetchKeeps, BeginKeeps, TurnKeeps, OutputKeeps, OwnerKeeps, RestartKeepsFiles
          DEF Own!Next

\* A task has its files as long as it may run and no longer, and what the agent
\* leaves is sent before it is told complete.
THEOREM FilesFollowTheirTask == AllSpec => []FilesFollowTask
  <1>1. AllInit => FilesInv BY PartsStart, FilesInit
  <1>2. FilesInv /\ [AllNext]_allVars => FilesInv' BY OneAtATime, FilesStep
  <1>3. FilesInv => FilesFollowTask
    BY DEF FilesInv, InputHeld, OutputHeld, FilesType, Answerable, Cleaners, FilesFollowTask,
           Own!FilesFollowTask, Own!InputsKept, Own!InputsGo, Own!OutputsSent, Own!Quiet
  <1> QED BY <1>1, <1>2, <1>3, PTL DEF AllSpec
-----------------------------------------------------------------------------
(* Questions.                                                              *)

\* An answer reaches the agent once, with what the card then shows.
LEMMA SendTellsTrue ==
  ASSUME CardsTellTrue, NEW answers, NEW taps, NEW shows \in {"answered", "typed"},
         Interactions!Send(answers, taps, shows), card \in {"open", "stale"},
         shows = "answered" => answers = taps /\ Interactions!Complete(taps)
  PROVE  /\ card' = "answered" => agent' = "answered" /\ got' = chosen' /\ Interactions!Complete(got')
         /\ card' # "rejected"
  BY DEF Interactions!Send, Interactions!Accepted

\* Every step of Questions keeps the cards true.
LEMMA QuestionsStep == ASSUME CardsTellTrue, [Interactions!Next]_questions PROVE CardsTellTrue'
  <1> USE DEF CardsTellTrue, Interactions!CardsTellTrue, Interactions!Complete, Interactions!Open,
              Interactions!Decisions
  <1>1. CASE UNCHANGED questions
    BY <1>1 DEF questions
  <1>2. CASE \/ Interactions!Ask \/ Interactions!Post \/ Interactions!Remember \/ Interactions!Stale
             \/ Interactions!ToggleText
    BY <1>2 DEF Interactions!Ask, Interactions!Post, Interactions!Remember, Interactions!Stale,
                Interactions!ToggleText, Interactions!Tappable
  <1>3. ASSUME NEW q \in Posed, NEW l \in Labels, Interactions!Tap(q, l) PROVE CardsTellTrue'
    <2>1. card = "open" /\ UNCHANGED <<permission, decided>>
      BY <1>3 DEF Interactions!Tap
    <2>2. CASE Interactions!Send(Interactions!Tapped(q, l), Interactions!Tapped(q, l), "answered")
               /\ Interactions!Complete(Interactions!Tapped(q, l))
      BY <2>1, <2>2, SendTellsTrue
    <2>3. CASE UNCHANGED <<agent, got, card>>
      BY <2>1, <2>3
    <2> QED BY <1>3, <2>2, <2>3 DEF Interactions!Tap
  <1>4. CASE Interactions!Confirm
    BY <1>4, SendTellsTrue DEF Interactions!Confirm
  <1>5. CASE Interactions!Reply
    BY <1>5, SendTellsTrue DEF Interactions!Reply
  <1>6. CASE Interactions!Reject
    BY <1>6 DEF Interactions!Reject
  <1>7. ASSUME NEW d \in Interactions!Decisions, Interactions!Decide(d) PROVE CardsTellTrue'
    BY <1>7 DEF Interactions!Decide, Interactions!question
  <1>8. CASE Interactions!AskPermission
    BY <1>8 DEF Interactions!AskPermission, Interactions!question
  <1>9. CASE Interactions!GiveUp \/ Interactions!Forget
    BY <1>9 DEF Interactions!GiveUp, Interactions!Forget
  <1> QED BY <1>1, <1>2, <1>3, <1>4, <1>5, <1>6, <1>7, <1>8, <1>9 DEF Interactions!Next

\* A card says what the agent was told, and no more.
THEOREM CardsAlwaysTellTrue == AllSpec => []CardsTellTrue
  <1>1. AllInit => CardsTellTrue
    BY PartsStart DEF Interactions!Init, CardsTellTrue, Interactions!CardsTellTrue,
                      Interactions!Decisions
  <1>2. CardsTellTrue /\ [AllNext]_allVars => CardsTellTrue' BY OneAtATime, QuestionsStep
  <1> QED BY <1>1, <1>2, PTL DEF AllSpec
-----------------------------------------------------------------------------
(* Panel.                                                                  *)

ConfirmationsInv == done \in Nat /\ asked \in Nat /\ ConfirmedOnce

\* No button's confirmation is the one that is there when none was asked.
LEMMA NoneIsNotConfirmable ==
  ASSUME NEW c \in Chat!Confirmable
  PROVE  c # Chat!NoConfirm
  <1>1. c.kind \in Lists \cup {"task", "cancel", "schedule", "new", "tool", "host", "update"}
    BY DEF Chat!Confirmable, Chat!AgentButtons, Chat!TaskButtons, Chat!ScheduleButtons, Chat!ListButtons,
           Chat!ToolButtons, Chat!HostButtons, Chat!UpdateButtons, Chat!Button
  <1>2. "none" \notin Lists
    BY OwnerAssumption
  <1> QED BY <1>1, <1>2 DEF Chat!NoConfirm

\* Every step of the panel keeps the count of confirmations.
LEMMA PanelStep == ASSUME ConfirmationsInv, [Chat!Next]_panel PROVE ConfirmationsInv'
  <1> USE DEF ConfirmationsInv, ConfirmedOnce, Chat!ConfirmedOnce
  <1>1. CASE Chat!Confirm
    BY <1>1, NoneIsNotConfirmable DEF Chat!Confirm
  <1>2. CASE Chat!Execute
    <2>1. /\ confirm' = Chat!NoConfirm /\ asked' = asked
          /\ done' = done \/ (done' = done + 1 /\ confirm # Chat!NoConfirm)
      BY <1>2, NoneIsNotConfirmable DEF Chat!Execute
    <2> QED BY <2>1
  <1>3. CASE Chat!Restart
    BY <1>3 DEF Chat!Restart
  <1>4. CASE UNCHANGED <<done, asked, confirm>>
    BY <1>4
  <1> QED
    BY <1>1, <1>2, <1>3, <1>4
       DEF Chat!Next, panel, Chat!AskEdit, Chat!AskPlain, Chat!AskArguments, Chat!AskWizard,
           Chat!AskHostWizard, Chat!Menu, Chat!AnswerWizard, Chat!AnswerEdit, Chat!AnswerOther,
           Chat!Retry, Chat!EntryAdded, Chat!TaskMoves, Chat!ListChanges

\* An operation runs at most once for each confirmation asked.
THEOREM EachIsConfirmedOnce == AllSpec => []ConfirmedOnce
  <1>1. AllInit => ConfirmationsInv
    BY PartsStart DEF Chat!Init, ConfirmationsInv, ConfirmedOnce, Chat!ConfirmedOnce
  <1>2. ConfirmationsInv /\ [AllNext]_allVars => ConfirmationsInv' BY OneAtATime, PanelStep
  <1>3. ConfirmationsInv => ConfirmedOnce BY DEF ConfirmationsInv
  <1> QED BY <1>1, <1>2, <1>3, PTL DEF AllSpec
-----------------------------------------------------------------------------
(* Progress.                                                               *)

\* Once the executor has written the answer, only a reader that is still to be stopped,
\* and writes when it is, can have more, or one that was cut off.
TrailInv ==
    /\ {trail, saved, answered} \subseteq Nat
    /\ turn \in {"begin", "working", "after", "closing", "left"}
    /\ reader \in {"off", "reading", "leaving", "stopped", "cut"}
    /\ answered <= saved /\ saved <= trail
    /\ turn \in {"begin", "working"} => answered = 0 /\ reader # "cut"
    /\ turn \in {"closing", "left"} => reader # "reading"
    /\ turn = "left" => reader # "leaving"
    /\ answered > 0 /\ reader \in {"off", "stopped"} => saved = trail

\* Every step of Progress keeps the trail.
LEMMA ProgressStep == ASSUME TrailInv, [Status!Next]_progress PROVE TrailInv'
  <1> USE DEF TrailInv
  <1>1. CASE Status!Start
    BY <1>1 DEF Status!Start, Status!Persist, Status!commands
  <1>2. ASSUME NEW force \in BOOLEAN, Status!Milestone(force) PROVE TrailInv'
    BY <1>2 DEF Status!Milestone, Status!Persist, Status!commands
  <1>3. CASE Status!Listen
    BY <1>3 DEF Status!Listen, Status!Persist, Status!commands
  <1>4. CASE Status!Finalize
    BY <1>4 DEF Status!Finalize, Status!Persist, Status!commands
  <1>5. CASE Status!Cancel \/ Status!Leave \/ Status!Defer
    BY <1>5 DEF Status!Cancel, Status!Leave, Status!Defer, Status!commands
  <1>12. CASE Status!CutOff
    BY <1>12 DEF Status!CutOff, Status!commands
  <1>6. CASE Status!Event
    BY <1>6 DEF Status!Event, Status!Persist, Status!commands
  <1>13. CASE Status!Chunk \/ Status!Edited \/ Status!Flush \/ Status!TimePasses
    <2>1. UNCHANGED <<turn, reader, trail, saved, answered>>
      BY <1>13, Zenon DEF Status!Chunk, Status!Edited, Status!Flush, Status!TimePasses, Status!commands
    <2> QED BY <2>1
  <1>7. CASE Status!StreamEnds
    BY <1>7 DEF Status!StreamEnds, Status!Persist, Status!commands
  <1>8. CASE Status!Stop
    BY <1>8 DEF Status!Stop, Status!Persist, Status!commands
  <1>9. CASE Status!LookForPlace \/ Status!TellPlace
    BY <1>9 DEF Status!LookForPlace, Status!TellPlace, Status!commands
  <1>10. CASE Status!OwnerCancels
    BY <1>10 DEF Status!OwnerCancels, Status!Persist, Status!commands
  <1>11. CASE UNCHANGED progress
    BY <1>11 DEF progress
  <1> QED BY <1>1, <1>2, <1>3, <1>4, <1>5, <1>6, <1>7, <1>8, <1>9, <1>10, <1>11, <1>12, <1>13 DEF Status!Next

\* What was recorded of a turn is kept when it ends, but for what the reader adds after
\* the answer when its last write is cut off.
THEOREM TrailIsKept == AllSpec => []TrailKept
  <1>1. AllInit => TrailInv BY PartsStart DEF Status!Init, TrailInv
  <1>2. TrailInv /\ [AllNext]_allVars => TrailInv' BY OneAtATime, ProgressStep
  <1>3. TrailInv => TrailKept BY DEF TrailInv, TrailKept, Status!TrailKept
  <1> QED BY <1>1, <1>2, <1>3, PTL DEF AllSpec
-----------------------------------------------------------------------------
(* Intake.                                                                 *)

Steps   == {"idle", "debounce", "stage", "pop", "enqueue", "restore", "take", "take direct", "insert"}
Doings  == [at : Steps, by : Texts \cup {0}, new : SUBSET Files, taken : SUBSET Files]
Batches == [files : SUBSET Files, old : BOOLEAN]
Gathers == [files : SUBSET Files, caption : BOOLEAN]

IntakeType == job \in [Incoming!Jobs -> Doings] /\ pending \in Batches /\ album \in Gathers

\* What the stored batch, the album, a job and a task have is on disk.
HeldOnDisk ==
    /\ \A f \in pending.files : f \in disk
    /\ \A f \in album.files : f \in disk
    /\ \A j \in Incoming!Jobs : \A f \in job[j].new : f \in disk
    /\ \A j \in Incoming!Jobs : \A f \in job[j].taken : f \in disk
    /\ \A t \in made : \A f \in t.files : f \in disk

\* No file is with two of them.
NotShared ==
    /\ \A f \in pending.files : f \notin album.files
    /\ \A j \in Incoming!Jobs : \A f \in job[j].new :
          f \notin pending.files /\ f \notin album.files /\ f \notin job[j].taken
    /\ \A j \in Incoming!Jobs : \A f \in job[j].taken : f \notin pending.files /\ f \notin album.files
    /\ \A j, k \in Incoming!Jobs : j # k => \A f \in job[j].new \cup job[j].taken :
                                              f \notin job[k].new /\ f \notin job[k].taken
    /\ \A t \in made : \A f \in t.files :
          /\ f \notin pending.files /\ f \notin album.files
          /\ \A j \in Incoming!Jobs : f \notin job[j].new /\ f \notin job[j].taken
    /\ \A t, u \in made : t # u => \A f \in t.files : f \notin u.files

Apart == HeldOnDisk /\ NotShared

IntakeInv == IntakeType /\ Apart /\ Incoming!PromptOnce

\* One job takes up, passes on or loses files; what it and the stored batch have
\* between them afterwards they had before, and what is deleted is nobody's.
LEMMA JobPassesOn ==
  ASSUME IntakeType, Apart, NEW j \in Incoming!Jobs,
         \A k \in Incoming!Jobs \ {j} : job'[k] = job[k],
         album' = album, made' = made,
         \A f \in pending'.files \cup job'[j].new \cup job'[j].taken :
            f \in pending.files \/ f \in job[j].new \/ f \in job[j].taken,
         \A f \in pending'.files : f \notin job'[j].new /\ f \notin job'[j].taken,
         \A f \in job'[j].new : f \notin job'[j].taken,
         \A f \in disk : f \in disk' \/
            /\ f \in pending.files \/ f \in job[j].new \/ f \in job[j].taken
            /\ f \notin pending'.files /\ f \notin job'[j].new /\ f \notin job'[j].taken
  PROVE  Apart'
  <1>1. HeldOnDisk'
    BY DEF Apart, HeldOnDisk, NotShared
  <1>2. NotShared'
    BY DEF Apart, HeldOnDisk, NotShared
  <1> QED BY <1>1, <1>2 DEF Apart

\* What a job has are files.
LEMMA JobsFiles ==
  ASSUME IntakeType, NEW j \in Incoming!Jobs
  PROVE  job[j].by \in Texts \cup {0} /\ job[j].new \in SUBSET Files /\ job[j].taken \in SUBSET Files
  BY DEF IntakeType, Doings

\* A job that ends has nothing.
LEMMA JobEnds ==
  ASSUME IntakeType, NEW j \in Incoming!Jobs, Incoming!Ends(j)
  PROVE  /\ job' \in [Incoming!Jobs -> Doings]
         /\ job'[j].new = {} /\ job'[j].taken = {}
         /\ \A k \in Incoming!Jobs \ {j} : job'[k] = job[k]
  <1>1. Incoming!Resting \in Doings /\ Incoming!Resting.new = {} /\ Incoming!Resting.taken = {}
    BY DEF Incoming!Resting, Doings, Steps
  <1> QED BY <1>1 DEF Incoming!Ends, IntakeType

\* A job that goes on with other files.
LEMMA JobGoesOn ==
  ASSUME IntakeType, NEW j \in Incoming!Jobs, NEW to \in Steps,
         NEW n \in SUBSET Files, NEW x \in SUBSET Files, Incoming!GoesWith(j, to, n, x)
  PROVE  /\ job' \in [Incoming!Jobs -> Doings]
         /\ job'[j].new = n /\ job'[j].taken = x
         /\ \A k \in Incoming!Jobs \ {j} : job'[k] = job[k]
  <1> DEFINE does == [at |-> to, by |-> job[j].by, new |-> n, taken |-> x]
  <1>1. does \in Doings /\ does.new = n /\ does.taken = x
    BY JobsFiles DEF Doings
  <1>2. job' = [job EXCEPT ![j] = does]
    BY DEF Incoming!GoesWith
  <1> HIDE DEF does
  <1> QED BY <1>1, <1>2 DEF IntakeType

\* Passing the job's files on, the form every job's step has.
LEMMA PassesKeeps ==
  ASSUME IntakeInv, NEW j \in Incoming!Jobs,
         job' \in [Incoming!Jobs -> Doings], pending' \in Batches,
         album' = album, made' = made,
         \A k \in Incoming!Jobs \ {j} : job'[k] = job[k],
         \A f \in pending'.files \cup job'[j].new \cup job'[j].taken :
            f \in pending.files \/ f \in job[j].new \/ f \in job[j].taken,
         \A f \in pending'.files : f \notin job'[j].new /\ f \notin job'[j].taken,
         \A f \in job'[j].new : f \notin job'[j].taken,
         \A f \in disk : f \in disk' \/
            /\ f \in pending.files \/ f \in job[j].new \/ f \in job[j].taken
            /\ f \notin pending'.files /\ f \notin job'[j].new /\ f \notin job'[j].taken
  PROVE  IntakeInv'
  <1>1. Apart'
    BY JobPassesOn DEF IntakeInv
  <1> QED BY <1>1 DEF IntakeInv, IntakeType, Incoming!PromptOnce

\* Files join those that wait, or are refused.
LEMMA StageKeeps == ASSUME IntakeInv, NEW j \in Incoming!Jobs, Incoming!Stage(j) PROVE IntakeInv'
  <1> DEFINE waiting == IF pending.old THEN {} ELSE pending.files
             merged  == waiting \cup job[j].new
  <1>1. /\ Incoming!Ends(j) /\ album' = album /\ made' = made
        /\ \/ pending' = [files |-> merged, old |-> FALSE] /\ disk' = disk \ (pending.files \ waiting)
           \/ disk' = disk \ job[j].new /\ pending' = pending
    BY DEF Incoming!Stage
  <1>2. /\ job' \in [Incoming!Jobs -> Doings] /\ job'[j].new = {} /\ job'[j].taken = {}
        /\ \A k \in Incoming!Jobs \ {j} : job'[k] = job[k]
        /\ job[j].new \in SUBSET Files /\ waiting \in SUBSET Files
    BY <1>1, JobEnds, JobsFiles DEF IntakeInv, IntakeType, Batches
  <1>3. \A f \in job[j].new : f \notin pending.files
    BY DEF IntakeInv, Apart, NotShared
  <1>4. CASE pending' = [files |-> merged, old |-> FALSE] /\ disk' = disk \ (pending.files \ waiting)
    <2>1. pending' \in Batches /\ pending'.files = merged
      BY <1>2, <1>4 DEF Batches
    <2> QED BY <1>1, <1>2, <1>3, <1>4, <2>1, PassesKeeps
  <1>5. CASE disk' = disk \ job[j].new /\ pending' = pending
    BY <1>1, <1>2, <1>3, <1>5, PassesKeeps DEF IntakeInv, IntakeType
  <1> QED BY <1>1, <1>4, <1>5

\* Files that have their instruction take those that wait along.
LEMMA PopKeeps ==
  ASSUME IntakeInv, NEW j \in Incoming!Jobs, Incoming!Pop(j) \/ Incoming!Refuse(j)
  PROVE  IntakeInv'
  <1> DEFINE taken == IF pending.old THEN {} ELSE pending.files
             gone  == pending.files \ taken
  <1>1. pending' = Incoming!NoFiles /\ album' = album /\ made' = made
    BY DEF Incoming!Pop, Incoming!Refuse
  <1>2. pending' \in Batches /\ pending'.files = {}
    BY <1>1 DEF Batches, Incoming!NoFiles
  <1>3. /\ job[j].new \in SUBSET Files /\ taken \in SUBSET Files
        /\ \A f \in job[j].new : f \notin pending.files
    BY JobsFiles DEF IntakeInv, IntakeType, Batches, Apart, NotShared
  <1>4. \/ Incoming!GoesWith(j, "enqueue", job[j].new, taken) /\ disk' = disk \ gone
        \/ /\ Incoming!Ends(j)
           /\ \A f \in disk : f \in disk' \/ f \in pending.files \/ f \in job[j].new
    BY DEF Incoming!Pop, Incoming!Refuse
  <1>5. CASE Incoming!GoesWith(j, "enqueue", job[j].new, taken) /\ disk' = disk \ gone
    <2>1. /\ job' \in [Incoming!Jobs -> Doings] /\ job'[j].new = job[j].new /\ job'[j].taken = taken
          /\ \A k \in Incoming!Jobs \ {j} : job'[k] = job[k]
      <3>1. "enqueue" \in Steps BY DEF Steps
      <3>2. IntakeType BY DEF IntakeInv
      <3> HIDE DEF taken, gone
      <3> QED BY <1>3, <1>5, <3>1, <3>2, JobGoesOn
    <2> QED BY <1>1, <1>2, <1>3, <1>5, <2>1, PassesKeeps
  <1>6. CASE /\ Incoming!Ends(j)
             /\ \A f \in disk : f \in disk' \/ f \in pending.files \/ f \in job[j].new
    <2>1. /\ job' \in [Incoming!Jobs -> Doings] /\ job'[j].new = {} /\ job'[j].taken = {}
          /\ \A k \in Incoming!Jobs \ {j} : job'[k] = job[k]
      BY <1>6, JobEnds DEF IntakeInv
    <2> QED BY <1>1, <1>2, <1>3, <1>6, <2>1, PassesKeeps
  <1> QED BY <1>4, <1>5, <1>6

\* A failed insert gives back what had waited.
LEMMA RestoreKeeps ==
  ASSUME IntakeInv, NEW j \in Incoming!Jobs, Incoming!EnqueueFails(j) \/ Incoming!Restore(j)
  PROVE  IntakeInv'
  <1>1. /\ album' = album /\ made' = made
        /\ job[j].new \in SUBSET Files /\ job[j].taken \in SUBSET Files
        /\ \A f \in job[j].new : f \notin pending.files /\ f \notin job[j].taken
        /\ \A f \in job[j].taken : f \notin pending.files
    BY JobsFiles DEF IntakeInv, Apart, NotShared, Incoming!EnqueueFails, Incoming!Restore
  <1>2. CASE Incoming!EnqueueFails(j)
    <2>1. Incoming!Goes(j, "restore") /\ UNCHANGED <<pending, disk>>
      BY <1>2 DEF Incoming!EnqueueFails
    <2>2. /\ job' \in [Incoming!Jobs -> Doings]
          /\ job'[j].new = job[j].new /\ job'[j].taken = job[j].taken
          /\ \A k \in Incoming!Jobs \ {j} : job'[k] = job[k]
      <3>1. "restore" \in Steps BY DEF Steps
      <3> QED BY <1>1, <2>1, <3>1, JobGoesOn DEF IntakeInv, Incoming!Goes
    <2> QED BY <1>1, <2>1, <2>2, PassesKeeps DEF IntakeInv, IntakeType
  <1>3. CASE Incoming!Restore(j)
    <2> DEFINE waiting == IF pending.old THEN {} ELSE pending.files
               merged  == waiting \cup job[j].taken
    <2>1. /\ pending' = [files |-> merged, old |-> FALSE] \/ pending' = pending
          /\ disk' = disk \/ disk' = disk \ job[j].new
          /\ Incoming!Ends(j)
      BY <1>3 DEF Incoming!Restore
    <2>2. /\ job' \in [Incoming!Jobs -> Doings] /\ job'[j].new = {} /\ job'[j].taken = {}
          /\ \A k \in Incoming!Jobs \ {j} : job'[k] = job[k]
      BY <2>1, JobEnds DEF IntakeInv
    <2>3. waiting \in SUBSET Files /\ pending \in Batches
      BY DEF IntakeInv, IntakeType, Batches
    <2>4. pending' \in Batches /\ (pending'.files = merged \/ pending'.files = pending.files)
      <3> DEFINE batch == [files |-> merged, old |-> FALSE]
      <3>1. batch \in Batches /\ batch.files = merged
        BY <1>1, <2>3 DEF Batches
      <3> HIDE DEF batch
      <3>2. pending' = batch \/ pending' = pending
        BY <2>1 DEF batch
      <3> QED BY <2>3, <3>1, <3>2
    <2> QED BY <1>1, <2>1, <2>2, <2>3, <2>4, PassesKeeps
  <1> QED BY <1>2, <1>3

\* The task is made with all its files.
LEMMA EnqueueKeeps == ASSUME IntakeInv, NEW j \in Incoming!Jobs, Incoming!Enqueue(j) PROVE IntakeInv'
  <1> DEFINE task == Incoming!Made(job[j].by, job[j].new \cup job[j].taken, FALSE)
  <1>1. /\ Incoming!Ends(j) /\ made' = made \cup {task} /\ UNCHANGED <<disk, album, pending>>
    BY DEF Incoming!Enqueue
  <1>2. task.files = job[j].new \cup job[j].taken /\ task.keyed = FALSE
    BY DEF Incoming!Made
  <1> HIDE DEF task
  <1>3. /\ job' \in [Incoming!Jobs -> Doings] /\ job'[j].new = {} /\ job'[j].taken = {}
        /\ \A k \in Incoming!Jobs \ {j} : job'[k] = job[k]
    BY <1>1, JobEnds DEF IntakeInv
  <1>4. HeldOnDisk'
    BY <1>1, <1>2, <1>3 DEF IntakeInv, Apart, HeldOnDisk
  <1>5. NotShared'
    BY <1>1, <1>2, <1>3 DEF IntakeInv, Apart, NotShared
  <1>6. Incoming!PromptOnce'
    BY <1>1, <1>2 DEF IntakeInv, Incoming!PromptOnce
  <1> QED BY <1>1, <1>3, <1>4, <1>5, <1>6 DEF IntakeInv, IntakeType, Apart

\* A prompt has no files and is a task once.
LEMMA InsertKeeps == ASSUME IntakeInv, Incoming!Insert PROVE IntakeInv'
  <1> DEFINE task == Incoming!Made(job["update"].by, {}, TRUE)
  <1>0. "update" \in Incoming!Jobs
    BY DEF Incoming!Jobs
  <1>1. /\ Incoming!Ends("update") /\ UNCHANGED <<disk, album, pending>>
        /\ \/ made' = made
           \/ /\ made' = made \cup {task}
              /\ ~\E t \in made : t.keyed /\ t.by = job["update"].by
    BY DEF Incoming!Insert, Incoming!WithTask
  <1>2. task.files = {} /\ task.by = job["update"].by
    BY DEF Incoming!Made
  <1> HIDE DEF task
  <1>3. /\ job' \in [Incoming!Jobs -> Doings] /\ job'["update"].new = {} /\ job'["update"].taken = {}
        /\ \A k \in Incoming!Jobs \ {"update"} : job'[k] = job[k]
    BY <1>0, <1>1, JobEnds DEF IntakeInv
  <1>4. HeldOnDisk'
    BY <1>1, <1>2, <1>3 DEF IntakeInv, Apart, HeldOnDisk
  <1>5. NotShared'
    BY <1>1, <1>2, <1>3 DEF IntakeInv, Apart, NotShared
  <1>6. Incoming!PromptOnce'
    BY <1>1, <1>2 DEF IntakeInv, Incoming!PromptOnce
  <1> QED BY <1>1, <1>3, <1>4, <1>5, <1>6 DEF IntakeInv, IntakeType, Apart

\* An instruction takes the files that wait.
LEMMA TakeKeeps ==
  ASSUME IntakeInv, Incoming!Take \/ Incoming!TakeDirect
  PROVE  IntakeInv'
  <1>0. "update" \in Incoming!Jobs /\ IntakeType
    BY DEF Incoming!Jobs, IntakeInv
  <1>1. pending' = Incoming!NoFiles /\ album' = album /\ made' = made
    BY DEF Incoming!Take, Incoming!TakeDirect
  <1>2. pending' \in Batches /\ pending'.files = {}
    BY <1>1 DEF Batches, Incoming!NoFiles
  <1>3. /\ job["update"].new \in SUBSET Files /\ job["update"].taken \in SUBSET Files
        /\ pending.files \in SUBSET Files
        /\ \A f \in pending.files : f \notin job["update"].new /\ f \notin job["update"].taken
        /\ \A f \in job["update"].new : f \notin job["update"].taken
    BY <1>0, JobsFiles DEF IntakeInv, IntakeType, Batches, Apart, NotShared
  <1>4. {"enqueue", "pop", "insert"} \subseteq Steps
    BY DEF Steps
  <1>5. /\ disk' = disk \/ disk' = disk \ pending.files
        /\ \/ Incoming!Ends("update")
           \/ Incoming!GoesWith("update", "insert", job["update"].new, job["update"].taken)
           \/ /\ disk' = disk
              /\ \/ Incoming!GoesWith("update", "enqueue", job["update"].new, pending.files)
                 \/ Incoming!GoesWith("update", "pop", pending.files, job["update"].taken)
    BY DEF Incoming!Take, Incoming!TakeDirect, Incoming!Goes
  <1>6. CASE Incoming!Ends("update")
    <2>1. /\ job' \in [Incoming!Jobs -> Doings] /\ job'["update"].new = {} /\ job'["update"].taken = {}
          /\ \A k \in Incoming!Jobs \ {"update"} : job'[k] = job[k]
      BY <1>0, <1>6, JobEnds
    <2> QED BY <1>0, <1>1, <1>2, <1>3, <1>5, <2>1, PassesKeeps
  <1>7. CASE Incoming!GoesWith("update", "insert", job["update"].new, job["update"].taken)
    <2>1. /\ job' \in [Incoming!Jobs -> Doings]
          /\ job'["update"].new = job["update"].new /\ job'["update"].taken = job["update"].taken
          /\ \A k \in Incoming!Jobs \ {"update"} : job'[k] = job[k]
      BY <1>0, <1>3, <1>4, <1>7, JobGoesOn
    <2> QED BY <1>0, <1>1, <1>2, <1>3, <1>5, <2>1, PassesKeeps
  <1>8. CASE Incoming!GoesWith("update", "enqueue", job["update"].new, pending.files) /\ disk' = disk
    <2>1. /\ job' \in [Incoming!Jobs -> Doings]
          /\ job'["update"].new = job["update"].new /\ job'["update"].taken = pending.files
          /\ \A k \in Incoming!Jobs \ {"update"} : job'[k] = job[k]
      BY <1>0, <1>3, <1>4, <1>8, JobGoesOn
    <2> QED BY <1>0, <1>1, <1>2, <1>3, <1>8, <2>1, PassesKeeps
  <1>9. CASE Incoming!GoesWith("update", "pop", pending.files, job["update"].taken) /\ disk' = disk
    <2>1. /\ job' \in [Incoming!Jobs -> Doings]
          /\ job'["update"].new = pending.files /\ job'["update"].taken = job["update"].taken
          /\ \A k \in Incoming!Jobs \ {"update"} : job'[k] = job[k]
      BY <1>0, <1>3, <1>4, <1>9, JobGoesOn
    <2> QED BY <1>0, <1>1, <1>2, <1>3, <1>9, <2>1, PassesKeeps
  <1> QED BY <1>5, <1>6, <1>7, <1>8, <1>9

\* The stored batch expires, or is deleted.
LEMMA BatchKeeps ==
  ASSUME IntakeInv, Incoming!Discard \/ Incoming!Expire \/ Incoming!Purge
  PROVE  IntakeInv'
  <1>0. pending \in Batches
    BY DEF IntakeInv, IntakeType
  <1>1. /\ UNCHANGED <<album, job, made>>
        /\ \/ disk' = disk /\ pending' = [pending EXCEPT !.old = TRUE]
           \/ disk' = disk \ pending.files /\ pending' = Incoming!NoFiles
    BY DEF Incoming!Discard, Incoming!Expire, Incoming!Purge, Incoming!Forget
  <1>2. /\ pending' \in Batches
        /\ \/ disk' = disk /\ pending'.files = pending.files
           \/ disk' = disk \ pending.files /\ pending'.files = {}
    <2>1. CASE disk' = disk /\ pending' = [pending EXCEPT !.old = TRUE]
      BY <1>0, <2>1 DEF Batches
    <2>2. CASE disk' = disk \ pending.files /\ pending' = Incoming!NoFiles
      BY <2>2 DEF Batches, Incoming!NoFiles
    <2> QED BY <1>1, <2>1, <2>2
  <1>3. HeldOnDisk' /\ NotShared'
    BY <1>1, <1>2 DEF IntakeInv, Apart, HeldOnDisk, NotShared
  <1> QED BY <1>1, <1>2, <1>3 DEF IntakeInv, IntakeType, Apart, Incoming!PromptOnce

\* A new file is on disk with whoever got it, and with nobody else.
LEMMA ReceiveKeeps ==
  ASSUME IntakeInv, NEW f \in Files, NEW caption \in BOOLEAN,
         Incoming!Receive(f, caption) \/ Incoming!Gather(f, caption)
  PROVE  IntakeInv'
  <1>1. /\ f \notin disk /\ disk' = disk \cup {f} /\ UNCHANGED <<pending, made>>
        /\ \A t \in made : f \notin t.files
    BY DEF Incoming!Receive, Incoming!Gather, Incoming!Ingest, Incoming!Sent
  <1>2. /\ f \notin pending.files /\ f \notin album.files
        /\ \A j \in Incoming!Jobs : f \notin job[j].new /\ f \notin job[j].taken
    BY <1>1 DEF IntakeInv, Apart, HeldOnDisk
  <1>3. IntakeType /\ album.files \in SUBSET Files /\ album.caption \in BOOLEAN
    BY DEF IntakeInv, IntakeType, Gathers
  <1>4. CASE UNCHANGED <<job, album>>
    <2>1. HeldOnDisk' /\ NotShared'
      BY <1>1, <1>4 DEF IntakeInv, Apart, HeldOnDisk, NotShared
    <2> QED BY <1>1, <1>4, <2>1 DEF IntakeInv, IntakeType, Apart, Incoming!PromptOnce
  <1>5. CASE \E goal \in {"pop", "stage"} :
               /\ job' = [job EXCEPT !["update"] = [Incoming!Resting EXCEPT !.at = goal, !.new = {f}]]
               /\ UNCHANGED album
    <2>1. PICK goal \in {"pop", "stage"} :
             job' = [job EXCEPT !["update"] = [Incoming!Resting EXCEPT !.at = goal, !.new = {f}]]
      BY <1>5
    <2> DEFINE does == [Incoming!Resting EXCEPT !.at = goal, !.new = {f}]
    <2>2. does \in Doings /\ does.new = {f} /\ does.taken = {}
      BY DEF Doings, Steps, Incoming!Resting
    <2> HIDE DEF does
    <2>3. /\ job' \in [Incoming!Jobs -> Doings] /\ job'["update"].new = {f} /\ job'["update"].taken = {}
          /\ \A k \in Incoming!Jobs \ {"update"} : job'[k] = job[k]
      BY <1>3, <2>1, <2>2 DEF IntakeType, Incoming!Jobs, does
    <2>4. HeldOnDisk'
      BY <1>1, <1>2, <1>5, <2>3 DEF IntakeInv, Apart, HeldOnDisk, Incoming!Jobs
    <2>5. NotShared'
      BY <1>1, <1>2, <1>5, <2>3 DEF IntakeInv, Apart, NotShared, Incoming!Jobs
    <2> QED BY <1>1, <1>3, <1>5, <2>3, <2>4, <2>5 DEF IntakeInv, IntakeType, Apart, Incoming!PromptOnce
  <1>6. CASE /\ job' = [job EXCEPT !["album"] = [Incoming!Resting EXCEPT !.at = "debounce"]]
             /\ album' = [files |-> album.files \cup {f}, caption |-> album.caption \/ caption]
    <2> DEFINE does == [Incoming!Resting EXCEPT !.at = "debounce"]
    <2>2. does \in Doings /\ does.new = {} /\ does.taken = {}
      BY DEF Doings, Steps, Incoming!Resting
    <2> HIDE DEF does
    <2>3. /\ job' \in [Incoming!Jobs -> Doings] /\ job'["album"].new = {} /\ job'["album"].taken = {}
          /\ \A k \in Incoming!Jobs \ {"album"} : job'[k] = job[k]
      BY <1>3, <1>6, <2>2 DEF IntakeType, Incoming!Jobs, does
    <2>4. album' \in Gathers /\ album'.files = album.files \cup {f}
      BY <1>3, <1>6 DEF Gathers
    <2>5. HeldOnDisk'
      BY <1>1, <1>2, <2>3, <2>4 DEF IntakeInv, Apart, HeldOnDisk, Incoming!Jobs
    <2>6. NotShared'
      BY <1>1, <1>2, <2>3, <2>4 DEF IntakeInv, Apart, NotShared, HeldOnDisk, Incoming!Jobs
    <2> QED BY <1>1, <1>3, <2>3, <2>4, <2>5, <2>6 DEF IntakeInv, IntakeType, Apart, Incoming!PromptOnce
  <1>7. \/ UNCHANGED <<job, album>>
        \/ \E goal \in {"pop", "stage"} :
               /\ job' = [job EXCEPT !["update"] = [Incoming!Resting EXCEPT !.at = goal, !.new = {f}]]
               /\ UNCHANGED album
        \/ /\ job' = [job EXCEPT !["album"] = [Incoming!Resting EXCEPT !.at = "debounce"]]
           /\ album' = [files |-> album.files \cup {f}, caption |-> album.caption \/ caption]
    <2>1. CASE Incoming!Receive(f, caption)
      BY <2>1 DEF Incoming!Receive, Incoming!Ingest
    <2>2. CASE Incoming!Gather(f, caption)
      BY <2>2 DEF Incoming!Gather
    <2> QED BY <2>1, <2>2
  <1> QED BY <1>4, <1>5, <1>6, <1>7

\* The album's files pass to its job.
LEMMA FlushKeeps == ASSUME IntakeInv, Incoming!Flush PROVE IntakeInv'
  <1>1. /\ \E goal \in {"pop", "stage"} :
              job' = [job EXCEPT !["album"] = [Incoming!Resting EXCEPT !.at = goal, !.new = album.files]]
        /\ album' = Incoming!NoAlbum /\ UNCHANGED <<disk, pending, made>>
    BY DEF Incoming!Flush, Incoming!Ingest
  <1>2. PICK goal \in {"pop", "stage"} :
           job' = [job EXCEPT !["album"] = [Incoming!Resting EXCEPT !.at = goal, !.new = album.files]]
    BY <1>1
  <1> DEFINE does == [Incoming!Resting EXCEPT !.at = goal, !.new = album.files]
  <1>3. does \in Doings /\ does.new = album.files /\ does.taken = {}
    BY DEF Doings, Steps, Incoming!Resting, IntakeInv, IntakeType, Gathers
  <1>4. album' \in Gathers /\ album'.files = {}
    BY <1>1 DEF Incoming!NoAlbum, Gathers
  <1>5. job' = [job EXCEPT !["album"] = does]
    BY <1>2
  <1> HIDE DEF does
  <1>6. /\ job' \in [Incoming!Jobs -> Doings]
        /\ job'["album"].new = album.files /\ job'["album"].taken = {}
        /\ \A k \in Incoming!Jobs \ {"album"} : job'[k] = job[k]
    BY <1>3, <1>5 DEF IntakeInv, IntakeType, Incoming!Jobs
  <1>7. HeldOnDisk'
    BY <1>1, <1>4, <1>6 DEF IntakeInv, Apart, HeldOnDisk, Incoming!Jobs
  <1>8. NotShared'
    BY <1>1, <1>4, <1>6 DEF IntakeInv, Apart, NotShared, Incoming!Jobs
  <1> QED BY <1>1, <1>4, <1>6, <1>7, <1>8 DEF IntakeInv, IntakeType, Apart, Incoming!PromptOnce

\* An instruction begins with nothing.
LEMMA BeginsKeeps ==
  ASSUME IntakeInv, NEW u \in Texts,
         Incoming!Text(u) \/ Incoming!Direct(u) \/ Incoming!Research(u) \/ Incoming!RunDraft(u)
  PROVE  IntakeInv'
  <1>1. /\ \E goal \in {"take", "take direct", "insert"} :
              job' = [job EXCEPT !["update"] = [Incoming!Resting EXCEPT !.at = goal, !.by = u]]
        /\ UNCHANGED <<disk, album, pending, made>>
    BY DEF Incoming!Text, Incoming!Direct, Incoming!Research, Incoming!RunDraft, Incoming!Begin
  <1>2. PICK goal \in {"take", "take direct", "insert"} :
           job' = [job EXCEPT !["update"] = [Incoming!Resting EXCEPT !.at = goal, !.by = u]]
    BY <1>1
  <1> DEFINE does == [Incoming!Resting EXCEPT !.at = goal, !.by = u]
  <1>3. does \in Doings /\ does.new = {} /\ does.taken = {}
    BY DEF Doings, Steps, Incoming!Resting
  <1>5. job' = [job EXCEPT !["update"] = does]
    BY <1>2
  <1> HIDE DEF does
  <1>6. /\ job' \in [Incoming!Jobs -> Doings]
        /\ job'["update"].new = {} /\ job'["update"].taken = {}
        /\ \A k \in Incoming!Jobs \ {"update"} : job'[k] = job[k]
    BY <1>3, <1>5 DEF IntakeInv, IntakeType, Incoming!Jobs
  <1>7. HeldOnDisk' /\ NotShared'
    BY <1>1, <1>6 DEF IntakeInv, Apart, HeldOnDisk, NotShared, Incoming!Jobs
  <1> QED BY <1>1, <1>6, <1>7 DEF IntakeInv, IntakeType, Apart, Incoming!PromptOnce

\* What the process held is nobody's afterwards.
LEMMA ProcessEndKeeps ==
  ASSUME IntakeInv, Incoming!Crash \/ Incoming!Shutdown
  PROVE  IntakeInv'
  <1>1. /\ album' = Incoming!NoAlbum /\ job' = [j \in Incoming!Jobs |-> Incoming!Resting]
        /\ UNCHANGED <<pending, made>>
        /\ disk' = disk \/ disk' = disk \ album.files
    BY DEF Incoming!Crash, Incoming!Shutdown, Incoming!ProcessEnds
  <1>2. Incoming!Resting \in Doings /\ Incoming!Resting.new = {} /\ Incoming!Resting.taken = {}
    BY DEF Doings, Steps, Incoming!Resting
  <1>3. album' \in Gathers /\ album'.files = {}
    BY <1>1 DEF Incoming!NoAlbum, Gathers
  <1>4. /\ job' \in [Incoming!Jobs -> Doings]
        /\ \A j \in Incoming!Jobs : job'[j].new = {} /\ job'[j].taken = {}
    BY <1>1, <1>2
  <1>5. HeldOnDisk' /\ NotShared'
    BY <1>1, <1>3, <1>4 DEF IntakeInv, Apart, HeldOnDisk, NotShared
  <1> QED BY <1>1, <1>3, <1>4, <1>5 DEF IntakeInv, IntakeType, Apart, Incoming!PromptOnce

\* Every step of Intake keeps the invariant.
LEMMA IntakeStep == ASSUME IntakeInv, [Incoming!Next]_intake PROVE IntakeInv'
  <1>1. CASE UNCHANGED <<disk, album, pending, job, made>>
    BY <1>1 DEF IntakeInv, IntakeType, Apart, HeldOnDisk, NotShared, Incoming!PromptOnce
  <1>2. CASE UNCHANGED intake
    BY <1>1, <1>2 DEF intake
  <1>3. CASE \/ Incoming!NewDraft \/ Incoming!SaveDraft
             \/ \E u \in Texts : Incoming!DraftText(u)
    BY <1>1, <1>3 DEF Incoming!NewDraft, Incoming!SaveDraft, Incoming!DraftText
  <1>4. CASE \E f \in Files, caption \in BOOLEAN :
                Incoming!Receive(f, caption) \/ Incoming!Gather(f, caption)
    BY <1>4, ReceiveKeeps
  <1>5. CASE Incoming!Flush
    BY <1>5, FlushKeeps
  <1>6. ASSUME NEW j \in Incoming!Jobs,
               \/ Incoming!Stage(j) \/ Incoming!Pop(j) \/ Incoming!Refuse(j)
               \/ Incoming!Enqueue(j) \/ Incoming!EnqueueFails(j) \/ Incoming!Restore(j)
        PROVE  IntakeInv'
    BY <1>6, StageKeeps, PopKeeps, EnqueueKeeps, RestoreKeeps
  <1>7. CASE \E u \in Texts : \/ Incoming!Text(u) \/ Incoming!Direct(u)
                             \/ Incoming!Research(u) \/ Incoming!RunDraft(u)
    BY <1>7, BeginsKeeps
  <1>8. CASE Incoming!Take \/ Incoming!TakeDirect \/ Incoming!Insert
    BY <1>8, TakeKeeps, InsertKeeps
  <1>9. CASE Incoming!Discard \/ Incoming!Expire \/ Incoming!Purge
    BY <1>9, BatchKeeps
  <1>10. CASE Incoming!Crash \/ Incoming!Shutdown
    BY <1>10, ProcessEndKeeps
  <1> QED BY <1>2, <1>3, <1>4, <1>5, <1>6, <1>7, <1>8, <1>9, <1>10 DEF Incoming!Next

\* The files the owner sends go to one instruction and no other, and an instruction
\* delivered again makes no second task of its text.
THEOREM FilesMeetOneInstruction == AllSpec => []OneInstruction
  <1>1. AllInit => IntakeInv
    <2> SUFFICES ASSUME AllInit PROVE IntakeInv OBVIOUS
    <2>1. /\ job = [j \in Incoming!Jobs |-> Incoming!Resting] /\ made = {}
          /\ album = Incoming!NoAlbum /\ pending = Incoming!NoFiles
      BY PartsStart DEF Incoming!Init
    <2>2. Incoming!Resting \in Doings /\ Incoming!Resting.new = {} /\ Incoming!Resting.taken = {}
      BY DEF Doings, Steps, Incoming!Resting
    <2>3. album \in Gathers /\ album.files = {} /\ pending \in Batches /\ pending.files = {}
      BY <2>1 DEF Incoming!NoAlbum, Incoming!NoFiles, Gathers, Batches
    <2>4. /\ job \in [Incoming!Jobs -> Doings]
          /\ \A j \in Incoming!Jobs : job[j].new = {} /\ job[j].taken = {}
      BY <2>1, <2>2
    <2>5. HeldOnDisk /\ NotShared
      BY <2>1, <2>3, <2>4 DEF HeldOnDisk, NotShared
    <2> QED BY <2>1, <2>3, <2>4, <2>5 DEF IntakeInv, IntakeType, Apart, Incoming!PromptOnce
  <1>2. IntakeInv /\ [AllNext]_allVars => IntakeInv' BY OneAtATime, IntakeStep
  <1>3. IntakeInv => OneInstruction
    <2> SUFFICES ASSUME IntakeInv PROVE OneInstruction OBVIOUS
    <2>1. pending.files \cup UNION {t.files : t \in made} \subseteq disk
      BY DEF IntakeInv, Apart, HeldOnDisk
    <2>2. \A t \in made : t.files \cap (pending.files \cup album.files) = {}
      BY DEF IntakeInv, Apart, NotShared
    <2>3. \A t1, t2 \in made : t1 # t2 => t1.files \cap t2.files = {}
      BY DEF IntakeInv, Apart, NotShared
    <2> QED BY <2>1, <2>2, <2>3
            DEF OneInstruction, Incoming!OneInstruction, Incoming!FilesKept, IntakeInv
  <1> QED BY <1>1, <1>2, <1>3, PTL DEF AllSpec
-----------------------------------------------------------------------------
(* Schedules.                                                              *)

JobRows == [name : Names, enabled : BOOLEAN, next : Nat, repeats : BOOLEAN]
Waiting == [op : Ops, edit : Edits \cup Buttons \cup {"none"}, name : Names, new : Names, job : Nat, at : Nat,
            repeats : BOOLEAN, on : BOOLEAN]

\* The request will give an enabled schedule its next time.
SetsTime(q) == q.op \in {"create", "retime"} \/ (q.op = "switch" /\ q.on)

\* One who reads a schedule has chosen what to do with it.
Chosen(q) ==
    /\ q.op = "look" => q.edit \in Edits
    /\ q.op = "find" => q.edit \in Buttons

\* Whoever waits at the lock brings a time that is later than every occurrence
\* recorded so far, and than those the promotions before it in line will record.
InLine(line) ==
    /\ line \in Seq(Waiting)
    /\ \A k \in 1..Len(line) : line[k].op = "promote" => line[k].at <= clock
    /\ \A k \in 1..Len(line) : Chosen(line[k])
    /\ \A k \in 1..Len(line) : SetsTime(line[k]) =>
          0 < line[k].at /\ \A r \in runs : r.at < line[k].at
    /\ \A k, m \in 1..Len(line) :
          k < m /\ line[k].op = "promote" /\ SetsTime(line[m]) => line[k].at < line[m].at

SchedulesType ==
    /\ clock \in 1..MaxClock /\ created \in Nat
    /\ DOMAIN jobs \subseteq 1..created
    /\ \A j \in DOMAIN jobs : jobs[j] \in JobRows

NamesUnique == \A j, k \in DOMAIN jobs : jobs[j].name = jobs[k].name => j = k

\* History is of the past, and what an enabled schedule waits for is later than all
\* of it.
Recorded ==
    /\ \A r \in runs : r.at \in Nat /\ r.at <= clock
    /\ \A j \in DOMAIN jobs : jobs[j].enabled = TRUE =>
          0 < jobs[j].next /\ \A r \in runs : r.at < jobs[j].next

\* No two occurrences meet in one row.
OneRowEach == \A r, o \in runs : r.name = o.name /\ r.at = o.at => r = o

SchedulesInv ==
    /\ SchedulesType /\ InLine(queue) /\ NamesUnique /\ Recorded /\ OneRowEach
    /\ OccurrenceRecorded

\* There is a name.
LEMMA SomeName == (CHOOSE n \in Names : TRUE) \in Names
  BY ScheduleAssumption

\* One that joins the line with a time to come.
LEMMA Joins ==
  ASSUME NEW line, InLine(line), clock \in Nat, NEW q \in Waiting,
         \A r \in runs : r.at \in Nat /\ r.at <= clock,
         q.op = "promote" => q.at <= clock, SetsTime(q) => q.at > clock,
         Chosen(q)
  PROVE  InLine(Append(line, q))
  <1> DEFINE longer == Append(line, q)
  <1>1. line \in Seq(Waiting)
    BY DEF InLine
  <1>2. /\ longer \in Seq(Waiting) /\ Len(longer) = Len(line) + 1 /\ Len(line) \in Nat
        /\ \A k \in 1..Len(line) : longer[k] = line[k]
        /\ longer[Len(line) + 1] = q
    BY <1>1
  <1> HIDE DEF longer
  <1>3. \A k \in 1..Len(longer) : k \in 1..Len(line) \/ k = Len(line) + 1
    BY <1>2
  <1>4. q.at \in Nat /\ \A k \in 1..Len(line) : line[k].at \in Nat
    <2>1. \A k \in 1..Len(line) : line[k] \in Waiting BY <1>1
    <2> QED BY <2>1 DEF Waiting
  <1>5. \A k \in 1..Len(longer) : longer[k].op = "promote" => longer[k].at <= clock
    BY <1>2, <1>3 DEF InLine
  <1>6. \A k \in 1..Len(longer) : SetsTime(longer[k]) =>
           0 < longer[k].at /\ \A r \in runs : r.at < longer[k].at
    BY <1>2, <1>3, <1>4 DEF InLine
  <1>7. \A k, m \in 1..Len(longer) :
           k < m /\ longer[k].op = "promote" /\ SetsTime(longer[m]) => longer[k].at < longer[m].at
    <2> TAKE k, m \in 1..Len(longer)
    <2> HAVE k < m /\ longer[k].op = "promote" /\ SetsTime(longer[m])
    <2>1. CASE m \in 1..Len(line)
      <3>1. k \in 1..Len(line)
        BY <1>2, <2>1
      <3> QED BY <1>2, <2>1, <3>1 DEF InLine
    <2>2. CASE m = Len(line) + 1
      <3>1. k \in 1..Len(line)
        BY <1>2, <2>2
      <3> QED BY <1>2, <1>4, <2>2, <3>1 DEF InLine
    <2> QED BY <1>3, <2>1, <2>2
  <1>8. \A k \in 1..Len(longer) : Chosen(longer[k])
    BY <1>2, <1>3 DEF InLine
  <1> QED BY <1>2, <1>5, <1>6, <1>7, <1>8 DEF InLine, longer

\* The first in line leaves it.
LEMMA Leaves ==
  ASSUME NEW line, InLine(line), line # <<>>
  PROVE  /\ InLine(Tail(line)) /\ Head(line) \in Waiting /\ Head(line) = line[1] /\ 1 \in 1..Len(line)
         /\ \A k \in 1..Len(Tail(line)) : Tail(line)[k] = line[k + 1] /\ k + 1 \in 1..Len(line)
  <1> DEFINE rest == Tail(line)
  <1>1. line \in Seq(Waiting)
    BY DEF InLine
  <1>2. /\ rest \in Seq(Waiting) /\ Len(rest) = Len(line) - 1 /\ Len(line) \in Nat
        /\ \A k \in 1..Len(rest) : rest[k] = line[k + 1] /\ k + 1 \in 1..Len(line)
        /\ Head(line) \in Waiting /\ Head(line) = line[1] /\ 1 \in 1..Len(line)
    BY <1>1
  <1> HIDE DEF rest
  <1>3. InLine(rest)
    <2>1. \A k \in 1..Len(rest) : rest[k].op = "promote" => rest[k].at <= clock
      BY <1>2 DEF InLine
    <2>2. \A k \in 1..Len(rest) : SetsTime(rest[k]) =>
             0 < rest[k].at /\ \A r \in runs : r.at < rest[k].at
      BY <1>2 DEF InLine
    <2>3. \A k, m \in 1..Len(rest) :
             k < m /\ rest[k].op = "promote" /\ SetsTime(rest[m]) => rest[k].at < rest[m].at
      BY <1>2 DEF InLine
    <2>4. \A k \in 1..Len(rest) : Chosen(rest[k])
      BY <1>2 DEF InLine
    <2> QED BY <1>2, <2>1, <2>2, <2>3, <2>4 DEF InLine
  <1> QED BY <1>2, <1>3 DEF rest

\* The next time of a recurring schedule exists and is to come.
LEMMA NextIsLater ==
  ASSUME NEW t \in Nat, NEW now \in Nat, t <= now, now <= MaxClock
  PROVE  NextAfter(t, now) \in Nat /\ NextAfter(t, now) > now
  <1> DEFINE n == (now - t) \div Period
             u == t + (n + 1) * Period
  <1>1. Period \in Nat \ {0} /\ MaxClock \in Nat
    BY ScheduleAssumption
  <1>2. n \in Nat /\ n <= now - t
    BY <1>1
  <1>3. Period * n <= now - t /\ now - t < Period * (n + 1)
    BY <1>1
  <1> HIDE DEF n
  <1>4. (n + 1) * Period = Period * n + Period /\ Period * n \in Nat
        /\ Period * (n + 1) = Period * n + Period
    BY <1>1, <1>2
  <1>5. u \in Times /\ u > now /\ u - Period <= now
    BY <1>1, <1>2, <1>3, <1>4 DEF Times
  <1>6. n + 1 \in 1..(MaxClock + 1)
    BY <1>1, <1>2
  <1>7. \E v \in Times : /\ v > now /\ v - Period <= now
                         /\ \E k \in 1..(MaxClock + 1) : v = t + k * Period
    BY <1>5, <1>6
  <1> HIDE DEF u
  <1>8. NextAfter(t, now) \in Times /\ NextAfter(t, now) > now
    BY <1>7 DEF NextAfter
  <1> QED BY <1>1, <1>8 DEF Times

\* Nothing recorded changes while somebody joins or leaves the line.
LEMMA OnlyTheLine ==
  ASSUME SchedulesInv, UNCHANGED <<clock, runs, jobs, created, seen>>, InLine(queue')
  PROVE  SchedulesInv'
  BY DEF SchedulesInv, SchedulesType, InLine, NamesUnique, Recorded, OneRowEach, OccurrenceRecorded

\* A request that may join the line now.
MayJoin(q) ==
    /\ q \in Waiting
    /\ q.op = "promote" => q.at <= clock
    /\ Chosen(q)
    /\ SetsTime(q) => q.at > clock

\* Times are natural numbers.
LEMMA TimesAreNat == ASSUME SchedulesInv PROVE clock \in Nat /\ Times \subseteq Nat /\ Null = 0
  BY ScheduleAssumption DEF SchedulesInv, SchedulesType, Times, Null

\* What the owner and the workers ask is of the present or to come.
LEMMA AsksKeep == ASSUME SchedulesInv, OwnerAsks \/ AskPromotion PROVE SchedulesInv'
  <1> USE SomeName DEF Blank, MayJoin, Chosen, Waiting, SetsTime, Ops
  <1>1. CASE AskPromotion
    <2> DEFINE q == [Blank EXCEPT !.op = "promote", !.at = clock]
    <2>1. q.op = "promote" /\ q.at = clock /\ clock <= clock
      BY TimesAreNat
    <2>2. q \in Waiting
      BY TimesAreNat DEF Null
    <2>3. MayJoin(q)
      BY <2>1, <2>2
    <2>4. queue' = Append(queue, q) /\ UNCHANGED <<clock, runs, jobs, created, seen>>
      BY <1>1 DEF AskPromotion, Join
    <2> HIDE DEF q
    <2> QED BY <2>3, <2>4, TimesAreNat, Joins, OnlyTheLine DEF SchedulesInv, Recorded
  <1>2. ASSUME NEW n \in Names, NEW when \in Times, NEW r \in BOOLEAN, AskCreate(n, when, r)
        PROVE  SchedulesInv'
    <2> DEFINE q == [Blank EXCEPT !.op = "create", !.name = n, !.at = when, !.repeats = r]
    <2>1. MayJoin(q)
      BY <1>2, TimesAreNat DEF AskCreate, Acceptable
    <2>2. queue' = Append(queue, q) /\ UNCHANGED <<clock, runs, jobs, created, seen>>
      BY <1>2 DEF AskCreate, Join
    <2> HIDE DEF q
    <2> QED BY <2>1, <2>2, TimesAreNat, Joins, OnlyTheLine DEF SchedulesInv, Recorded
  <1>3. ASSUME NEW n \in Names, NEW new \in Names, AskRename(n, new)
        PROVE  SchedulesInv'
    <2> DEFINE q == [Blank EXCEPT !.op = "rename", !.name = n, !.new = new]
    <2>1. MayJoin(q)
      BY TimesAreNat DEF Null
    <2>2. queue' = Append(queue, q) /\ UNCHANGED <<clock, runs, jobs, created, seen>>
      BY <1>3 DEF AskRename, Join
    <2> HIDE DEF q
    <2> QED BY <2>1, <2>2, TimesAreNat, Joins, OnlyTheLine DEF SchedulesInv, Recorded
  <1>4. ASSUME NEW n \in Names, AskDelete(n)
        PROVE  SchedulesInv'
    <2> DEFINE q == [Blank EXCEPT !.op = "delete", !.name = n]
    <2>1. MayJoin(q)
      BY TimesAreNat DEF Null
    <2>2. queue' = Append(queue, q) /\ UNCHANGED <<clock, runs, jobs, created, seen>>
      BY <1>4 DEF AskDelete, Join
    <2> HIDE DEF q
    <2> QED BY <2>1, <2>2, TimesAreNat, Joins, OnlyTheLine DEF SchedulesInv, Recorded
  <1>5. ASSUME NEW n \in Names, NEW new \in Names, NEW edit \in Edits, NEW when \in Times \cup {Null},
               AskEdit(n, edit, new, when)
        PROVE  SchedulesInv'
    <2> DEFINE q == [Blank EXCEPT !.op = "look", !.edit = edit, !.name = n, !.new = new, !.at = when]
    <2>0. when \in Nat
      BY TimesAreNat
    <2>1. q \in Waiting
      BY <2>0 DEF Null
    <2>2. q.op = "look" /\ q.edit = edit
      OBVIOUS
    <2>3. MayJoin(q)
      BY <2>1, <2>2
    <2>4. queue' = Append(queue, q) /\ UNCHANGED <<clock, runs, jobs, created, seen>>
      BY <1>5 DEF AskEdit, Join
    <2> HIDE DEF q
    <2> QED BY <2>3, <2>4, TimesAreNat, Joins, OnlyTheLine DEF SchedulesInv, Recorded
  <1>6. ASSUME NEW j \in Jobs, NEW edit \in Buttons, AskButton(j, edit)
        PROVE  SchedulesInv'
    <2> DEFINE q == [Blank EXCEPT !.op = "find", !.edit = edit, !.job = j]
    <2>1. j \in Nat
      BY ScheduleAssumption DEF Jobs
    <2>2. q \in Waiting /\ q.op = "find" /\ q.edit = edit
      BY <2>1 DEF Null
    <2>3. MayJoin(q)
      BY <2>2
    <2>4. queue' = Append(queue, q) /\ UNCHANGED <<clock, runs, jobs, created, seen>>
      BY <1>6 DEF AskButton, Join
    <2> HIDE DEF q
    <2> QED BY <2>3, <2>4, TimesAreNat, Joins, OnlyTheLine DEF SchedulesInv, Recorded
  <1> QED BY <1>1, <1>2, <1>3, <1>4, <1>5, <1>6 DEF OwnerAsks

\* What a caller asks for once it has read the schedule, if it does not refuse.
LEMMA AfterLookMayJoin ==
  ASSUME SchedulesInv, NEW q \in Waiting, q.edit \in Edits, NEW j \in DOMAIN jobs,
         AfterLook(q, j) # Blank
  PROVE  MayJoin(AfterLook(q, j))
  <1> DEFINE d == jobs[j]
  <1>1. /\ d.name \in Names /\ d.next \in Nat /\ d.repeats \in BOOLEAN /\ d.enabled \in BOOLEAN
        /\ j \in Nat
    BY DEF SchedulesInv, SchedulesType, JobRows
  <1>2. q.at \in Nat /\ q.name \in Names /\ q.new \in Names
    BY DEF Waiting
  <1>3. clock \in Nat /\ Period \in Nat \ {0}
    BY ScheduleAssumption, TimesAreNat
  <1>4. ASSUME NEW when \in Nat, NEW r \in BOOLEAN
        PROVE  Retime(q, when, r) = Blank \/ MayJoin(Retime(q, when, r))
    <2> DEFINE asks == [Blank EXCEPT !.op = "retime", !.name = q.name, !.at = when, !.repeats = r]
    <2>1. asks \in Waiting /\ asks.op = "retime" /\ asks.at = when
      BY <1>2, SomeName DEF Waiting, Ops, Blank, Null
    <2>2. when <= clock => Retime(q, when, r) = Blank
      BY DEF Retime
    <2>3. when > clock => MayJoin(asks)
      BY <1>3, <2>1 DEF MayJoin, Chosen
    <2>4. ~(when <= clock) => Retime(q, when, r) = asks /\ when > clock
      BY <1>3 DEF Retime
    <2> QED BY <2>2, <2>3, <2>4
  <1>5. ASSUME NEW when \in Nat, NEW on \in BOOLEAN, on => when > clock
        PROVE  MayJoin(Switch(j, when, on))
    BY <1>1, <1>5, SomeName DEF Switch, Waiting, SetsTime, Ops, MayJoin, Chosen, Blank, Null
  <1>6. ASSUME NEW w \in Nat \ {0}
        PROVE  SoonIfPast(d.next, w) \in Nat /\ SoonIfPast(d.next, w) > clock
    BY <1>1, <1>3 DEF SoonIfPast
  <1>7. q.edit \in {"time", "interval", "once", "timezone", "pause", "resume", "run", "duplicate"}
    BY DEF Edits
  <1>8. CASE q.edit = "time"
    BY <1>1, <1>2, <1>4, <1>8 DEF AfterLook
  <1>9. CASE q.edit = "interval"
    <2>1. clock + Period \in Nat /\ AfterLook(q, j) = Retime(q, clock + Period, TRUE)
      BY <1>3, <1>9 DEF AfterLook
    <2> QED BY <1>4, <2>1
  <1>10. CASE q.edit = "once"
    <2>1. SoonIfPast(d.next, 1) \in Nat /\ AfterLook(q, j) = Retime(q, SoonIfPast(d.next, 1), FALSE)
      BY <1>6, <1>10 DEF AfterLook
    <2> QED BY <1>4, <2>1
  <1>11. CASE q.edit = "timezone"
    <2> DEFINE when == IF d.next = Null THEN clock + 1 ELSE d.next
    <2>1. when \in Nat /\ AfterLook(q, j) = Retime(q, when, d.repeats)
      BY <1>1, <1>3, <1>11 DEF AfterLook
    <2> HIDE DEF when
    <2> QED BY <1>1, <1>4, <2>1
  <1>12. CASE q.edit = "pause"
    <2>1. AfterLook(q, j) = Switch(j, d.next, FALSE)
      BY <1>12 DEF AfterLook
    <2> QED BY <1>1, <1>5, <2>1
  <1>13. CASE q.edit = "resume"
    <2> DEFINE w == IF d.repeats THEN Period ELSE 1
    <2>1. w \in Nat \ {0} /\ AfterLook(q, j) = Switch(j, SoonIfPast(d.next, w), TRUE)
      BY <1>3, <1>13 DEF AfterLook
    <2> HIDE DEF w
    <2> QED BY <1>5, <1>6, <2>1
  <1>14. CASE q.edit = "run"
    <2>1. AfterLook(q, j) = [Blank EXCEPT !.op = "insert", !.job = j]
      BY <1>14 DEF AfterLook
    <2> DEFINE asks == [Blank EXCEPT !.op = "insert", !.job = j]
    <2>2. asks \in Waiting /\ asks.op = "insert"
      BY <1>1, SomeName DEF Waiting, Ops, Blank, Null
    <2>3. MayJoin(asks)
      BY <2>2 DEF MayJoin, Chosen, SetsTime
    <2> QED BY <2>1, <2>3
  <1>15. CASE q.edit = "duplicate"
    <2> DEFINE when   == IF d.next = Null THEN clock + 1 ELSE d.next
               asks == [Blank EXCEPT !.op = "create", !.name = q.new, !.at = when, !.repeats = d.repeats]
    <2>1. when \in Nat /\ (AfterLook(q, j) = Blank \/ (AfterLook(q, j) = asks /\ when > clock))
      BY <1>1, <1>3, <1>15 DEF AfterLook
    <2> HIDE DEF when
    <2>2. asks \in Waiting /\ asks.op = "create" /\ asks.at = when
      BY <1>1, <1>2, <2>1, SomeName DEF Waiting, Ops, Blank, Null
    <2>3. when > clock => MayJoin(asks)
      BY <1>3, <2>2 DEF MayJoin, Chosen
    <2> HIDE DEF asks
    <2> QED BY <2>1, <2>3
  <1> QED BY <1>7, <1>8, <1>9, <1>10, <1>11, <1>12, <1>13, <1>14, <1>15

\* What the one served had asked for is later than all that is recorded.
LEMMA ServedIsToCome ==
  ASSUME SchedulesInv, queue # <<>>
  PROVE  /\ Asked \in Waiting
         /\ SetsTime(Asked) => 0 < Asked.at /\ \A r \in runs : r.at < Asked.at
         /\ Asked.op = "promote" => Asked.at <= clock
         /\ Chosen(Asked)
         /\ InLine(Tail(queue))
  <1>1. InLine(queue)
    BY DEF SchedulesInv
  <1>2. /\ InLine(Tail(queue)) /\ Head(queue) \in Waiting /\ Head(queue) = queue[1]
        /\ 1 \in 1..Len(queue)
    BY <1>1, Leaves
  <1> QED BY <1>1, <1>2 DEF InLine, Asked

\* Reading changes nothing but the line.
LEMMA LookKeeps == ASSUME SchedulesInv, Look PROVE SchedulesInv'
  <1>1. /\ queue # <<>> /\ Asked.op = "look" /\ UNCHANGED <<clock, runs, jobs, created, seen>>
        /\ \/ queue' = Tail(queue)
           \/ /\ Named(Asked.name) # {}
              /\ LET next == AfterLook(Asked, CHOOSE j \in Named(Asked.name) : TRUE)
                 IN next # Blank /\ queue' = Append(Tail(queue), next)
    BY DEF Look, Serving, Asked, Leave
  <1>2. CASE queue' = Tail(queue)
    BY <1>1, <1>2, ServedIsToCome, OnlyTheLine
  <1>3. CASE /\ Named(Asked.name) # {}
             /\ LET next == AfterLook(Asked, CHOOSE j \in Named(Asked.name) : TRUE)
                IN next # Blank /\ queue' = Append(Tail(queue), next)
    <2> DEFINE j == CHOOSE k \in Named(Asked.name) : TRUE
               next == AfterLook(Asked, j)
    <2>1. j \in DOMAIN jobs
      <3>1. j \in Named(Asked.name)
        BY <1>3
      <3> QED BY <3>1 DEF Named
    <2>2. next # Blank /\ queue' = Append(Tail(queue), next)
      BY <1>3
    <2> HIDE DEF j
    <2>3. MayJoin(next)
      BY <1>1, <2>1, <2>2, ServedIsToCome, AfterLookMayJoin DEF Chosen
    <2> HIDE DEF next
    <2>4. InLine(Append(Tail(queue), next))
      BY <1>1, <2>3, ServedIsToCome, TimesAreNat, Joins DEF MayJoin, SchedulesInv, Recorded
    <2> QED BY <1>1, <2>2, <2>4, OnlyTheLine
  <1> QED BY <1>1, <1>2, <1>3

\* The request by name a button ends in may join the line.
LEMMA FoundMayJoin ==
  ASSUME NEW op \in {"delete", "look"}, NEW edit \in Buttons, op = "look" => edit \in Edits,
         NEW n \in Names, NEW new \in Names
  PROVE  MayJoin([Blank EXCEPT !.op = op, !.edit = edit, !.name = n, !.new = new])
  <1> USE SomeName DEF Blank, Waiting, Ops, Null
  <1> DEFINE q == [Blank EXCEPT !.op = op, !.edit = edit, !.name = n, !.new = new]
  <1>1. q \in Waiting
    OBVIOUS
  <1>2. q.op = op /\ q.edit = edit
    OBVIOUS
  <1> HIDE DEF q
  <1>3. MayJoin(q)
    BY <1>1, <1>2 DEF MayJoin, Chosen, SetsTime
  <1> QED BY <1>3 DEF q

\* Finding the schedule of a button only puts the request by its name in the line.
LEMMA FindKeeps == ASSUME SchedulesInv, Find PROVE SchedulesInv'
  <1> DEFINE d  == jobs[Asked.job]
             op == IF Asked.edit = "delete" THEN "delete" ELSE "look"
             asks(new) == [Blank EXCEPT !.op = op, !.edit = Asked.edit, !.name = d.name, !.new = new]
  <1>1. /\ queue # <<>> /\ Asked.op = "find" /\ UNCHANGED <<clock, runs, jobs, created, seen>>
        /\ \/ queue' = Tail(queue)
           \/ /\ Asked.job \in DOMAIN jobs
              /\ \E new \in IF Asked.edit = "duplicate" THEN CopyNames(d) ELSE {d.name} :
                    queue' = Append(Tail(queue), asks(new))
    BY DEF Find, Serving, Asked, Leave
  <1>2. CASE queue' = Tail(queue)
    BY <1>1, <1>2, ServedIsToCome, OnlyTheLine
  <1>3. ASSUME Asked.job \in DOMAIN jobs,
               NEW new \in IF Asked.edit = "duplicate" THEN CopyNames(d) ELSE {d.name},
               queue' = Append(Tail(queue), asks(new))
        PROVE  SchedulesInv'
    <2>1. Asked.edit \in Buttons /\ d.name \in Names
      BY <1>1, <1>3, ServedIsToCome DEF Chosen, SchedulesInv, SchedulesType, JobRows
    <2>2. new \in Names
      BY <2>1 DEF CopyNames
    <2>3. op \in {"delete", "look"} /\ (op = "look" => Asked.edit \in Edits)
      BY <2>1 DEF Buttons, Edits
    <2> DEFINE q == asks(new)
    <2>6. MayJoin(q)
      BY <2>1, <2>2, <2>3, FoundMayJoin
    <2> HIDE DEF q
    <2>7. InLine(Append(Tail(queue), q))
      BY <1>1, <2>6, ServedIsToCome, TimesAreNat, Joins DEF MayJoin, SchedulesInv, Recorded
    <2> QED BY <1>1, <1>3, <2>7, OnlyTheLine DEF q
  <1> QED BY <1>1, <1>2, <1>3

\* A served operation on the schedules: what it leaves them with keeps the order.
LEMMA ServedKeeps ==
  ASSUME SchedulesInv, queue # <<>>, queue' = Tail(queue), UNCHANGED <<clock, runs, seen>>,
         SchedulesType', NamesUnique',
         \A j \in DOMAIN jobs' : jobs'[j].enabled = TRUE =>
            0 < jobs'[j].next /\ \A r \in runs : r.at < jobs'[j].next
  PROVE  SchedulesInv'
  <1>1. InLine(queue')
    BY ServedIsToCome
  <1>2. InLine(queue)'
    BY <1>1 DEF InLine
  <1> QED BY <1>2 DEF SchedulesInv, Recorded, OneRowEach, OccurrenceRecorded

\* A new schedule has a time to come and a name of its own.
LEMMA CreateKeeps == ASSUME SchedulesInv, Create PROVE SchedulesInv'
  <1>1. /\ queue # <<>> /\ Asked.op = "create" /\ queue' = Tail(queue)
        /\ UNCHANGED <<clock, runs, seen>>
    BY DEF Create, Serving, Asked, Leave
  <1>2. CASE UNCHANGED <<jobs, created>>
    BY <1>1, <1>2, ServedKeeps DEF SchedulesInv, SchedulesType, NamesUnique, Recorded
  <1>3. CASE /\ Named(Asked.name) = {} /\ created' = created + 1
             /\ jobs' = [j \in DOMAIN jobs \cup {created + 1} |->
                            IF j = created + 1
                              THEN [name |-> Asked.name, enabled |-> TRUE, next |-> Asked.at,
                                    repeats |-> Asked.repeats]
                              ELSE jobs[j]]
    <2> DEFINE new == [name |-> Asked.name, enabled |-> TRUE, next |-> Asked.at,
                       repeats |-> Asked.repeats]
    <2>1. created \in Nat /\ created + 1 \notin DOMAIN jobs /\ DOMAIN jobs \subseteq 1..created
      BY DEF SchedulesInv, SchedulesType
    <2>2. new \in JobRows /\ new.name = Asked.name /\ 0 < new.next /\ \A r \in runs : r.at < new.next
      BY <1>1, ServedIsToCome DEF Waiting, JobRows, SetsTime
    <2>3. jobs' = [j \in DOMAIN jobs \cup {created + 1} |-> IF j = created + 1 THEN new ELSE jobs[j]]
      BY <1>3
    <2> HIDE DEF new
    <2>4. /\ DOMAIN jobs' = DOMAIN jobs \cup {created + 1} /\ jobs'[created + 1] = new
          /\ \A j \in DOMAIN jobs : jobs'[j] = jobs[j]
      BY <2>1, <2>3
    <2>5. SchedulesType'
      <3>1. created' \in Nat /\ 1..created \subseteq 1..created' /\ created + 1 \in 1..created'
        BY <1>3, <2>1
      <3>2. DOMAIN jobs' \subseteq 1..created'
        BY <2>1, <2>4, <3>1
      <3>3. \A j \in DOMAIN jobs' : jobs'[j] \in JobRows
        BY <2>2, <2>4 DEF SchedulesInv, SchedulesType
      <3> QED BY <1>1, <3>1, <3>2, <3>3 DEF SchedulesInv, SchedulesType
    <2>6. NamesUnique'
      BY <1>3, <2>2, <2>4 DEF SchedulesInv, NamesUnique, Named
    <2>7. \A j \in DOMAIN jobs' : jobs'[j].enabled = TRUE =>
             0 < jobs'[j].next /\ \A r \in runs : r.at < jobs'[j].next
      BY <2>2, <2>4 DEF SchedulesInv, Recorded
    <2> QED BY <1>1, <2>5, <2>6, <2>7, ServedKeeps
  <1> QED BY <1>2, <1>3 DEF Create

\* A name passes to one schedule at most.
LEMMA RenameKeeps == ASSUME SchedulesInv, Rename \/ Delete PROVE SchedulesInv'
  <1>1. /\ queue # <<>> /\ queue' = Tail(queue) /\ UNCHANGED <<clock, runs, seen, created>>
    BY DEF Rename, Delete, Serving, Leave
  <1>2. CASE Delete
    <2>1. /\ DOMAIN jobs' \subseteq DOMAIN jobs
          /\ \A j \in DOMAIN jobs' : jobs'[j] = jobs[j]
      BY <1>2 DEF Delete
    <2> QED BY <1>1, <2>1, ServedKeeps DEF SchedulesInv, SchedulesType, NamesUnique, Recorded
  <1>3. CASE Rename
    <2>0. Asked.new \in Names
      BY <1>1, ServedIsToCome DEF Waiting
    <2>1. CASE jobs' = jobs
      BY <1>1, <2>1, ServedKeeps DEF SchedulesInv, SchedulesType, NamesUnique, Recorded
    <2>2. CASE /\ Named(Asked.new) \subseteq Named(Asked.name)
               /\ jobs' = [j \in DOMAIN jobs |->
                             IF j \in Named(Asked.name) THEN [jobs[j] EXCEPT !.name = Asked.new]
                                                        ELSE jobs[j]]
      <3>1. /\ DOMAIN jobs' = DOMAIN jobs
            /\ \A j \in DOMAIN jobs :
                  /\ jobs[j].name = Asked.name => jobs'[j] = [jobs[j] EXCEPT !.name = Asked.new]
                  /\ jobs[j].name # Asked.name => jobs'[j] = jobs[j] /\ jobs[j].name # Asked.new
        BY <2>2 DEF Named
      <3>2. \A j \in DOMAIN jobs : jobs[j] \in JobRows
        BY DEF SchedulesInv, SchedulesType
      <3>3. \A j \in DOMAIN jobs :
               /\ jobs'[j] \in JobRows /\ jobs'[j].enabled = jobs[j].enabled /\ jobs'[j].next = jobs[j].next
               /\ jobs[j].name = Asked.name => jobs'[j].name = Asked.new
        BY <2>0, <3>1, <3>2 DEF JobRows
      <3>4. SchedulesType'
        BY <1>1, <3>1, <3>3 DEF SchedulesInv, SchedulesType
      <3>5. NamesUnique'
        BY <3>1, <3>3 DEF SchedulesInv, NamesUnique
      <3> QED BY <1>1, <3>1, <3>3, <3>4, <3>5, ServedKeeps DEF SchedulesInv, Recorded
    <2> QED BY <1>3, <2>1, <2>2 DEF Rename
  <1> QED BY <1>2, <1>3

\* A time or a switch is written as it was worked out.
LEMMA WritesKeep == ASSUME SchedulesInv, WriteTiming \/ WriteEnabled PROVE SchedulesInv'
  <1>1. /\ queue # <<>> /\ queue' = Tail(queue) /\ UNCHANGED <<clock, runs, seen, created>>
        /\ DOMAIN jobs' = DOMAIN jobs
    BY DEF WriteTiming, WriteEnabled, Serving, Leave
  <1>2. \A j \in DOMAIN jobs : jobs[j] \in JobRows
    BY DEF SchedulesInv, SchedulesType
  <1>3. Asked \in Waiting /\ Asked.at \in Nat /\ Asked.on \in BOOLEAN /\ Asked.repeats \in BOOLEAN
    BY <1>1, ServedIsToCome DEF Waiting
  <1>4. \A j \in DOMAIN jobs :
           /\ jobs'[j] \in JobRows /\ jobs'[j].name = jobs[j].name
           /\ jobs'[j].enabled = TRUE =>
                 0 < jobs'[j].next /\ \A r \in runs : r.at < jobs'[j].next
    <2> TAKE j \in DOMAIN jobs
    <2>1. CASE jobs'[j] = jobs[j]
      BY <1>2, <2>1 DEF SchedulesInv, Recorded
    <2>2. CASE WriteTiming /\ jobs'[j] = [jobs[j] EXCEPT !.next = Asked.at, !.repeats = Asked.repeats]
      <3>1. jobs'[j] \in JobRows /\ jobs'[j].name = jobs[j].name /\ jobs'[j].next = Asked.at
        BY <1>2, <1>3, <2>2 DEF JobRows
      <3>2. SetsTime(Asked)
        BY <2>2 DEF WriteTiming, Serving, Asked, SetsTime
      <3> QED BY <1>1, <3>1, <3>2, ServedIsToCome
    <2>3. CASE WriteEnabled /\ jobs'[j] = [jobs[j] EXCEPT !.enabled = Asked.on, !.next = Asked.at]
      <3>1. /\ jobs'[j] \in JobRows /\ jobs'[j].name = jobs[j].name /\ jobs'[j].next = Asked.at
            /\ jobs'[j].enabled = Asked.on
        BY <1>2, <1>3, <2>3 DEF JobRows
      <3>2. Asked.on = TRUE => SetsTime(Asked)
        BY <2>3 DEF WriteEnabled, Serving, Asked, SetsTime
      <3> QED BY <1>1, <3>1, <3>2, ServedIsToCome
    <2> QED BY <2>1, <2>2, <2>3 DEF WriteTiming, WriteEnabled
  <1>5. SchedulesType'
    BY <1>1, <1>4 DEF SchedulesInv, SchedulesType
  <1>6. NamesUnique'
    BY <1>1, <1>4 DEF SchedulesInv, NamesUnique
  <1> QED BY <1>1, <1>4, <1>5, <1>6, ServedKeeps

\* What is due when it is handled has no history yet, and moves past the promotion.
LEMMA PromotionKeeps == ASSUME SchedulesInv, PromoteDue PROVE SchedulesInv'
  <1> DEFINE now     == Asked.at
             handled == Due(now)
             new     == {r \in UNION {Runs(j) : j \in handled} : Unrecorded(r)}
  <1>1. /\ queue # <<>> /\ Asked.op = "promote" /\ queue' = Tail(queue) /\ UNCHANGED <<clock, created>>
        /\ seen' = seen \cup {<<j, jobs[j].next>> : j \in handled}
        /\ runs' = runs \cup new
        /\ jobs' = [j \in DOMAIN jobs |-> IF j \in handled THEN Advanced(j, now) ELSE jobs[j]]
    BY DEF PromoteDue, Serving, Asked, Leave
  <1>2. /\ now \in Nat /\ now <= clock /\ clock \in Nat /\ clock <= MaxClock
        /\ MaxClock \in Nat
    BY <1>1, ServedIsToCome, TimesAreNat, ScheduleAssumption DEF Waiting, SchedulesInv, SchedulesType
  <1>3. \A j \in handled :
           /\ j \in DOMAIN jobs /\ jobs[j].enabled = TRUE /\ jobs[j].next <= now
    BY DEF Due, SchedulesInv, SchedulesType, JobRows
  <1>4. \A j \in DOMAIN jobs : jobs[j] \in JobRows
    BY DEF SchedulesInv, SchedulesType
  <1> HIDE DEF now, handled
  <1>5. \A r \in new : \E j \in handled : r = [name |-> jobs[j].name, at |-> jobs[j].next, job |-> j]
    BY DEF Runs
  <1>6. \A r \in new : r.at \in Nat /\ r.at <= now
    BY <1>3, <1>4, <1>5 DEF JobRows
  <1>7. \A j \in handled : [name |-> jobs[j].name, at |-> jobs[j].next, job |-> j] \in new
    <2> TAKE j \in handled
    <2> DEFINE r == [name |-> jobs[j].name, at |-> jobs[j].next, job |-> j]
    <2>1. \A o \in runs : o.at < jobs[j].next /\ o.at \in Nat /\ jobs[j].next \in Nat
      BY <1>3, <1>4 DEF SchedulesInv, Recorded, JobRows
    <2>2. Unrecorded(r)
      BY <2>1 DEF Unrecorded
    <2>3. r \in Runs(j)
      BY DEF Runs
    <2> QED BY <2>2, <2>3
  <1>8. \A r \in runs : r.at \in Nat /\ r.at <= clock
    BY DEF SchedulesInv, Recorded
  <1>9. \A j \in handled :
           /\ Advanced(j, now) \in JobRows /\ Advanced(j, now).name = jobs[j].name
           /\ Advanced(j, now).enabled = TRUE => Advanced(j, now).next > now
    <2> TAKE j \in handled
    <2>1. jobs[j] \in JobRows /\ jobs[j].next \in Nat /\ jobs[j].next <= now
      BY <1>3, <1>4 DEF JobRows
    <2>2. NextAfter(jobs[j].next, now) \in Nat /\ NextAfter(jobs[j].next, now) > now
      BY <1>2, <2>1, NextIsLater
    <2> QED BY <2>1, <2>2 DEF Advanced, JobRows, Null
  <1> HIDE DEF new
  <1>10. SchedulesType'
    BY <1>1, <1>3, <1>4, <1>9 DEF SchedulesInv, SchedulesType
  <1>11. NamesUnique'
    BY <1>1, <1>3, <1>9 DEF SchedulesInv, NamesUnique
  <1>12. InLine(queue)'
    <2>1. InLine(queue)
      BY DEF SchedulesInv
    <2>2. /\ queue' \in Seq(Waiting)
          /\ \A k \in 1..Len(queue') : queue'[k] = queue[k + 1] /\ k + 1 \in 1..Len(queue)
          /\ InLine(queue') /\ Asked = queue[1] /\ 1 \in 1..Len(queue)
      BY <1>1, <2>1, Leaves DEF InLine, Asked
    <2>3. \A k \in 1..Len(queue') : SetsTime(queue'[k]) => now < queue'[k].at
      <3> TAKE k \in 1..Len(queue')
      <3> HAVE SetsTime(queue'[k])
      <3>1. queue'[k] = queue[k + 1] /\ k + 1 \in 1..Len(queue) /\ 1 < k + 1
        BY <2>2
      <3> QED BY <1>1, <2>1, <2>2, <3>1 DEF InLine, now
    <2>4. \A k \in 1..Len(queue') : queue'[k].at \in Nat
      <3>1. \A k \in 1..Len(queue') : queue'[k] \in Waiting BY <2>2
      <3> QED BY <3>1 DEF Waiting
    <2>5. \A k \in 1..Len(queue') : SetsTime(queue'[k]) =>
             0 < queue'[k].at /\ \A r \in runs' : r.at < queue'[k].at
      BY <1>1, <1>2, <1>6, <2>2, <2>3, <2>4 DEF InLine
    <2> QED BY <1>1, <2>2, <2>5 DEF InLine
  <1>13. Recorded'
    <2>1. \A r \in runs' : r.at \in Nat /\ r.at <= clock'
      BY <1>1, <1>2, <1>6, <1>8
    <2>2. ASSUME NEW j \in DOMAIN jobs', jobs'[j].enabled = TRUE, NEW r \in runs'
          PROVE  0 < jobs'[j].next /\ r.at < jobs'[j].next
      <3>1. CASE j \in handled
        <4>1. jobs'[j] = Advanced(j, now) /\ jobs'[j].next > now /\ jobs'[j].next \in Nat
          BY <1>1, <1>9, <2>2, <3>1 DEF JobRows
        <4>2. jobs[j].next <= now /\ jobs[j].next \in Nat /\ jobs[j].enabled = TRUE
          BY <1>3, <1>4, <3>1 DEF JobRows
        <4>3. r \in runs => r.at < jobs[j].next
          BY <1>3, <3>1 DEF SchedulesInv, Recorded
        <4> QED BY <1>1, <1>2, <1>6, <1>8, <4>1, <4>2, <4>3
      <3>2. CASE j \notin handled
        <4>1. j \in DOMAIN jobs /\ jobs'[j] = jobs[j] /\ jobs[j].enabled = TRUE
          BY <1>1, <2>2, <3>2
        <4>2. 0 < jobs[j].next /\ \A o \in runs : o.at < jobs[j].next
          BY <4>1 DEF SchedulesInv, Recorded
        <4>3. r \in new => jobs[j].next > now
          <5> HAVE r \in new
          <5>1. jobs[j].next = Null \/ jobs[j].next > now \/ <<j, jobs[j].next>> \in seen
            <6>1. jobs[j].next \in Nat
              BY <1>4, <4>1 DEF JobRows
            <6> QED BY <1>2, <3>2, <4>1, <6>1 DEF Due, handled
          <5>2. ASSUME <<j, jobs[j].next>> \in seen PROVE FALSE
            <6>1. PICK o \in runs : o.at = <<j, jobs[j].next>>[2]
              BY <5>2 DEF SchedulesInv, OccurrenceRecorded
            <6>2. o.at = jobs[j].next /\ o.at < jobs[j].next /\ o.at \in Nat
              BY <1>8, <4>2, <6>1
            <6> QED BY <6>2
          <5>3. jobs[j].next # Null
            BY <4>2 DEF Null
          <5> QED BY <5>1, <5>2, <5>3
        <4>4. jobs[j].next \in Nat
          BY <1>4, <4>1 DEF JobRows
        <4> QED BY <1>1, <1>2, <1>6, <4>1, <4>2, <4>3, <4>4
      <3> QED BY <3>1, <3>2
    <2>3. ASSUME NEW j \in DOMAIN jobs', jobs'[j].enabled = TRUE
          PROVE  0 < jobs'[j].next
      <3>1. CASE j \in handled
        BY <1>1, <1>2, <1>9, <2>3, <3>1 DEF JobRows
      <3>2. CASE j \notin handled
        BY <1>1, <2>3, <3>2 DEF SchedulesInv, Recorded
      <3> QED BY <3>1, <3>2
    <2> QED BY <2>1, <2>2, <2>3 DEF Recorded
  <1>14. OneRowEach'
    <2>1. \A r, o \in new : r.name = o.name /\ r.at = o.at => r = o
      BY <1>3, <1>5 DEF SchedulesInv, NamesUnique
    <2>2. \A r \in new, o \in runs : ~(r.name = o.name /\ r.at = o.at)
      BY DEF new, Unrecorded
    <2> QED BY <1>1, <2>1, <2>2 DEF SchedulesInv, OneRowEach
  <1>15. OccurrenceRecorded'
    <2>1. ASSUME NEW o \in seen PROVE \E r \in runs' : r.job = o[1] /\ r.at = o[2]
      BY <1>1 DEF SchedulesInv, OccurrenceRecorded
    <2>2. ASSUME NEW j \in handled
          PROVE  \E r \in runs' : r.job = <<j, jobs[j].next>>[1] /\ r.at = <<j, jobs[j].next>>[2]
      <3> DEFINE r == [name |-> jobs[j].name, at |-> jobs[j].next, job |-> j]
      <3>1. r \in runs'
        BY <1>1, <1>7
      <3>2. r.job = j /\ r.at = jobs[j].next
        OBVIOUS
      <3>3. <<j, jobs[j].next>>[1] = j /\ <<j, jobs[j].next>>[2] = jobs[j].next
        OBVIOUS
      <3> HIDE DEF r
      <3> QED BY <3>1, <3>2, <3>3
    <2> QED BY <1>1, <2>1, <2>2 DEF OccurrenceRecorded
  <1> QED BY <1>10, <1>11, <1>12, <1>13, <1>14, <1>15 DEF SchedulesInv

\* Every step of Schedules keeps the invariant.
LEMMA SchedulesStep == ASSUME SchedulesInv, [Next]_schedules PROVE SchedulesInv'
  <1>1. CASE UNCHANGED schedules
    BY <1>1 DEF schedules, SchedulesInv, SchedulesType, InLine, NamesUnique, Recorded, OneRowEach,
                OccurrenceRecorded
  <1>2. CASE OwnerAsks \/ AskPromotion
    BY <1>2, AsksKeep
  <1>3. CASE Serve
    <2>1. CASE InsertNow
      <3>1. queue # <<>> /\ queue' = Tail(queue) /\ UNCHANGED <<clock, jobs, created, seen, runs>>
        BY <2>1 DEF InsertNow, Serving, Leave
      <3> QED BY <3>1, ServedIsToCome, OnlyTheLine
    <2> QED BY <1>3, <2>1, FindKeeps, LookKeeps, CreateKeeps, RenameKeeps, WritesKeep, PromotionKeeps DEF Serve
  <1>4. CASE \E k \in TaskKeys : TaskRuns(k) \/ RetryTask(k) \/ DeleteTask(k)
    <2>1. UNCHANGED <<clock, jobs, created, seen, runs, queue>>
      BY <1>4 DEF TaskRuns, RetryTask, DeleteTask, TaskMoves
    <2> QED BY <2>1, OnlyTheLine DEF SchedulesInv
  <1>5. CASE Tick
    <2>1. clock < MaxClock /\ clock' = clock + 1 /\ UNCHANGED <<jobs, created, seen, runs, queue>>
      BY <1>5 DEF Tick
    <2>2. clock \in Nat /\ clock' \in Nat /\ clock <= clock' /\ MaxClock \in Nat
      BY <2>1, TimesAreNat, ScheduleAssumption
    <2>3. SchedulesType'
      BY <2>1, <2>2 DEF SchedulesInv, SchedulesType
    <2>4. \A k \in 1..Len(queue) : queue[k] \in Waiting
      BY DEF SchedulesInv, InLine
    <2>5. InLine(queue)'
      BY <2>1, <2>2, <2>4 DEF SchedulesInv, InLine, Waiting
    <2>6. Recorded'
      BY <2>1, <2>2 DEF SchedulesInv, Recorded
    <2> QED BY <2>1, <2>3, <2>5, <2>6 DEF SchedulesInv, NamesUnique, OneRowEach, OccurrenceRecorded
  <1>6. CASE Restart
    <2>1. UNCHANGED <<clock, jobs, created, seen, runs>> /\ queue' = <<>>
      BY <1>6 DEF Restart
    <2>2. InLine(<<>>)
      BY DEF InLine
    <2> QED BY <2>1, <2>2, OnlyTheLine
  <1> QED BY <1>1, <1>2, <1>3, <1>4, <1>5, <1>6 DEF Next

\* Every occurrence taken, also a skipped one, has a history row of its own.
THEOREM OccurrencesHaveTheirRow == AllSpec => [](OccurrenceRecorded /\ OneRowEach)
  <1>1. AllInit => SchedulesInv
    <2> SUFFICES ASSUME AllInit PROVE SchedulesInv OBVIOUS
    <2>1. clock = 1 /\ jobs = <<>> /\ created = 0 /\ seen = {} /\ runs = {} /\ queue = <<>>
      BY PartsStart DEF Init
    <2>2. SchedulesType
      BY <2>1, ScheduleAssumption DEF SchedulesType
    <2>3. InLine(queue)
      BY <2>1 DEF InLine
    <2> QED BY <2>1, <2>2, <2>3
            DEF SchedulesInv, NamesUnique, Recorded, OneRowEach, OccurrenceRecorded
  <1>2. SchedulesInv /\ [AllNext]_allVars => SchedulesInv' BY OneAtATime, SchedulesStep
  <1>3. SchedulesInv => OccurrenceRecorded /\ OneRowEach BY DEF SchedulesInv
  <1> QED BY <1>1, <1>2, <1>3, PTL DEF AllSpec
=============================================================================
