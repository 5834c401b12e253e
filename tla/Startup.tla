------------------------------- MODULE Startup -------------------------------
(***************************************************************************)
(* The life of the bot's process: up to ten attempts to bring up its       *)
(* services one after the other (bot.py, run_v3.py and the plugins), each  *)
(* attempt from the beginning over what the one before left, then polling, *)
(* then the shutdown in the other order.                                   *)
(***************************************************************************)
EXTENDS Naturals, Sequences, FiniteSets

CONSTANTS
    MaxAttempts,  \* ten in the code
    MaxRaises,    \* bound on steps that raise
    MaxLives      \* bound on processes

VARIABLES
    phase,     \* "starting", "polling", "stopping", "gone"
    attempt,
    step,      \* how many steps of the attempt, or of the shutdown, are done
    assigned,  \* services whose module-level variable is set
    running,   \* how many instances of each service run
    lame,      \* ghost: services whose own start raised in this process
    active, stale,  \* rows running in the database: of this process, of one before
    signalled, \* SIGTERM came
    clean,     \* ghost: the process ended by a shutdown that did not raise
    raises, lives

bounds == <<raises, lives>>
vars == <<phase, attempt, step, assigned, running, lame, active, stale, signalled, clean, bounds>>

\* The steps of an attempt.  Those that only speak to Telegram or to the database
\* bring up nothing; "client" wraps the executor for workspaces, "loops" are those that
\* clean up attachments and synchronise skills, "downloads" cleans up downloads at
\* midnight, "commands" is set_my_commands.
Steps ==
    <<"initialize", "client", "store", "tasks", "loops", "downloads", "models", "commands",
      "plugins", "managed", "reminders", "resources", "watchdog">>

Services == {"client", "tasks", "loops", "downloads", "models", "managed", "reminders", "watchdog"}

\* What a step may trip over before it has set its variable, and after.
RaisesBefore == {"initialize", "store", "commands", "plugins", "managed", "resources"}
RaisesAfter  == {"client", "tasks", "models"}

\* The shutdown: what stops something, in its order.
Closing == <<"reminders", "watchdog", "managed", "loops", "models", "tasks", "client">>

Init ==
    /\ phase = "starting" /\ attempt = 1 /\ step = 0
    /\ assigned = {} /\ running = [s \in Services |-> 0] /\ lame = {}
    /\ active = FALSE /\ stale = FALSE /\ signalled = FALSE /\ clean = FALSE /\ raises = 0 /\ lives = 1

Current    == Steps[step + 1]
Starting   == phase = "starting" /\ step < Len(Steps)
Raise      == raises < MaxRaises /\ raises' = raises + 1
NextStep   == step' = step + 1 /\ UNCHANGED <<phase, attempt>>
Launched(s) == running' = [running EXCEPT ![s] = @ + 1]

\* post_init anew, five seconds per attempt later; the last attempt raises.
Again ==
    IF attempt = MaxAttempts THEN phase' = "gone" /\ UNCHANGED <<attempt, step>>
                             ELSE attempt' = attempt + 1 /\ step' = 0 /\ UNCHANGED phase

-----------------------------------------------------------------------------
\* Fault: the variables are not looked at.
BringUpAgain ==
    /\ Starting /\ NextStep
    /\ IF Current \notin Services THEN UNCHANGED <<assigned, running, stale>>
       ELSE /\ assigned' = assigned \cup {Current} /\ Launched(Current)
            /\ stale' = (stale /\ Current # "tasks")
    /\ UNCHANGED <<lame, active, signalled, clean, bounds>>

\* A service that was brought up, or whose variable was set, is passed over.
\* TaskServiceV3.start queues what the process before was executing, and then
\* starts the workers.
BringUp ==
    /\ Starting /\ NextStep
    /\ IF Current \notin Services \ assigned THEN UNCHANGED <<assigned, running, stale>>
       ELSE /\ assigned' = assigned \cup {Current} /\ Launched(Current)
            /\ stale' = (stale /\ Current # "tasks")
    /\ UNCHANGED <<lame, active, signalled, clean, bounds>>

Unreachable ==
    /\ Starting /\ Current \in RaisesBefore /\ Raise /\ Again
    /\ UNCHANGED <<assigned, running, lame, active, stale, signalled, clean, lives>>

\* The variable is set first: the next attempt takes the service for started.
StartRaises ==
    /\ Starting /\ Current \in RaisesAfter \ assigned /\ Raise /\ Again
    /\ assigned' = assigned \cup {Current} /\ lame' = lame \cup {Current}
    /\ UNCHANGED <<running, active, stale, signalled, clean, lives>>

\* app.start, start_polling: what they raise ends the process.
Poll ==
    /\ phase = "starting" /\ step = Len(Steps)
    /\ phase' = "polling" /\ step' = 0
    /\ UNCHANGED <<attempt, assigned, running, lame, active, stale, signalled, clean, bounds>>

PollRaises ==
    /\ phase = "starting" /\ step = Len(Steps) /\ Raise
    /\ phase' = "gone"
    /\ UNCHANGED <<attempt, step, assigned, running, lame, active, stale, signalled, clean, lives>>

\* The signal is heeded once the bot polls.
Sigterm ==
    /\ ~signalled /\ phase \in {"starting", "polling"} /\ signalled' = TRUE
    /\ UNCHANGED <<phase, attempt, step, assigned, running, lame, active, stale, clean, bounds>>

Stop ==
    /\ phase = "polling" /\ signalled /\ phase' = "stopping" /\ step' = 0
    /\ UNCHANGED <<attempt, assigned, running, lame, active, stale, signalled, clean, bounds>>

\* The workers are cancelled where they are.
Close ==
    /\ phase = "stopping" /\ step < Len(Closing)
    /\ NextStep
    /\ running' = [running EXCEPT ![Closing[step + 1]] = 0]
    /\ assigned' = assigned \ {Closing[step + 1]}
    /\ UNCHANGED <<lame, active, stale, signalled, clean, bounds>>

\* A close that raises leaves the rest to the end of the process.
CloseRaises ==
    /\ phase = "stopping" /\ step < Len(Closing) /\ Raise
    /\ phase' = "gone"
    /\ UNCHANGED <<attempt, step, assigned, running, lame, active, stale, signalled, clean, lives>>

Closed ==
    /\ phase = "stopping" /\ step = Len(Closing)
    /\ phase' = "gone" /\ clean' = TRUE
    /\ UNCHANGED <<attempt, step, assigned, running, lame, active, stale, signalled, bounds>>

\* A worker takes a task up; its row is running in the database until it ends.
Execute ==
    /\ running["tasks"] > 0 /\ phase # "gone" /\ active' = ~active
    /\ UNCHANGED <<phase, attempt, step, assigned, running, lame, stale, signalled, clean, bounds>>

Killed ==
    /\ phase # "gone" /\ Raise /\ phase' = "gone"
    /\ UNCHANGED <<attempt, step, assigned, running, lame, active, stale, signalled, clean, lives>>

\* systemd starts the next process, with nothing but the database.
Respawn ==
    /\ phase = "gone" /\ lives < MaxLives /\ lives' = lives + 1
    /\ phase' = "starting" /\ attempt' = 1 /\ step' = 0
    /\ assigned' = {} /\ running' = [s \in Services |-> 0] /\ lame' = {}
    /\ stale' = (stale \/ active) /\ active' = FALSE
    /\ signalled' = FALSE /\ clean' = FALSE
    /\ UNCHANGED raises

Next ==
    \/ BringUp \/ Unreachable \/ StartRaises \/ Poll \/ PollRaises \/ Sigterm
    \/ Stop \/ Close \/ CloseRaises \/ Closed \/ Execute \/ Killed \/ Respawn

Spec == Init /\ [][Next]_vars
-----------------------------------------------------------------------------
\* Whatever attempts failed half-way, no service runs twice, and a bot that polls
\* has all of them, but for those whose own start raised: these stay down until
\* the process ends.
NoneTwice   == \A s \in Services : running[s] <= 1
PollingUp   == phase = "polling" => \A s \in Services \ lame : running[s] = 1

\* No task is taken up beside an execution the process before left in the database
\* (docs/durable-task-resume.md:26).
RecoveredFirst == running["tasks"] > 0 => ~stale

\* A shutdown that ends leaves nothing of its own at work, but for the clean-up of
\* downloads, which nothing cancels (bot.py:1437-1451): it goes with the process.
ShutDown == clean => \A s \in Services \ {"downloads"} : running[s] = 0

StartedOnce == NoneTwice /\ PollingUp /\ RecoveredFirst /\ ShutDown
=============================================================================
