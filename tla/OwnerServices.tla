--------------------------- MODULE OwnerServices ---------------------------
(***************************************************************************)
(* What the bridge does around the execution of the owner's tasks: the     *)
(* files and texts that become tasks, the files of a task while it lives,  *)
(* the free models' daily quota, the agent's questions, the panel, the     *)
(* names of schedules, the status message, the pages of an answer, and the *)
(* start and stop of the process with its services.                        *)
(* What one hands to another (a prompt, an answer) is an end of it here,   *)
(* so a behaviour explores one of them, said by part, and leaves the       *)
(* others as they start.                                                   *)
(*                                                                         *)
(* Schedules keeps its own names; constants and variables of another       *)
(* component that share a name with them or with each other are renamed.   *)
(***************************************************************************)
EXTENDS Schedules

CONSTANTS
    Files, Texts, MaxFiles, MaxUpsets,                      \* Intake
    Posed, Multiple, Labels, MaxTroubles,                   \* Questions
    Lists, Page, Listed, MaxPresses,                        \* Panel
    MaxLines, PageSize, MaxRows, MaxFollowups, MaxRefused,  \* Pages
    Live, MaxTrail,                                         \* Progress
    Executors, Written, MaxSent, MaxMishaps,                \* TaskFiles
    Waiters, Daily, Paid, Slots, Renewals,                  \* DailyQuota
    MaxTime, MaxFailures, MaxStops,
    MaxAttempts, MaxRaises, MaxLives                        \* Startup

ASSUME OwnerAssumption ==
    /\ {MaxFiles, MaxUpsets, MaxTroubles, MaxPresses, MaxLines, MaxRows, MaxFollowups, MaxRefused,
        MaxTrail, MaxSent, MaxMishaps, MaxTime, MaxFailures, MaxStops,
        MaxRaises, MaxLives} \subseteq Nat
    /\ MaxAttempts \in Nat \ {0}
    /\ Multiple \subseteq Posed /\ Posed = 1..Cardinality(Posed)
    /\ Lists \subseteq {"file", "key", "hostkey", "backup"}
    /\ Page \in Nat \ {0} /\ PageSize \in Nat \ {0} /\ Live \in BOOLEAN
    /\ Written \subseteq Nat /\ Daily \cup Paid \subseteq Waiters /\ Slots \in Nat \ {0}
    /\ Renewals \in {"noon", "midnight"}

VARIABLES
    part,
    disk, album, pending, job, draft, made, last, upsets,
    agent, got, card, known, chosen, typing, permission, decided, troubles,
    trusted, wait, wizard, confirm, items, rows, listed, done, asked, outside,
    text, sending, shown, refused,
    turn, message, target, reader, editing, buffer, previewing, recent, trail,
    saved, resting, answered, place, cancelled, rejected,
    recorded, fetch, input, row, resumable, work, at, left, todo, sent, told, missed, stop,
    forgiven, stray, mishaps,
    time, spent, pause, model, stage, due, failures, reset, hasty, limited, stops,
    phase, attempt, step, assigned, running, lame, active, stale, signalled, clean, raises, lives

schedules == <<clock, jobs, created, seen, runs, tasks, queue, crashes>>
intake    == <<disk, album, pending, job, draft, made, last, upsets>>
questions == <<agent, got, card, known, chosen, typing, permission, decided, troubles>>
panel     == <<trusted, wait, wizard, confirm, items, rows, listed, done, asked, outside>>
pages     == <<text, sending, shown, refused>>
progress  == <<turn, message, target, reader, editing, buffer, previewing, recent, trail,
               saved, resting, answered, place, cancelled, rejected>>
files     == <<recorded, fetch, input, row, resumable, work, at, left, todo, sent, told,
               missed, stop, forgiven, stray, mishaps>>
quota     == <<time, spent, pause, model, stage, due, failures, reset, hasty, limited, stops>>
process   == <<phase, attempt, step, assigned, running, lame, active, stale, signalled, clean,
               raises, lives>>
allVars   == <<part, schedules, intake, questions, panel, pages, progress, files, quota, process>>

Incoming == INSTANCE Intake WITH tasks <- made

Interactions == INSTANCE Questions WITH
    Asked <- Posed, MaxUpsets <- MaxTroubles, upsets <- troubles

Chat == INSTANCE Panel WITH Tasks <- Listed, Jobs <- Listed, queue <- rows, jobs <- listed

Answer == INSTANCE Pages

Status == INSTANCE Progress WITH shown <- message, refused <- rejected

Own == INSTANCE TaskFiles

Bucket == INSTANCE DailyQuota WITH Tasks <- Waiters, refused <- limited

Bot == INSTANCE Startup

AllInit ==
    /\ part \in {"schedules", "intake", "questions", "panel", "pages", "progress",
                 "files", "quota", "process"}
    /\ Init /\ Incoming!Init /\ Interactions!Init /\ Chat!Init /\ Answer!Init /\ Status!Init
    /\ Own!Init /\ Bucket!Init /\ Bot!Init
    /\ part # "panel" => trusted
    /\ part # "files" => ~recorded
    /\ part # "quota" => \A t \in Waiters : model[t] = "free"

OnlySchedules ==
    /\ part = "schedules" /\ Next
    /\ UNCHANGED <<part, intake, questions, panel, pages, progress, files, quota, process>>

OnlyIntake ==
    /\ part = "intake" /\ Incoming!Next
    /\ UNCHANGED <<part, schedules, questions, panel, pages, progress, files, quota, process>>

OnlyQuestions ==
    /\ part = "questions" /\ Interactions!Next
    /\ UNCHANGED <<part, schedules, intake, panel, pages, progress, files, quota, process>>

OnlyPanel ==
    /\ part = "panel" /\ Chat!Next
    /\ UNCHANGED <<part, schedules, intake, questions, pages, progress, files, quota, process>>

OnlyPages ==
    /\ part = "pages" /\ Answer!Next
    /\ UNCHANGED <<part, schedules, intake, questions, panel, progress, files, quota, process>>

OnlyProgress ==
    /\ part = "progress" /\ Status!Next
    /\ UNCHANGED <<part, schedules, intake, questions, panel, pages, files, quota, process>>

OnlyFiles ==
    /\ part = "files" /\ Own!Next
    /\ UNCHANGED <<part, schedules, intake, questions, panel, pages, progress, quota, process>>

OnlyQuota ==
    /\ part = "quota" /\ Bucket!Next
    /\ UNCHANGED <<part, schedules, intake, questions, panel, pages, progress, files, process>>

OnlyProcess ==
    /\ part = "process" /\ Bot!Next
    /\ UNCHANGED <<part, schedules, intake, questions, panel, pages, progress, files, quota>>

AllNext ==
    \/ OnlySchedules \/ OnlyIntake \/ OnlyQuestions
    \/ OnlyPanel \/ OnlyPages \/ OnlyProgress
    \/ OnlyFiles \/ OnlyQuota \/ OnlyProcess

AllSpec == AllInit /\ [][AllNext]_allVars
-----------------------------------------------------------------------------
\* Intake: the files the owner sends go to one instruction and no other, and an
\* instruction delivered again makes no second task.
OneInstruction == Incoming!OneInstruction

\* Questions: a card says what the agent was told, and no more.
CardsTellTrue == Interactions!CardsTellTrue

\* Panel: an operation runs at most once for each confirmation asked.
ConfirmedOnce == Chat!ConfirmedOnce

\* Pages: an answer arrives complete but for what Telegram refuses.
AnswerArrives == Answer!AnswerArrives

\* Progress: what was recorded of a turn is kept when it ends, but for what the reader
\* adds after the answer when its last write is cut off.
TrailKept == Status!TrailKept

\* TaskFiles: a task has its files as long as it may run and no longer, and what the
\* agent leaves is sent before it is told complete.
FilesFollowTask == Own!FilesFollowTask

\* DailyQuota: one refusal holds every free prompt while the pause lasts, and a daily job ends
\* only where its agent declares it complete.
QuotaKept == Bucket!QuotaKept

\* Startup: whatever attempts fail half-way, no service runs twice and none is
\* missing, and no worker starts beside what the process before left running.
StartedOnce == Bot!StartedOnce
=============================================================================
