--------------------------- MODULE TimedServices ---------------------------
(***************************************************************************)
(* The services that act for the owner when a time has come: reminders,    *)
(* named schedules and the clean-up of downloads.  They share no state, so *)
(* a behaviour explores one of them, said by part, and leaves the others   *)
(* as they start.  Reminders' names are used as they are; those of the     *)
(* others that clash are renamed.                                          *)
(***************************************************************************)
EXTENDS Reminders

CONSTANTS
    MaxJobs, Names, PlanClock, Period, Commands, MaxPlanCrashes,    \* Schedules
    Slots, MaxFile, MaxTotal, MaxDeaths                             \* Downloads

ASSUME StoreAssumption ==
    /\ IsFiniteSet(Slots)
    /\ MaxFile \in Nat \ {0} /\ MaxTotal \in Nat \ {0} /\ MaxFile <= MaxTotal
    /\ MaxDeaths \in Nat

VARIABLES
    part,
    now, plans, created, seen, runs, tasks, line, planCrashes,
    night, file, size, index, age, lock, pc, snap, doomed, fetch, budget, busy, due, missed,
    deaths

reminders == <<rows, clock, batch, outcome, sends, crashes, storeErrors>>
schedules == <<now, plans, created, seen, runs, tasks, line, planCrashes>>
downloads == <<night, file, size, index, age, lock, pc, snap, doomed, fetch, budget, busy, due,
               missed, deaths>>
allVars   == <<part, reminders, schedules, downloads>>

Plan == INSTANCE Schedules WITH
    MaxClock <- PlanClock, MaxCrashes <- MaxPlanCrashes,
    clock <- now, jobs <- plans, queue <- line, crashes <- planCrashes

Store == INSTANCE Downloads WITH MaxCrashes <- MaxDeaths, crashes <- deaths

AllInit ==
    part \in {"reminders", "schedules", "downloads"} /\ Init /\ Plan!Init /\ Store!Init

OnlyReminders == part = "reminders" /\ Next /\ UNCHANGED <<part, schedules, downloads>>
OnlySchedules == part = "schedules" /\ Plan!Next /\ UNCHANGED <<part, reminders, downloads>>
OnlyDownloads == part = "downloads" /\ Store!Next /\ UNCHANGED <<part, reminders, schedules>>

AllNext == OnlyReminders \/ OnlySchedules \/ OnlyDownloads

\* The fairness of Reminders!FairSpec, of Schedules!FairSpec and of
\* Downloads!FairSpec.
AllSpec ==
    /\ AllInit /\ [][AllNext]_allVars
    /\ WF_reminders(part = "reminders" /\ ClaimDue)
    /\ WF_reminders(part = "reminders" /\ Send)
    /\ WF_reminders(part = "reminders" /\ MarkSent)
    /\ WF_reminders(part = "reminders" /\ MarkAttemptFailed)
    /\ WF_reminders(part = "reminders" /\ Tick)
    /\ WF_schedules(part = "schedules" /\ Plan!Tick)
    /\ WF_schedules(part = "schedules" /\ Plan!AskPromotion)
    /\ WF_schedules(part = "schedules" /\ Plan!Serve)
    /\ SF_downloads(part = "downloads" /\ Store!Tick)
    /\ SF_downloads(part = "downloads" /\ Store!Gate("task"))
    /\ WF_downloads(part = "downloads" /\ (Store!TakeLock \/ Store!GiveUpLock))
    /\ WF_downloads(part = "downloads" /\ Store!Refuse)
    /\ WF_downloads(part = "downloads" /\ \E d \in Slots : Store!Transfer(d))
    /\ \A a \in Store!Actors : WF_downloads(part = "downloads" /\ Store!Clean(a))
-----------------------------------------------------------------------------
\* Schedules: promote_due never starts a second execution beside an open one.
OverlapOnlyByOwner == Plan!OverlapOnlyByOwner

\* Schedules: a schedule that comes due moves on.
DueMovesOn == Plan!DueMovesOn

\* Downloads: an index entry has its complete file, and what is stored keeps to the
\* owner's quota, but for what deaths stray.
StoreKept == Store!StoreKept

\* Downloads: a download expires, or the owner is told the clean-up missed it.
Expires == Store!Expires
=============================================================================
