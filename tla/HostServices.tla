---------------------------- MODULE HostServices ----------------------------
(***************************************************************************)
(* What looks after the host and the agent's installation: the owner's     *)
(* policy with the panel and the maintenance that must obey it, the guard  *)
(* that reboots, the watchdog, the packages, the skills, the provider keys,*)
(* the choice of a model, how many workers the host's load allows, the     *)
(* activation of a built artifact and the local snapshots of the database. *)
(* None reads what another writes, so a behaviour explores one of them,    *)
(* said by part, and leaves the others as they start.                      *)
(***************************************************************************)
EXTENDS Naturals

CONSTANTS
    Modes, MaxDeaths,                            \* HostControl
    MaxRequests, MaxKills,                       \* RebootGuard
    Hour, Cooldown, MaxRestarts,                 \* Watchdog
    Tools, Core, Provisioned, MaxOutside,        \* Tools
    Names, MaxUpsets,                            \* Skills
    Keys, Requests, Carried, MaxSpent,           \* Credentials
    Owners, Catalogs, Default, PinDefault, MaxEvents, \* Models
    Workers, Hosts, Recovery, Window,            \* WorkerLimit
    MinSamples, MinAgreement, MaxMean, MaxDelta, MaxAggressive,
    Stable, PersistEvery, MaxAge, MaxEnds,
    Releases, MaxWrites, MaxTries, MaxAborts,    \* Activation
    MaxMade, Retention, MaxStops, MaxRots,       \* Backups
    Nobody, NaN                                  \* Settings

ASSUME HostAssumption ==
    /\ Modes \subseteq {"off", "notify", "auto-safe", "maintenance-window", "emergency-stop"}
    /\ {MaxDeaths, MaxRequests, MaxKills, MaxOutside, MaxUpsets, MaxSpent, MaxEvents} \subseteq Nat
    /\ {Hour, Cooldown, MaxRestarts} \subseteq Nat \ {0}
    /\ Core \subseteq Tools /\ Provisioned \subseteq Tools
    /\ Carried \subseteq SUBSET {"variant", "parts"}
    /\ (\A c \in Catalogs : DOMAIN c \subseteq Nat \ {0}) /\ Default \in Nat
    /\ Workers \in 1..2 /\ Recovery \in Nat \ {0} /\ Stable \in Nat \ {0}
    /\ Hosts \subseteq [mem : 0..3, psi : 0..3, swap : 0..3, load : 0..3, disk : 0..3,
                       cpus : Nat, total : {"small", "medium", "large"}]
    /\ {PersistEvery, MaxAge, MaxEnds, Window} \subseteq Nat /\ MinSamples \in 1..Window
    /\ Releases \subseteq Nat \ {0} /\ {MaxWrites, MaxTries, MaxAborts} \subseteq Nat
    /\ MaxMade \in Nat \ {0} /\ {Retention, MaxStops, MaxRots} \subseteq Nat

VARIABLES
    part,
    mode, legacy, osUpdate, setting, guard, unit, due, maint, deaths,
    request, decision, pressing, script, late, working, needed, said, unheard, crossed,
    kills,
    agent, strained, stored, at, history, found, tried,
    pkg, policy, readable, captured, op, outside,
    repo, disk, loaded, managed, flag, step, work, spoilt, upsets,
    keys, active, auto, server, lock, closed, prompt, spent, troubles,
    catalog, cache, preferred, scouted, pref, session, tap, sweep, turn, saved, events,
    host, limit, pressed, raised, level, deltas, since, advised, file, unsaved, calm, earned, ends,
    current, staged, db, backups, identity, units, bot, bound, job, stage, target, previous, switched,
    changed, begun, before, written, tries, aborts,
    archive, meta, kind, age, made, doing, handled, todo, kept, gone, stops, rots

control  == <<mode, legacy, osUpdate, setting, guard, unit, due, maint, deaths>>
reboot   == <<request, decision, pressing, script, late, working, needed, said, unheard,
              crossed, kills>>
watchdog == <<agent, strained, stored, at, history, found, tried>>
packages == <<pkg, policy, readable, captured, op, outside>>
skills   == <<repo, disk, loaded, managed, flag, step, work, spoilt, upsets>>
inventory == <<keys, active, auto, server, lock, closed, prompt, spent, troubles>>
choice    == <<catalog, cache, preferred, scouted, pref, session, tap, sweep, turn, saved,
               events>>
capacity  == <<host, limit, pressed, raised, level, deltas, since, advised, file, unsaved,
               calm, earned, ends>>
artifact  == <<current, staged, db, backups, identity, units, bot, bound, job, stage, target, previous,
               switched, changed, begun, before, written, tries, aborts>>
snapshots == <<archive, meta, kind, age, made, doing, handled, todo, kept, gone, stops, rots>>

vars == <<part, control, reboot, watchdog, packages, skills, inventory, choice,
          capacity, artifact, snapshots>>

Control   == INSTANCE HostControl
Reboot    == INSTANCE RebootGuard
Dog       == INSTANCE Watchdog
Packages  == INSTANCE Tools WITH Keys <- Tools
Learned   == INSTANCE Skills
Inventory == INSTANCE Credentials WITH MaxUpsets <- MaxSpent, upsets <- troubles
Choice    == INSTANCE Models WITH upsets <- events
Capacity  == INSTANCE WorkerLimit
Artifact  == INSTANCE Activation WITH MaxKills <- MaxAborts, kills <- aborts
Snapshots == INSTANCE Backups WITH file <- archive, op <- doing, at <- handled

\* What the programs read when they start, Workers, Cooldown and MaxRestarts among it.
Config == INSTANCE Settings

Parts ==
    {"control", "reboot", "watchdog", "packages", "skills", "inventory", "choice",
     "capacity", "artifact", "snapshots"}

Init ==
    /\ part \in Parts
    /\ Control!Init /\ Reboot!Init /\ Dog!Init /\ Packages!Init /\ Learned!Init
    /\ Inventory!Init /\ Choice!Init /\ Capacity!Init
    /\ Artifact!Init /\ Snapshots!Init
    /\ part # "control" => ~legacy
    /\ part # "inventory" => keys = <<>> /\ ~closed
    /\ part # "capacity" => host = CHOOSE h \in Hosts : TRUE
    /\ part # "choice" => catalog = CHOOSE c \in Catalogs : TRUE

OnlyControl ==
    /\ part = "control" /\ Control!Next
    /\ UNCHANGED <<part, reboot, watchdog, packages, skills, inventory, choice,
                   capacity, artifact, snapshots>>

OnlyReboot ==
    /\ part = "reboot" /\ Reboot!Next
    /\ UNCHANGED <<part, control, watchdog, packages, skills, inventory, choice,
                   capacity, artifact, snapshots>>

OnlyWatchdog ==
    /\ part = "watchdog" /\ Dog!Next
    /\ UNCHANGED <<part, control, reboot, packages, skills, inventory, choice,
                   capacity, artifact, snapshots>>

OnlyPackages ==
    /\ part = "packages" /\ Packages!Next
    /\ UNCHANGED <<part, control, reboot, watchdog, skills, inventory, choice,
                   capacity, artifact, snapshots>>

OnlySkills ==
    /\ part = "skills" /\ Learned!Next
    /\ UNCHANGED <<part, control, reboot, watchdog, packages, inventory, choice,
                   capacity, artifact, snapshots>>

OnlyInventory ==
    /\ part = "inventory" /\ Inventory!Next
    /\ UNCHANGED <<part, control, reboot, watchdog, packages, skills, choice,
                   capacity, artifact, snapshots>>

OnlyChoice ==
    /\ part = "choice" /\ Choice!Next
    /\ UNCHANGED <<part, control, reboot, watchdog, packages, skills, inventory,
                   capacity, artifact, snapshots>>

OnlyCapacity ==
    /\ part = "capacity" /\ Capacity!Next
    /\ UNCHANGED <<part, control, reboot, watchdog, packages, skills, inventory,
                   choice, artifact, snapshots>>

OnlyArtifact ==
    /\ part = "artifact" /\ Artifact!Next
    /\ UNCHANGED <<part, control, reboot, watchdog, packages, skills, inventory,
                   choice, capacity, snapshots>>

OnlySnapshots ==
    /\ part = "snapshots" /\ Snapshots!Next
    /\ UNCHANGED <<part, control, reboot, watchdog, packages, skills, inventory,
                   choice, capacity, artifact>>

Next ==
    \/ OnlyControl \/ OnlyReboot \/ OnlyWatchdog \/ OnlyPackages
    \/ OnlySkills \/ OnlyInventory \/ OnlyChoice
    \/ OnlyCapacity \/ OnlyArtifact \/ OnlySnapshots

Spec == Init /\ [][Next]_vars
-----------------------------------------------------------------------------
\* HostControl: the owner's stop lets no change of the host through that was not let
\* through before, and what is stored of the policy never says otherwise.
PolicyKept == Control!PolicyKept

\* RebootGuard: the host reboots only as the owner was told and decided.
RebootAsSaid == Reboot!RebootAsSaid

\* Watchdog: so many restarts an hour, whatever dies.
RestartsBounded == Dog!RestartsBounded

\* Tools: "activate all" names every tool it leaves unusable.
ActivatedOrReported == Packages!ActivatedOrReported

\* Skills: the agent is never left with old skills for good.
ReloadNotLost == Learned!ReloadNotLost

\* Credentials: the agent server uses the key the owner's file calls active, whose
\* PUT never arrives under run_v3.
KeysServe == Inventory!KeyInUse

\* Models: a turn runs on the model the owner pinned, a resumed one on that it began with.
TurnOnPin == Choice!TurnOnPin

\* WorkerLimit: more workers, and the advice for a policy that would allow more,
\* are earned by time spent under observation.
EarnedByTime == Capacity!EarnedByTime

\* Activation: one that passed has the bot started under what it says, one that failed
\* left the link and the identity as they were.
OutcomeTrue == Artifact!OutcomeTrue

\* Backups: a purge leaves two newer snapshots of the kind that can be restored.
TwoRemain == Snapshots!TwoRemain
=============================================================================
