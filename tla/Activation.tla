----------------------------- MODULE Activation -----------------------------
(***************************************************************************)
(* The activation of a built artifact on the host, with its rollback       *)
(* (maintenance/activate_artifact.py, artifact_activation.py), beside the  *)
(* bot that systemd runs and that writes to the shared database.           *)
(*                                                                         *)
(* The bot's unit runs the checkout, never what the link names: activating *)
(* a release moves the link and the identity, installs the release's unit  *)
(* files, which name it to the bot, and proves that the services come up   *)
(* under them.  The unit files are not rolled back.                        *)
(*                                                                         *)
(* An administrator runs one activation at a time.  Any step may fail and  *)
(* the process may be killed anywhere.  What a check refuses before        *)
(* anything was changed (a stale commit, few resources, a running task, a  *)
(* bad manifest, an unsafe archive) is no step.                            *)
(***************************************************************************)
EXTENDS Integers, FiniteSets

CONSTANTS
    Releases,    \* commits that can be activated
    MaxWrites,   \* bound on what the bot writes
    MaxTries,    \* bound on activations
    MaxKills     \* bound on deaths of the process

VARIABLES
    current,     \* where the symlink points
    staged,      \* directories under releases/
    db,          \* what sessions.db holds: the writes that are in it
    backups,     \* of each release, the file named after its commit
    identity,    \* deployment-identity
    units,       \* the release whose unit files are installed
    bot,         \* the release whose unit files it was started with, or Down
    bound,       \* whether the bot's open file is still the shared database
    job,         \* a restart that systemd has accepted and not begun
    stage, target, previous, switched, changed,  \* the activation's locals
    begun,       \* ghost: what the database held when the bot was stopped
    before,      \* ghost: the identity then
    written, tries, kills

attempt == <<target, previous, begun, before>>
flags   == <<switched, changed>>
counts  == <<written, tries, kills>>
vars    == <<current, staged, db, backups, identity, units, bot, bound, job, stage, flags, attempt, counts>>

Legacy == 0
Down == -1
NoLink == -2
NoBackup == {0}

Ended == {"idle", "passed", "failed", "broken", "died"}

Init ==
    /\ current = NoLink /\ staged = {} /\ db = {} /\ identity = Legacy /\ units = Legacy
    /\ backups = [r \in Releases |-> NoBackup]
    /\ bot = Legacy /\ bound = TRUE /\ job = FALSE
    /\ stage = "idle" /\ target = Legacy /\ previous = Legacy
    /\ switched = FALSE /\ changed = FALSE /\ begun = {} /\ before = Legacy
    /\ written = 0 /\ tries = 0 /\ kills = 0

-----------------------------------------------------------------------------
(* The activation.                                                         *)

\* The directory is built under another name and moved, or was there already.
Begin(r) ==
    /\ stage \in Ended /\ tries < MaxTries
    /\ staged' = staged \cup {r}
    /\ target' = r /\ stage' = "staged" /\ before' = identity
    /\ switched' = FALSE /\ changed' = FALSE /\ tries' = tries + 1
    /\ UNCHANGED <<current, db, backups, identity, units, bot, bound, job, previous, begun, written, kills>>

\* The first activation makes the link, to the legacy checkout.
ReadCurrent ==
    /\ stage = "staged" /\ stage' = "read"
    /\ previous' = IF current = NoLink THEN Legacy ELSE current
    /\ current' = previous'
    /\ UNCHANGED <<staged, db, backups, identity, units, bot, bound, job, flags, target, begun, before, counts>>

\* Fault: the bot is left running until the restart.
StopBotLater == UNCHANGED <<bot, job>>

\* systemctl stop, which also takes back a start that is waiting.
StopBot == bot' = Down /\ job' = FALSE

Quiesce ==
    /\ stage = "read"
    /\ \/ stage' = "quiet" /\ StopBot
       \/ stage' = "failing" /\ (StopBot \/ UNCHANGED <<bot, job>>)
    /\ begun' = db
    /\ UNCHANGED <<current, staged, db, backups, identity, units, bound, flags, target, previous, before, counts>>

\* Only the first activation of a release makes one.
NeedsBackup(r) == backups[r] = NoBackup

BackUp ==
    /\ stage = "quiet"
    /\ \/ /\ stage' = "backedUp"
          /\ backups' = IF NeedsBackup(target) THEN [backups EXCEPT ![target] = db] ELSE backups
       \/ stage' = "failing" /\ UNCHANGED backups
    /\ UNCHANGED <<current, staged, db, identity, units, bot, bound, job, flags, attempt, counts>>

Prepare ==
    /\ stage = "backedUp"
    /\ \/ stage' = "prepared" /\ units' = target
       \/ stage' = "failing" /\ units' \in {units, target}
    /\ UNCHANGED <<current, staged, db, backups, identity, bot, bound, job, flags, attempt, counts>>

\* From here on the database may have changed, whatever was switched.
Switch ==
    /\ stage = "prepared" /\ stage' = "switched"
    /\ current' = target /\ switched' = (previous # target) /\ changed' = TRUE
    /\ UNCHANGED <<staged, db, backups, identity, units, bot, bound, job, attempt, counts>>

\* systemctl --no-block restart: accepted, not done; the answer may be lost.
Restart ==
    /\ stage = "switched"
    /\ \/ stage' = "restarted" /\ job' = TRUE
       \/ stage' = "failing" /\ UNCHANGED job
    /\ UNCHANGED <<current, staged, db, backups, identity, units, bot, bound, flags, attempt, counts>>

\* The bot is active, whichever it is, or forty seconds have gone.
Active == bot # Down

Smoke ==
    /\ stage = "restarted"
    /\ \/ stage' = "smoked" /\ Active
       \/ stage' = "failing"
    /\ UNCHANGED <<current, staged, db, backups, identity, units, bot, bound, job, flags, attempt, counts>>

Commit ==
    /\ stage = "smoked"
    /\ \/ stage' = "passed" /\ identity' = target
       \/ stage' = "failing" /\ UNCHANGED identity
    /\ UNCHANGED <<current, staged, db, backups, units, bot, bound, job, flags, attempt, counts>>

-----------------------------------------------------------------------------
(* The rollback.                                                           *)

SwitchBack ==
    /\ stage = "failing" /\ stage' = "reverted"
    /\ current' = IF switched THEN previous ELSE current
    /\ UNCHANGED <<staged, db, backups, identity, units, bot, bound, job, flags, attempt, counts>>

\* The file is replaced under whatever bot has it open; a failure here skips the
\* restart.
RestoreDatabase ==
    /\ stage = "reverted"
    /\ \/ /\ stage' = "restored"
          /\ db' = IF changed THEN backups[target] ELSE db
          /\ bound' = (bound /\ (changed => ~Active))
       \/ changed /\ stage' = "broken" /\ UNCHANGED <<db, bound>>
    /\ UNCHANGED <<current, staged, backups, identity, units, bot, job, flags, attempt, counts>>

RestartPrevious ==
    /\ stage = "restored"
    /\ \/ stage' = "retried" /\ job' = TRUE
       \/ stage' = "broken" /\ UNCHANGED job
    /\ UNCHANGED <<current, staged, db, backups, identity, units, bot, bound, flags, attempt, counts>>

SmokePrevious ==
    /\ stage = "retried"
    /\ \/ stage' = "failed" /\ Active
       \/ stage' = "broken"
    /\ UNCHANGED <<current, staged, db, backups, identity, units, bot, bound, job, flags, attempt, counts>>

Kill ==
    /\ stage \notin Ended /\ kills < MaxKills
    /\ stage' = "died" /\ kills' = kills + 1
    /\ UNCHANGED <<current, staged, db, backups, identity, units, bot, bound, job, flags, attempt, written, tries>>

-----------------------------------------------------------------------------
(* The host.                                                               *)

\* The accepted restart, of a bot that comes up or does not.
Systemd ==
    /\ job /\ job' = FALSE
    /\ bot' \in {units, Down} /\ bound' = TRUE
    /\ UNCHANGED <<current, staged, db, backups, identity, units, stage, flags, attempt, counts>>

\* The bot fell and systemd started it again.
BotRestarts ==
    /\ Active
    /\ bot' = units /\ bound' = TRUE
    /\ UNCHANGED <<current, staged, db, backups, identity, units, job, stage, flags, attempt, counts>>

\* What a bot writes to a file that was replaced under it is lost.
BotWrites ==
    /\ Active /\ written < MaxWrites
    /\ written' = written + 1
    /\ db' = IF bound THEN db \cup {written'} ELSE db
    /\ UNCHANGED <<current, staged, backups, identity, units, bot, bound, job, stage, flags, attempt, tries, kills>>

Next ==
    \/ \E r \in Releases : Begin(r)
    \/ ReadCurrent \/ Quiesce \/ BackUp \/ Prepare \/ Switch \/ Restart \/ Smoke \/ Commit
    \/ SwitchBack \/ RestoreDatabase \/ RestartPrevious \/ SmokePrevious \/ Kill
    \/ Systemd \/ BotRestarts \/ BotWrites

Spec == Init /\ [][Next]_vars
-----------------------------------------------------------------------------
(* Properties.                                                             *)

TypeOK ==
    /\ current \in Releases \cup {Legacy, NoLink} /\ staged \subseteq Releases
    /\ db \subseteq 1..MaxWrites /\ {identity, units} \subseteq Releases \cup {Legacy}
    /\ \A r \in Releases : backups[r] = NoBackup \/ backups[r] \subseteq 1..MaxWrites
    /\ bot \in Releases \cup {Legacy, Down} /\ bound \in BOOLEAN /\ job \in BOOLEAN
    /\ previous \in Releases \cup {Legacy}
    /\ (current \in Releases => current \in staged)

\* What an activation says is so: one that passed has a bot that was started with the
\* unit files of the release that the link and the identity name, although the
\* restart was only asked for and the look at the bot does not tell one start from
\* another; one that failed, at whichever step, has the link and the identity as they
\* were (its unit files stay).
OutcomeTrue ==
    /\ stage = "passed" => bot = target /\ current = target /\ identity = target
    /\ stage \in {"failed", "broken"} => current = previous /\ identity = before

\* tests/test_artifact_activation.py:89-92 has a rollback bring back the database
\* as the activation found it, and line 77 as that of the failed release left it.
DataKept == stage = "restored" => begun \subseteq db
=============================================================================
