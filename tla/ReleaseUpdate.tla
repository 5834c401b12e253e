---------------------------- MODULE ReleaseUpdate ----------------------------
(***************************************************************************)
(* The update of the bridge to a newer release: the updaters               *)
(* (maintenance/self_update.py, started by the nightly maintenance and by  *)
(* the owner), the deployment script (scripts/deploy.sh), which the owner  *)
(* also runs by hand, the ledger of releases (update_coordinator.py), and  *)
(* the bot, which resolves an interrupted update whenever it starts        *)
(* (update_report.py).                                                     *)
(*                                                                         *)
(* A release is its number: 0 is the one installed at first, and a greater *)
(* number is a newer version.  Ledger transitions are SQLite transactions, *)
(* so one action each; everything else is as coarse as the files and       *)
(* commands that another process can observe.                              *)
(*                                                                         *)
(* botched is a history variable: since the last deployment that recorded  *)
(* itself, a command of a rollback has failed, a script was cut off or     *)
(* failed after its record, or the maintenance wrote deployed-ref into the *)
(* middle of a deployment.                                                 *)
(***************************************************************************)
EXTENDS Integers, FiniteSets, TLC

CONSTANTS
    MaxRelease,   \* releases published during the run
    Updaters,     \* self_update.py processes that may run at the same time
    Owner,        \* the owner at a shell, with deploy.sh and rollback.sh
    Nobody,
    MaxUpsets,    \* bound on crashes, kills, timeouts and late failures
    MaxRestarts,  \* bound on restarts of the bot that no deployment asks for
    MaxManual     \* bound on deployments by hand

ASSUME UpdateAssumption ==
    /\ MaxRelease \in Nat \ {0}
    /\ Owner \notin Updaters /\ Nobody \notin Updaters \cup {Owner}
    /\ MaxUpsets \in Nat /\ MaxRestarts \in Nat /\ MaxManual \in Nat

Releases  == 1..MaxRelease
Versions  == 0..MaxRelease
Deployers == Updaters \cup {Owner}

Phases == {"none", "verified", "available", "applying", "healthy", "quarantined"}

\* Where a deployer is.  Holding are the stages of deploy.sh under its lock,
\* Ended what its exit code tells the updater; in the last two the nightly
\* maintenance goes on after an update.
Holding == {"locked", "checked", "checkedOut", "restarted", "recorded", "failing", "reverted"}
Ended   == {"succeeded", "failed", "refused"}
Stages  == {"idle", "decided", "verified", "claimed", "filing"} \cup Holding \cup Ended
             \cup {"activated", "reactivated"}

VARIABLES
    latest,      \* the newest release published
    phase,       \* release_operations
    barred,      \* auto-update-quarantine.json: the one tag it names, or 0
    tree,        \* the commit checked out, whose VERSION file is read
    ref,         \* runtime/deployed-ref
    history,     \* runtime/deployment-history.log, as a set
    running,     \* the version the bot's process was started from
    lock,        \* holder of runtime/deploy.lock
    stage,       \* of each deployer
    target,      \* the release each deployer is concerned with
    before,      \* DEPLOYED_COMMIT, as each deployer read it
    bot,         \* "up", "starting", "resolving" or "filing"
    pending,     \* the interrupted release the bot has read
    seenRef,     \* deployed-ref, as the bot has read it
    killed,      \* updaters killed since the bot last started (for the properties)
    rolledBack,  \* releases an updater's deployment rolled back (for the properties)
    botched,     \* tree, record and bot may have come apart (for the properties)
    upsets, restarts, manual

ledger == <<phase, barred>>
host   == <<tree, ref, history, running, lock>>
bots   == <<bot, pending, seenRef, killed>>
counts == <<upsets, restarts, manual>>
vars   == <<latest, ledger, host, stage, target, before, bots, rolledBack, botched, counts>>

Init ==
    /\ latest = 0
    /\ phase = [r \in Releases |-> "none"] /\ barred = 0
    /\ tree = 0 /\ ref = 0 /\ history = {0} /\ running = 0 /\ lock = Nobody
    /\ stage = [d \in Deployers |-> "idle"]
    /\ target = [d \in Deployers |-> 0] /\ before = [d \in Deployers |-> 0]
    /\ bot = "up" /\ pending = 0 /\ seenRef = 0 /\ killed = {}
    /\ rolledBack = {} /\ botched = FALSE
    /\ upsets = 0 /\ restarts = 0 /\ manual = 0

Goes(d, to) == stage' = [stage EXCEPT ![d] = to]

-----------------------------------------------------------------------------
(* The ledger.                                                             *)

\* The rows in phase applying: of an updater at work, or interrupted.
Applying == {r \in Releases : phase[r] = "applying"}

Spent == {"applying", "healthy", "quarantined"}

\* Fault: a claim under way does not keep out a second one for the same release.
BeforeReentrant ==
    [verified    |-> {"none", "verified", "available"},
     available   |-> {"verified", "available"},
     applying    |-> {"verified", "available", "applying"},
     healthy     |-> {"applying", "healthy"},
     quarantined |-> {"verified", "available", "applying", "quarantined"}]

\* _NEXT, turned round.  Entering the phase a release is in already is allowed
\* and changes nothing, except for "applying".
Before ==
    [verified    |-> {"none", "verified", "available"},
     available   |-> {"verified", "available"},
     applying    |-> {"verified", "available"},
     healthy     |-> {"applying", "healthy"},
     quarantined |-> {"verified", "available", "applying", "quarantined"}]

\* transition: one release at most is in phase applying.
MayEnter(r, new) ==
    phase[r] \in Before[new] /\ (new = "applying" => Applying \subseteq {r})

\* d's transition: it goes on, or a ValueError ends its update.
Records(d, new, next) ==
    /\ IF MayEnter(target[d], new)
         THEN phase' = [phase EXCEPT ![target[d]] = new] /\ Goes(d, next)
         ELSE phase' = phase /\ Goes(d, "idle")
    /\ UNCHANGED <<latest, barred, host, target, before, bots, rolledBack, botched, counts>>

-----------------------------------------------------------------------------
(* An updater, up to the deployment.                                       *)

\* The newest release is newer than the checked-out VERSION and not barred.
Decide(u) ==
    /\ stage[u] = "idle"
    /\ latest > tree /\ latest # barred
    /\ Goes(u, "decided")
    /\ target' = [target EXCEPT ![u] = latest]
    /\ UNCHANGED <<latest, ledger, host, before, bots, rolledBack, botched, counts>>

\* The tag disagrees with VERSION, its CI has not passed, or GitHub is down.
Skip(u) ==
    /\ stage[u] = "decided"
    /\ Goes(u, "idle")
    /\ UNCHANGED <<latest, ledger, host, target, before, bots, rolledBack, botched, counts>>

Verify(u)   == stage[u] = "decided"  /\ Records(u, "verified", "verified")
\* --check, and the mode that only notifies.
Announce(u) == stage[u] = "verified" /\ Records(u, "available", "idle")
Claim(u)    == stage[u] = "verified" /\ Records(u, "applying", "claimed")

-----------------------------------------------------------------------------
(* deploy.sh, for an updater or for the owner.                             *)

\* The owner deploys a published tag, or goes back to one (rollback.sh).
Manual(r) ==
    /\ stage[Owner] = "idle" /\ manual < MaxManual
    /\ r <= latest
    /\ manual' = manual + 1
    /\ Goes(Owner, "claimed")
    /\ target' = [target EXCEPT ![Owner] = r]
    /\ UNCHANGED <<latest, ledger, host, before, bots, rolledBack, botched, upsets, restarts>>

\* flock -n: a deployment under way turns this one away with exit code 75.
TakeLock(d) ==
    /\ stage[d] = "claimed"
    /\ IF lock = Nobody THEN lock' = d /\ Goes(d, "locked")
                        ELSE lock' = lock /\ Goes(d, "refused")
    /\ UNCHANGED <<latest, ledger, tree, ref, history, running, target, before, bots,
                   rolledBack, botched, counts>>

\* Before anything changed: a running task (check_queue.py), local changes and
\* a tag in disorder turn the deployment away, too.
Refuse(d) ==
    /\ stage[d] = "locked"
    /\ Goes(d, "refused") /\ lock' = Nobody
    /\ UNCHANGED <<latest, ledger, tree, ref, history, running, target, before, bots,
                   rolledBack, botched, counts>>

Check(d) ==
    /\ stage[d] = "locked"
    /\ before' = [before EXCEPT ![d] = ref]
    /\ IF target[d] = ref THEN Goes(d, "succeeded") /\ lock' = Nobody
                          ELSE Goes(d, "checked") /\ lock' = lock
    /\ UNCHANGED <<latest, ledger, tree, ref, history, running, target, bots, rolledBack, botched, counts>>

CheckOut(d) ==
    /\ stage[d] = "checked"
    /\ tree' = target[d]
    /\ Goes(d, "checkedOut")
    /\ UNCHANGED <<latest, ledger, ref, history, running, lock, target, before, bots,
                   rolledBack, botched, counts>>

\* systemctl restart: the new bot begins with announce_update_outcome.
StartBot ==
    /\ running' = tree
    /\ bot' = "starting" /\ pending' = 0 /\ seenRef' = 0 /\ killed' = {}

RestartServices(d) ==
    /\ stage[d] = "checkedOut"
    /\ StartBot
    /\ Goes(d, "restarted")
    /\ UNCHANGED <<latest, ledger, tree, ref, history, lock, target, before, rolledBack, botched, counts>>

\* The services are active and OpenCode answers.
Record(d) ==
    /\ stage[d] = "restarted"
    /\ ref' = target[d] /\ history' = history \cup {target[d]} /\ botched' = FALSE
    /\ Goes(d, "recorded")
    /\ UNCHANGED <<latest, ledger, tree, running, lock, target, before, bots, rolledBack, counts>>

Finish(d) ==
    /\ stage[d] = "recorded"
    /\ Goes(d, "succeeded") /\ lock' = Nobody
    /\ UNCHANGED <<latest, ledger, tree, ref, history, running, target, before, bots,
                   rolledBack, botched, counts>>

\* The ERR trap: a command failed.  After deployed-ref is written only writing
\* the identity file can.
Fail(d) ==
    /\ stage[d] \in {"checked", "checkedOut", "restarted", "recorded"}
    /\ stage[d] = "recorded" => upsets < MaxUpsets
    /\ upsets' = IF stage[d] = "recorded" THEN upsets + 1 ELSE upsets
    /\ Goes(d, "failing")
    /\ rolledBack' = IF d \in Updaters THEN rolledBack \cup {target[d]} ELSE rolledBack
    /\ botched' = (botched \/ stage[d] = "recorded")
    /\ UNCHANGED <<latest, ledger, host, target, before, bots, restarts, manual>>

\* Fault: the version before the target's, whatever was deployed.
RevertToPredecessor(d) ==
    /\ stage[d] = "failing"
    /\ tree' = target[d] - 1
    /\ Goes(d, "reverted")
    /\ UNCHANGED <<latest, ledger, ref, history, running, lock, target, before, bots,
                   rolledBack, botched, counts>>

\* Every command of the rollback ends in `|| true`: a checkout that fails leaves
\* the tree as it is ...
RevertTree(d) ==
    /\ stage[d] = "failing"
    /\ tree' \in {before[d], tree}
    /\ botched' = (botched \/ tree' # before[d])
    /\ Goes(d, "reverted")
    /\ UNCHANGED <<latest, ledger, ref, history, running, lock, target, before, bots,
                   rolledBack, counts>>

\* ... and a restart that fails leaves the bot that was running.
RevertServices(d) ==
    /\ stage[d] = "reverted"
    /\ \/ StartBot /\ botched' = botched
       \/ UNCHANGED <<running, bots>> /\ botched' = TRUE
    /\ Goes(d, "failed") /\ lock' = Nobody
    /\ UNCHANGED <<latest, ledger, tree, ref, history, target, before, rolledBack, counts>>

OwnerDone ==
    /\ stage[Owner] \in Ended
    /\ Goes(Owner, "idle")
    /\ UNCHANGED <<latest, ledger, host, target, before, bots, rolledBack, botched, counts>>

Deploy(d) ==
    \/ TakeLock(d) \/ Refuse(d) \/ Check(d) \/ CheckOut(d) \/ RestartServices(d)
    \/ Record(d) \/ Finish(d) \/ Fail(d) \/ RevertTree(d) \/ RevertServices(d)

-----------------------------------------------------------------------------
(* The updater learns the exit code.                                       *)

Confirm(u)    == stage[u] = "succeeded" /\ Records(u, "healthy", "activated")
Quarantine(u) == stage[u] \in {"failed", "refused"} /\ Records(u, "quarantined", "filing")

File(u) ==
    /\ stage[u] = "filing"
    /\ barred' = target[u]
    /\ Goes(u, "idle")
    /\ UNCHANGED <<latest, phase, host, target, before, bots, rolledBack, botched, counts>>

\* The owner started the updater: nothing comes after it.
Leave(u) ==
    /\ stage[u] = "activated"
    /\ Goes(u, "idle")
    /\ UNCHANGED <<latest, ledger, host, target, before, bots, rolledBack, botched, counts>>

\* The nightly maintenance did, and restarts the bot after an update; it goes on
\* when that fails ...
Reactivate(u) ==
    /\ stage[u] = "activated"
    /\ StartBot \/ UNCHANGED <<running, bots>>
    /\ Goes(u, "reactivated")
    /\ UNCHANGED <<latest, ledger, tree, ref, history, lock, target, before, rolledBack, botched, counts>>

\* ... and writes deployed-ref from what is checked out by now, with no lock.
Rewrite(u) ==
    /\ stage[u] = "reactivated"
    /\ ref' = tree /\ botched' = (botched \/ lock # Nobody)
    /\ Goes(u, "idle")
    /\ UNCHANGED <<latest, ledger, tree, history, running, lock, target, before, bots,
                   rolledBack, counts>>

Updates(u) ==
    \/ Decide(u) \/ Skip(u) \/ Verify(u) \/ Announce(u) \/ Claim(u)
    \/ Confirm(u) \/ Quarantine(u) \/ File(u)
    \/ Leave(u) \/ Reactivate(u) \/ Rewrite(u)

-----------------------------------------------------------------------------
(* The bot starts (announce_update_outcome).                               *)

\* Fault: nobody looks.
InterruptedUnseen == {}

Interrupted == Applying

\* deployed-ref, then the release in phase applying, if there is one.
BotReads ==
    /\ bot = "starting"
    /\ seenRef' = ref
    /\ IF Interrupted = {} THEN bot' = "up" /\ pending' = 0
       ELSE bot' = "resolving" /\ pending' = CHOOSE r \in Interrupted : TRUE
    /\ UNCHANGED <<latest, ledger, host, stage, target, before, killed, rolledBack, botched, counts>>

Verdict == IF pending = seenRef THEN "healthy" ELSE "quarantined"

BotResolves ==
    /\ bot = "resolving"
    /\ phase' = IF MayEnter(pending, Verdict) THEN [phase EXCEPT ![pending] = Verdict] ELSE phase
    /\ bot' = IF MayEnter(pending, Verdict) /\ Verdict = "quarantined" THEN "filing" ELSE "up"
    /\ UNCHANGED <<latest, barred, host, stage, target, before, pending, seenRef, killed,
                   rolledBack, botched, counts>>

BotFiles ==
    /\ bot = "filing"
    /\ barred' = pending
    /\ bot' = "up"
    /\ UNCHANGED <<latest, phase, host, stage, target, before, pending, seenRef, killed,
                   rolledBack, botched, counts>>

BotStarts == BotReads \/ BotResolves \/ BotFiles

-----------------------------------------------------------------------------
(* The environment.                                                        *)

Publish ==
    /\ latest < MaxRelease
    /\ latest' = latest + 1
    /\ UNCHANGED <<ledger, host, stage, target, before, bots, rolledBack, botched, counts>>

\* The bot crashes, or the owner or the watchdog restarts it.
BotRestarts ==
    /\ restarts < MaxRestarts
    /\ restarts' = restarts + 1
    /\ StartBot
    /\ UNCHANGED <<latest, ledger, tree, ref, history, lock, stage, target, before, rolledBack,
                   botched, upsets, manual>>

\* deploy_timeout: the script is killed without its trap; the updater lives on.
Timeout(u) ==
    /\ stage[u] \in Holding /\ upsets < MaxUpsets
    /\ upsets' = upsets + 1
    /\ Goes(u, "failed") /\ lock' = Nobody /\ botched' = TRUE
    /\ UNCHANGED <<latest, ledger, tree, ref, history, running, target, before, bots,
                   rolledBack, restarts, manual>>

\* The updater's unit is killed with everything it started.
Kill(u) ==
    /\ stage[u] # "idle" /\ upsets < MaxUpsets
    /\ upsets' = upsets + 1 /\ killed' = killed \cup {u}
    /\ Goes(u, "idle") /\ lock' = (IF lock = u THEN Nobody ELSE lock)
    /\ botched' = (botched \/ lock = u)
    /\ UNCHANGED <<latest, ledger, tree, ref, history, running, target, before, bot, pending,
                   seenRef, rolledBack, restarts, manual>>

HostCrash ==
    /\ upsets < MaxUpsets
    /\ upsets' = upsets + 1
    /\ stage' = [d \in Deployers |-> "idle"] /\ lock' = Nobody
    /\ botched' = (botched \/ lock # Nobody)
    /\ StartBot
    /\ UNCHANGED <<latest, ledger, tree, ref, history, target, before, rolledBack, restarts, manual>>

Next ==
    \/ \E u \in Updaters : Updates(u) \/ Timeout(u) \/ Kill(u)
    \/ \E d \in Deployers : Deploy(d)
    \/ \E r \in Versions : Manual(r)
    \/ OwnerDone \/ BotStarts \/ Publish \/ BotRestarts \/ HostCrash

Spec == Init /\ [][Next]_vars

\* Programs go on, commands return (deploy_timeout sees to it), and systemd
\* starts the bot again, which has a control owner configured.
FairSpec ==
    /\ Spec
    /\ \A u \in Updaters : WF_vars(Updates(u)) /\ WF_vars(Deploy(u))
    /\ WF_vars(Deploy(Owner)) /\ WF_vars(OwnerDone) /\ WF_vars(BotStarts)
-----------------------------------------------------------------------------
(* Properties.                                                             *)

TypeOK ==
    /\ latest \in Versions
    /\ phase \in [Releases -> Phases] /\ barred \in Versions
    /\ tree \in Versions /\ ref \in Versions /\ running \in Versions
    /\ history \subseteq Versions /\ rolledBack \subseteq Versions /\ botched \in BOOLEAN
    /\ lock \in Deployers \cup {Nobody}
    /\ stage \in [Deployers -> Stages]
    /\ target \in [Deployers -> Versions] /\ before \in [Deployers -> Versions]
    /\ bot \in {"up", "starting", "resolving", "filing"}
    /\ pending \in Versions /\ seenRef \in Versions /\ killed \subseteq Updaters
    /\ upsets \in 0..MaxUpsets /\ restarts \in 0..MaxRestarts /\ manual \in 0..MaxManual

InDeployment(u) == stage[u] \in {"claimed"} \cup Holding

\* One updater at a time has an activation under way, unless the bot has
\* declared the earlier one over: "a second concurrent updater must never gain a
\* lease" (update_coordinator.py).
SingleClaim ==
    \A u, v \in Updaters :
        InDeployment(u) /\ InDeployment(v) /\ u # v
            => /\ target[u] # target[v]
               /\ {phase[target[u]], phase[target[v]]} # {"applying"}

\* No updater checks out a release that an updater has rolled back, whoever died
\* in between: a failed activation "must never be attempted in a daily outage loop".
FailedNotRetried ==
    \A u \in Updaters :
        stage[u] \in {"checkedOut", "restarted", "recorded"} => target[u] \notin rolledBack

\* Whenever no deployment is under way, the tree and the recorded release agree
\* and the bot runs them, whichever deployments failed, overlapped or were undone;
\* unless, since the last deployment that recorded itself, one was cut off or
\* failed after its record, a command of its rollback failed, or the maintenance
\* wrote deployed-ref in the middle of it.  Every deployment that succeeds brings
\* the three together again.
SettledTree ==
    lock = Nobody /\ ~botched => tree = ref /\ running = ref

\* An activation that was interrupted, by a crash of the host or a timeout, does
\* not block the later releases for ever.  After the updater alone was killed it
\* may, until the bot starts again.
ApplyingEnds ==
    \A r \in Releases : phase[r] = "applying" ~> phase[r] # "applying" \/ [](killed # {})

\* The bot quarantines an interrupted update: one whose updater is no longer at it.
QuarantinedWhenOver ==
    [][\A u \in Updaters : BotResolves /\ phase'[pending] = "quarantined"
          => ~(InDeployment(u) /\ target[u] = pending)]_vars
=============================================================================
