------------------------------- MODULE Skills -------------------------------
(***************************************************************************)
(* The agent's skills, kept in step with their repository (skill_sync.py,  *)
(* commands/skills.py): a sync clones the repository, publishes what       *)
(* changed into the agent's directory, removes what is gone and saves the  *)
(* ledger of what it published; the agent's server reads the directory     *)
(* only when it starts, so the sync ends by restarting it.  Syncs are      *)
(* started by the owner and by a timer, and share a lock; restarting the   *)
(* server is outside it.                                                   *)
(***************************************************************************)
EXTENDS Naturals

CONSTANTS
    Names,      \* names of skills
    MaxUpsets   \* changes of the repository, faults and crashes

VARIABLES
    repo,     \* the version of every skill in the repository, 0 for none
    disk,     \* the version in the agent's directory
    loaded,   \* the version the agent's server has read
    managed,  \* the ledger in the state file
    flag,     \* the state file's needs_reload
    step,     \* what the owner's sync and the timer's are doing
    work,     \* the state and the clone the sync in progress works with
    spoilt,   \* a batch was cut off, or two restarts overlapped
    upsets

vars == <<repo, disk, loaded, managed, flag, step, work, spoilt, upsets>>

Callers == {"owner", "timer"}

None == [n \in Names |-> 0]

HandMade == 3   \* a skill the owner wrote, of a name the repository may have
Unfit    == 4   \* a skill in the repository that breaks the rules of its format

\* collect_skills: a skill that is refused is as if the repository had none.
Collected(tree) == [n \in Names |-> IF tree[n] = Unfit THEN 0 ELSE tree[n]]

NoWork == [managed |-> None, flag |-> FALSE, clone |-> None, todo |-> {}]

Init ==
    /\ repo = [n \in Names |-> 1]
    /\ disk = None /\ loaded = None /\ managed = None /\ flag = FALSE
    /\ step = [c \in Callers |-> "idle"]
    /\ work = NoWork
    /\ spoilt = FALSE
    /\ upsets = 0

Upset == upsets < MaxUpsets /\ upsets' = upsets + 1

\* From the clone to the saved state the sync does not wait: nothing else of the
\* bridge runs, but the server may start and the process may die.
Publishing == \E c \in Callers : step[c] = "publish"
Locked     == \E c \in Callers : step[c] \in {"clone", "publish"}

Reloading(c) == step[c] \in {"restart", "restarted"}
-----------------------------------------------------------------------------
Begin(c) ==
    /\ step[c] = "idle" /\ ~Locked
    /\ step' = [step EXCEPT ![c] = "clone"]
    /\ work' = [NoWork EXCEPT !.managed = managed, !.flag = flag]
    /\ UNCHANGED <<repo, disk, loaded, managed, flag, spoilt, upsets>>

\* The repository cannot be reached: the state is written back as it was read.
CloneFails(c) ==
    /\ Upset
    /\ step[c] = "clone"
    /\ step' = [step EXCEPT ![c] = "idle"] /\ work' = NoWork
    /\ managed' = work.managed /\ flag' = work.flag
    /\ UNCHANGED <<repo, disk, loaded, spoilt>>

\* What the ledger has in another version is to be published, what the clone has
\* no more is to be removed.
Clone(c) ==
    /\ step[c] = "clone"
    /\ step' = [step EXCEPT ![c] = "publish"]
    /\ LET clone == Collected(repo)
       IN  work' = [work EXCEPT !.clone = clone,
                                !.todo = IF clone = None THEN {}
                                         ELSE {n \in Names : clone[n] # work.managed[n]}]
    /\ UNCHANGED <<repo, disk, loaded, managed, flag, spoilt, upsets>>

\* Publishing moves the old directory away and the new one in; removing deletes.
\* Whatever is there under the name goes.  Removals come last.
Publish(c) ==
    /\ step[c] = "publish"
    /\ \E n \in work.todo :
         /\ work.clone[n] = 0 => \A m \in work.todo : work.clone[m] = 0
         /\ disk' = [disk EXCEPT ![n] = work.clone[n]]
         /\ work' = [work EXCEPT !.todo = @ \ {n}]
    /\ UNCHANGED <<repo, loaded, managed, flag, step, spoilt, upsets>>

\* A skill that cannot be published is put back, the error ends the sync and the
\* state is written with its ledger as read.
PublishFails(c) ==
    /\ Upset
    /\ step[c] = "publish"
    /\ \E n \in work.todo : work.clone[n] # 0
    /\ step' = [step EXCEPT ![c] = "idle"] /\ work' = NoWork
    /\ managed' = work.managed /\ flag' = work.flag
    /\ spoilt' = TRUE
    /\ UNCHANGED <<repo, disk, loaded>>

\* (fault) an empty repository's result, which asks for no reload, is believed.
OwedNow == work.clone # None /\ (work.flag \/ work.clone # work.managed)

\* The reload still owed: the sync's own, or that of an earlier one.
Owed == work.flag \/ (work.clone # None /\ work.clone # work.managed)

\* The ledger is replaced unless the repository was empty; the caller goes on,
\* without waiting, to restart the server if a reload is owed.
Save(c) ==
    /\ step[c] = "publish" /\ work.todo = {}
    /\ managed' = IF work.clone = None THEN work.managed ELSE work.clone
    /\ flag' = Owed
    /\ step' = [step EXCEPT ![c] = IF Owed THEN "restart" ELSE "idle"]
    /\ spoilt' = (spoilt \/ \E d \in Callers : Reloading(d))
    /\ work' = NoWork
    /\ UNCHANGED <<repo, disk, loaded, upsets>>

\* The server starts and reads the directory.
RestartServer(c) ==
    /\ step[c] = "restart"
    /\ loaded' = disk
    /\ step' = [step EXCEPT ![c] = "restarted"]
    /\ UNCHANGED <<repo, disk, managed, flag, work, spoilt, upsets>>

RestartFails(c) ==
    /\ Upset
    /\ step[c] = "restart" /\ ~Publishing
    /\ step' = [step EXCEPT ![c] = "idle"]
    /\ UNCHANGED <<repo, disk, loaded, managed, flag, work, spoilt>>

\* clear_reload takes no lock: it reads the state and writes it without the flag.
ClearReload(c) ==
    /\ step[c] = "restarted" /\ ~Publishing
    /\ flag' = FALSE
    /\ step' = [step EXCEPT ![c] = "idle"]
    /\ UNCHANGED <<repo, disk, loaded, managed, work, spoilt, upsets>>
-----------------------------------------------------------------------------
RepositoryChanges ==
    /\ Upset
    /\ \E tree \in [Names -> {0, 1, 2, Unfit}] : tree # repo /\ repo' = tree
    /\ UNCHANGED <<disk, loaded, managed, flag, step, work, spoilt>>

\* The owner writes a skill, or a server restart of another cause reads them all.
OwnerWrites(n) ==
    /\ Upset
    /\ disk[n] # HandMade
    /\ disk' = [disk EXCEPT ![n] = HandMade]
    /\ UNCHANGED <<repo, loaded, managed, flag, step, work, spoilt>>

ServerRestarts ==
    /\ loaded # disk
    /\ loaded' = disk
    /\ UNCHANGED <<repo, disk, managed, flag, step, work, spoilt, upsets>>

\* A crash in the middle of publishing may leave a name without its directory.
Crash ==
    /\ Upset
    /\ \E c \in Callers : step[c] # "idle"
    /\ step' = [c \in Callers |-> "idle"] /\ work' = NoWork
    /\ IF Publishing
         THEN /\ disk' \in {disk} \cup {[disk EXCEPT ![n] = 0] : n \in work.todo}
              /\ spoilt' = TRUE
         ELSE UNCHANGED <<disk, spoilt>>
    /\ UNCHANGED <<repo, loaded, managed, flag>>

Next ==
    \/ \E c \in Callers :
           \/ Begin(c) \/ CloneFails(c) \/ Clone(c) \/ Publish(c) \/ PublishFails(c)
           \/ Save(c) \/ RestartServer(c) \/ RestartFails(c) \/ ClearReload(c)
    \/ \E n \in Names : OwnerWrites(n)
    \/ RepositoryChanges \/ ServerRestarts \/ Crash

Spec == Init /\ [][Next]_vars
-----------------------------------------------------------------------------
\* A skill on disk that the agent has not read is one whose reload is still owed
\* by the state file or on its way, so that a restart of the bridge, a failed
\* reload or an empty repository never leaves the agent with old skills for good.
\* It fails to hold once a batch was cut off (its skills stay published without a
\* ledger entry and without the flag) and once a sync saved while a restart was
\* under way (the restart then clears the flag of the later one).
ReloadNotLost ==
    ~spoilt /\ ~Publishing /\ ~flag =>
        \A n \in Names : disk[n] # HandMade => loaded[n] = disk[n]
=============================================================================
