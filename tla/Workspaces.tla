----------------------------- MODULE Workspaces -----------------------------
(***************************************************************************)
(* One owner's workspaces: the repositories that are allowed               *)
(* (workspace_manager.py, managed_repo_store.py), the active one           *)
(* (workspace_store.py, workspace_service.py) and the agent session each   *)
(* task is sent to (workspace_runtime.py, agent_service.py).               *)
(*                                                                         *)
(* The owner's commands run one after another beside the executor, and     *)
(* both may replace the owner's session in steps that interleave.  The     *)
(* queue runs one task of the owner at a time (TaskPool).                  *)
(***************************************************************************)
EXTENDS Naturals

CONSTANTS
    Repos,        \* repositories on GitHub
    Fixed,        \* those of GITHUB_ALLOWED_REPOS
    MaxJobs,      \* bound on tasks
    MaxSessions,  \* bound on sessions of the agent
    MaxCommands,  \* bound on the owner's commands
    MaxDeaths     \* bound on restarts of the bridge

None == "none"

Jobs == 1..MaxJobs
Sessions == 1..MaxSessions
Actors == {"command", "executor"}

VARIABLES
    allowed,   \* the manager's list, in memory
    managed,   \* managed_repos
    active,    \* active_workspaces
    row,       \* the owner's row in sessions; 0 is no row
    made, born,  \* of each session, the repository it was created for
    binding,   \* session_bindings: a repository and a session
    repo, status, session,  \* of each task: what its prompt names, and its checkpoint
    at,        \* where the command and the executor are
    seen,      \* the session each has read or created
    job,       \* the executor's task
    rebinding, \* the executor is replacing the session to bind the new one
    starting,  \* post_init has not reached the plugins
    adrift,    \* ghost: sessions a command stored when the executor was about to read
    commands, deaths

lists == <<allowed, managed, active>>
table == <<row, made, born>>
tasks == <<repo, status, session>>
pcs   == <<at, seen, job, rebinding>>
rest  == <<starting, commands, deaths>>
vars  == <<lists, table, binding, tasks, pcs, adrift, rest>>

Init ==
    /\ managed \in SUBSET (Repos \ Fixed) /\ allowed = Fixed \cup managed
    /\ active \in allowed \cup {None}
    /\ row = 0 /\ made = [s \in Sessions |-> None] /\ born = 0
    /\ binding = <<None, 0>>
    /\ repo = [j \in Jobs |-> None] /\ status = [j \in Jobs |-> "unasked"]
    /\ session = [j \in Jobs |-> 0]
    /\ at = [a \in Actors |-> "idle"] /\ seen = [a \in Actors |-> 0]
    /\ job = 1 /\ rebinding = FALSE
    /\ starting = FALSE /\ adrift = {} /\ commands = 0 /\ deaths = 0

Goes(a, point, s) == at' = [at EXCEPT ![a] = point] /\ seen' = [seen EXCEPT ![a] = s]

-----------------------------------------------------------------------------
(* Replacing the owner's session, by a command or by the executor.         *)

\* fresh_session reads the row and aborts its session, whether it can or not.
ReadOld(a) ==
    /\ at[a] = "replace"
    /\ Goes(a, IF row = 0 THEN "ensure" ELSE "drop", row)
    /\ UNCHANGED <<lists, table, binding, tasks, job, rebinding, adrift, rest>>

DropRow(a) ==
    /\ at[a] = "drop" /\ row' = 0
    /\ Goes(a, "ensure", 0)
    /\ UNCHANGED <<lists, made, born, binding, tasks, job, rebinding, adrift, rest>>

\* ensure_session takes the row's session or makes one.
ReadRow(a) ==
    /\ at[a] = "ensure"
    /\ Goes(a, IF row = 0 THEN "create" ELSE "settled", row)
    /\ UNCHANGED <<lists, table, binding, tasks, job, rebinding, adrift, rest>>

\* The executor's requests carry its task's directory, a command's none.
Directory(a) == IF a = "executor" THEN repo[job] ELSE None

CreateSession(a) ==
    /\ at[a] = "create" /\ born < MaxSessions
    /\ born' = born + 1
    /\ made' = [made EXCEPT ![born'] = Directory(a)]
    /\ Goes(a, "store", born')
    /\ UNCHANGED <<lists, row, binding, tasks, job, rebinding, adrift, rest>>

\* A workspace's executor is about to read the row and to go by what it finds.
Exposed ==
    /\ repo[job] # None
    /\ at["executor"] = "ensure" \/ (at["executor"] = "settled" /\ rebinding)

StoreSession(a) ==
    /\ at[a] = "store" /\ row' = seen[a]
    /\ Goes(a, "settled", seen[a])
    /\ adrift' = IF a = "command" /\ Exposed THEN adrift \cup {row'} ELSE adrift
    /\ UNCHANGED <<lists, made, born, binding, tasks, job, rebinding, rest>>

-----------------------------------------------------------------------------
(* The owner's commands.                                                   *)

Command ==
    /\ ~starting /\ at["command"] = "idle" /\ commands < MaxCommands
    /\ commands' = commands + 1 /\ UNCHANGED <<starting, deaths, job, rebinding, adrift>>

\* What the configuration allows is not for a command to withdraw.
Allow(r) == allowed \cup {r}
Disallow(r) == IF r \in Fixed THEN allowed ELSE allowed \ {r}

\* /gh add and /gh remove, of what is not configured.
AddRepo(r) ==
    /\ Command /\ r \notin Fixed
    /\ managed' = managed \cup {r} /\ allowed' = Allow(r)
    /\ UNCHANGED <<active, table, binding, tasks, at, seen>>

RemoveRepo(r) ==
    /\ Command /\ r \notin Fixed
    /\ managed' = managed \ {r} /\ allowed' = Disallow(r)
    /\ UNCHANGED <<active, table, binding, tasks, at, seen>>

\* A clone or a synchronisation that is refused, fails or takes too long changes
\* nothing here.
GitFails ==
    /\ Command
    /\ UNCHANGED <<lists, table, binding, tasks, at, seen>>

\* /use, once the repository is there, goes on to a new session.
Use(r) ==
    /\ Command /\ r \in allowed
    /\ active' = r /\ Goes("command", "replace", 0)
    /\ UNCHANGED <<allowed, managed, table, binding, tasks>>

\* /new, /start and the panel, in no directory whatever is active.
New ==
    /\ Command /\ Goes("command", "replace", 0)
    /\ UNCHANGED <<lists, table, binding, tasks>>

\* The new session is there, or could not be had.
EndCommand ==
    /\ at["command"] \in {"settled", "create"}
    /\ Goes("command", "idle", 0)
    /\ UNCHANGED <<lists, table, binding, tasks, job, rebinding, adrift, rest>>

\* The active workspace, which the manager has to allow still.
IsActive(r) == r = active /\ r \in allowed

\* The task is queued with the workspace its prompt names.
Queue(j, r) ==
    /\ r = None \/ IsActive(r)
    /\ repo' = [repo EXCEPT ![j] = r] /\ status' = [status EXCEPT ![j] = "queued"]

\* /dev and texts are for the active repository while it is allowed; what comes
\* another way (a schedule, a file, a text when it is not) names none.
Ask(j, r) ==
    /\ ~starting /\ at["command"] = "idle"
    /\ status[j] = "unasked" /\ (j > 1 => status[j - 1] # "unasked")
    /\ Queue(j, r)
    /\ UNCHANGED <<lists, table, binding, session, pcs, adrift, rest>>

-----------------------------------------------------------------------------
(* The executor.                                                           *)

Finish(as) ==
    /\ status' = [status EXCEPT ![job] = as]
    /\ Goes("executor", "idle", 0) /\ rebinding' = FALSE

\* Fault: a binding is good for its session, whatever the repository.
BoundBySession(r, s) == binding[2] = s /\ s # 0

Bound(r, s) == binding = <<r, s>>

Refused(j) == repo[j] # None /\ repo[j] \notin allowed

\* A saved session is bound again as it is.
Claim(j) ==
    /\ at["executor"] = "idle" /\ status[j] = "queued"
    /\ \A k \in 1..j - 1 : status[k] \notin {"queued", "running"}
    /\ job' = j /\ status' = [status EXCEPT ![j] = "running"]
    /\ LET saved == session[j] # 0
       IN  /\ Goes("executor",
                   IF Refused(j) THEN "refused" ELSE IF saved THEN "saved"
                   ELSE IF repo[j] = None THEN "ensure" ELSE "look",
                   session[j])
           /\ binding' = IF repo[j] # None /\ saved /\ ~Refused(j)
                         THEN <<repo[j], session[j]>> ELSE binding
    /\ UNCHANGED <<lists, table, repo, session, rebinding, adrift, rest>>

\* A task of a repository that is not allowed, or not any more, fails.
Refuse ==
    /\ at["executor"] = "refused" /\ Finish("over")
    /\ UNCHANGED <<lists, table, binding, repo, session, job, adrift, rest>>

\* The owner's row and the binding decide whether a new session is due.
Look ==
    /\ at["executor"] = "look"
    /\ rebinding' = ~Bound(repo[job], row)
    /\ Goes("executor", IF rebinding' THEN "replace" ELSE "ensure", row)
    /\ UNCHANGED <<lists, table, binding, tasks, job, adrift, rest>>

Bind ==
    /\ at["executor"] = "settled" /\ rebinding
    /\ binding' = <<repo[job], seen["executor"]>> /\ rebinding' = FALSE
    /\ Goes("executor", "ensure", 0)
    /\ UNCHANGED <<lists, table, tasks, job, adrift, rest>>

SaveCheckpoint ==
    /\ at["executor"] = "settled" /\ ~rebinding
    /\ session' = [session EXCEPT ![job] = seen["executor"]]
    /\ Goes("executor", "saved", seen["executor"])
    /\ UNCHANGED <<lists, table, binding, repo, status, job, rebinding, adrift, rest>>

Send ==
    /\ at["executor"] = "saved" /\ Goes("executor", "sent", seen["executor"])
    /\ UNCHANGED <<lists, table, binding, tasks, job, rebinding, adrift, rest>>

\* A turn, or a task that could not have a session, ends or is put off and
\* claimed again; one that could not be bound fails.
EndTurn ==
    /\ at["executor"] \in {"sent", "create"}
    /\ Finish("over") \/ (~rebinding /\ Finish("queued"))
    /\ UNCHANGED <<lists, table, binding, repo, session, job, adrift, rest>>

-----------------------------------------------------------------------------
(* Restarts.                                                               *)

\* The workers start, and claim, before gh_plugin.install allows the managed
\* repositories again.
Restart ==
    /\ deaths < MaxDeaths /\ deaths' = deaths + 1
    /\ allowed' = Fixed /\ binding' = <<None, 0>>
    /\ status' = [j \in Jobs |-> IF status[j] = "running" THEN "queued" ELSE status[j]]
    /\ at' = [a \in Actors |-> "idle"] /\ seen' = [a \in Actors |-> 0] /\ rebinding' = FALSE
    /\ starting' = TRUE
    /\ UNCHANGED <<managed, active, table, repo, session, job, adrift, commands>>

AllowManaged ==
    /\ starting /\ starting' = FALSE
    /\ allowed' = allowed \cup managed
    /\ UNCHANGED <<managed, active, table, binding, tasks, pcs, adrift, commands, deaths>>

Next ==
    \/ \E a \in Actors : ReadOld(a) \/ DropRow(a) \/ ReadRow(a) \/ CreateSession(a) \/ StoreSession(a)
    \/ \E r \in Repos : AddRepo(r) \/ RemoveRepo(r) \/ Use(r)
    \/ GitFails \/ New \/ EndCommand
    \/ \E j \in Jobs : Claim(j) \/ \E r \in Repos \cup {None} : Ask(j, r)
    \/ Refuse \/ Look \/ Bind \/ SaveCheckpoint \/ Send \/ EndTurn
    \/ Restart \/ AllowManaged

Spec == Init /\ [][Next]_vars
-----------------------------------------------------------------------------
(* Properties.                                                             *)

TypeOK ==
    /\ allowed \subseteq Repos /\ managed \subseteq Repos /\ active \in Repos \cup {None}
    /\ row \in 0..MaxSessions /\ born \in 0..MaxSessions
    /\ made \in [Sessions -> Repos \cup {None}]
    /\ repo \in [Jobs -> Repos \cup {None}] /\ session \in [Jobs -> 0..MaxSessions]
    /\ status \in [Jobs -> {"unasked", "queued", "running", "over"}]
    /\ job \in Jobs /\ {rebinding, starting} \subseteq BOOLEAN /\ adrift \subseteq Sessions

\* A workspace's prompt goes to a session made for its repository, across
\* switches, new sessions, retries and restarts, wherever a command's steps fall
\* between the executor's; but for a session that a command stored in one of two
\* moments: after the executor dropped or bound the owner's session and before it
\* reads the row again (ensure_session).  There the code takes what it finds.
NeverAnotherRepo ==
    at["executor"] = "sent" /\ repo[job] # None
        => made[seen["executor"]] = repo[job] \/ seen["executor"] \in adrift
=============================================================================
