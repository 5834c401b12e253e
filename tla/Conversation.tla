---------------------------- MODULE Conversation ----------------------------
(***************************************************************************)
(* A task and the agent: the session its prompt is sent to (Workspaces)    *)
(* and the turn it has there (AgentTurn).  A turn takes its session as it  *)
(* finds it, so a behaviour explores one of them, said by part, and leaves *)
(* the other as it starts.  AgentTurn keeps its own names; variables of    *)
(* Workspaces that share a name with one of them are renamed.              *)
(***************************************************************************)
EXTENDS AgentTurn

CONSTANTS Repos, Fixed, MaxJobs, MaxSessions, MaxCommands, MaxDeaths

ASSUME WorkspaceAssumption ==
    /\ Fixed \subseteq Repos /\ MaxJobs \in Nat \ {0}
    /\ {MaxSessions, MaxCommands, MaxDeaths} \subseteq Nat

VARIABLES
    part,
    allowed, managed, active, current, made, born, binding, repo, status, session, at, held,
    job, rebinding, starting, adrift, commands, deaths

workspaces == <<allowed, managed, active, current, made, born, binding, repo, status, session, at,
                held, job, rebinding, starting, adrift, commands, deaths>>
allVars == <<part, vars, workspaces>>

Projects == INSTANCE Workspaces WITH row <- current, seen <- held

AllInit ==
    /\ part \in {"turn", "workspaces"}
    /\ Init /\ Projects!Init
    /\ part = "turn" => managed = {} /\ active = Projects!None

OnlyTurn == part = "turn" /\ Next /\ UNCHANGED <<part, workspaces>>

OnlyWorkspaces == part = "workspaces" /\ Projects!Next /\ UNCHANGED <<part, vars>>

AllNext == OnlyTurn \/ OnlyWorkspaces

\* The fairness of AgentTurn!FairSpec.
AllSpec ==
    /\ AllInit /\ [][AllNext]_allVars
    /\ WF_vars(part = "turn" /\ Executor)
    /\ WF_vars(part = "turn" /\ Session)
-----------------------------------------------------------------------------
\* Workspaces: a prompt goes to a session made for its repository.
NeverAnotherRepo == Projects!NeverAnotherRepo
=============================================================================
