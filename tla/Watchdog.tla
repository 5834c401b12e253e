------------------------------ MODULE Watchdog ------------------------------
(***************************************************************************)
(* The watchdog: a process that a timer starts every few minutes, looks at *)
(* the agent's service and restarts it within a budget it keeps in a file  *)
(* (watchdog_runner.py, watchdog_policy.py).  It may be killed at any      *)
(* point, by the restart it asks for as well; systemd runs one at a time.  *)
(* Time passes between cycles and inside them up to the decision.          *)
(***************************************************************************)
EXTENDS Naturals, FiniteSets

CONSTANTS
    Hour,          \* ticks an attempt counts
    Cooldown,      \* ticks between attempts
    MaxRestarts    \* attempts an hour

VARIABLES
    agent,      \* the agent's service: "healthy", "deaf" or "inactive"
    strained,   \* memory or disk is too low for any recovery
    stored,     \* the state file: ages of the attempts recorded within the hour
    at,         \* where the process is
    history,    \* what it has loaded and records
    found,      \* the health it saw
    tried       \* of each age, how many restarts were really asked for

vars == <<agent, strained, stored, at, history, found, tried>>

Ages == 0..(Hour - 1)

Init ==
    /\ agent = "healthy" /\ strained = FALSE
    /\ stored = {} /\ history = {} /\ tried = [age \in Ages |-> 0]
    /\ at = "idle" /\ found = "healthy"

\* What is an hour old is no longer looked at.
Older(ages) == {age + 1 : age \in ages} \cap Ages

Load ==
    /\ at = "idle"
    /\ at' = "collect" /\ history' = stored
    /\ UNCHANGED <<agent, strained, stored, found, tried>>

\* The service's state and its health endpoint; the bot's own service is left to
\* systemd.
Collect ==
    /\ at = "collect"
    /\ found' = agent
    /\ at' = "decide"
    /\ UNCHANGED <<agent, strained, stored, history, tried>>

\* An inactive service, or a deaf one, is to be restarted.
Recoverable == found # "healthy"

\* restart_allowed: enough memory and disk, the latest attempt is old enough and
\* there is room in the hour.
Allowed ==
    /\ ~strained
    /\ \A age \in history : age >= Cooldown
    /\ Cardinality(history) < MaxRestarts

\* Fault: the attempt is saved with the report only.
RecordLate ==
    /\ at = "decide" /\ Recoverable /\ Allowed
    /\ history' = history \cup {0}
    /\ at' = "restart"
    /\ UNCHANGED <<agent, strained, stored, found, tried>>

\* The attempt is recorded and saved before it is made.
Record ==
    /\ at = "decide" /\ Recoverable /\ Allowed
    /\ history' = history \cup {0}
    /\ stored' = history'
    /\ at' = "restart"
    /\ UNCHANGED <<agent, strained, found, tried>>

\* Nothing to recover, or refused.
Skip ==
    /\ at = "decide" /\ ~(Recoverable /\ Allowed)
    /\ at' = "report"
    /\ UNCHANGED <<agent, strained, stored, history, found, tried>>

\* systemctl restarts the service, fails or times out.
Restart ==
    /\ at = "restart"
    /\ tried' = [tried EXCEPT ![0] = @ + 1]
    /\ agent' \in {"healthy", agent}
    /\ at' = "report"
    /\ UNCHANGED <<strained, stored, history, found>>

\* What came of it, and the state once more.
Report ==
    /\ at = "report"
    /\ stored' = history /\ at' = "idle"
    /\ UNCHANGED <<agent, strained, history, found, tried>>

Killed ==
    /\ at # "idle" /\ at' = "idle"
    /\ UNCHANGED <<agent, strained, stored, history, found, tried>>

HostChanges ==
    /\ at \in {"collect", "decide"}
    /\ \/ agent' \in {"healthy", "deaf", "inactive"} /\ UNCHANGED strained
       \/ strained' = ~strained /\ UNCHANGED agent
    /\ UNCHANGED <<stored, at, history, found, tried>>

\* The file's attempts and those loaded from it are instants: they age alike.
Tick ==
    /\ at \in {"idle", "collect"}
    /\ stored' = Older(stored) /\ history' = Older(history)
    /\ tried' = [age \in Ages |-> IF age = 0 THEN 0 ELSE tried[age - 1]]
    /\ UNCHANGED <<agent, strained, at, found>>

Next ==
    \/ Load \/ Collect \/ Record \/ Skip \/ Restart \/ Report \/ Killed
    \/ HostChanges \/ Tick

Spec == Init /\ [][Next]_vars
-----------------------------------------------------------------------------
(* Properties.                                                             *)

\* The variables hold what they can hold.
TypeOK ==
    /\ {agent, found} \subseteq {"healthy", "deaf", "inactive"} /\ strained \in BOOLEAN
    /\ at \in {"idle", "collect", "decide", "restart", "report"}
    /\ stored \subseteq Ages /\ history \subseteq Ages /\ tried \in [Ages -> Nat]

\* The restarts really made keep to the hourly limit and to the cool-down,
\* wherever the watchdog was killed in any of its cycles.
RestartsBounded ==
    LET recent == {age \in Ages : tried[age] > 0}
    IN /\ Cardinality(recent) <= MaxRestarts
       /\ \A age \in recent : tried[age] = 1
       /\ \A a, b \in recent : a < b => b - a >= Cooldown
=============================================================================
