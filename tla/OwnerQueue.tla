----------------------------- MODULE OwnerQueue -----------------------------
(***************************************************************************)
(* What the task queue promises the owners, without workers, leases,       *)
(* checkpoints or clocks: a task submitted once is waiting, worked on, or  *)
(* over; the agent works on one task of an owner at a time; what is        *)
(* cancelled stays cancelled; and a task whose outcome is to be recorded   *)
(* leaves the list only by its owner's hand.  TaskPool implements it.      *)
(***************************************************************************)
EXTENDS FiniteSets

CONSTANTS
    Tasks, Owners, OwnerOf,
    Repeats          \* tasks that go back to the schedule after each run

VARIABLES
    stage,           \* where each task is
    kept             \* the listed tasks whose outcome is to be recorded

vars == <<stage, kept>>

Stages == {"none", "scheduled", "waiting", "working",
           "completed", "failed", "cancelled", "gone"}

Mine(i)    == {j \in Tasks : OwnerOf[j] = OwnerOf[i]}
Working    == {i \in Tasks : stage[i] = "working"}
Listed(st) == {i \in Tasks : st[i] \notin {"none", "gone"}}

Init ==
    /\ stage = [i \in Tasks |-> "none"]
    /\ kept = {}

\* What the run of a task leaves: a result or its next turn, and nothing when
\* its outcome is not to be recorded.
Outcomes(i) ==
    IF i \notin kept THEN {"gone"}
    ELSE {"failed", IF i \in Repeats THEN "scheduled" ELSE "completed"}

\* Of what is kept, only what leaves the list is forgotten.
Forget == kept' = kept \cap Listed(stage')
-----------------------------------------------------------------------------
(* The owner.                                                              *)

Submit(i) ==
    /\ stage[i] = "none"
    /\ stage' = [stage EXCEPT ![i] = IF i \in Repeats THEN "scheduled" ELSE "waiting"]
    /\ kept' \in {kept, kept \cup {i}}
    /\ i \in Repeats => i \in kept'

\* The task is marked as one to record.
Keep(i) ==
    /\ stage[i] \in {"waiting", "working"}
    /\ kept' = kept \cup {i}
    /\ UNCHANGED stage

Cancel(i) ==
    /\ stage[i] \in {"scheduled", "waiting", "working"}
    /\ stage' = [stage EXCEPT ![i] = IF i \in kept THEN "cancelled" ELSE "gone"]
    /\ Forget

\* Any of one owner's tasks may be removed, but for those being worked on.
Remove(o) ==
    /\ \E S \in SUBSET {i \in Tasks : OwnerOf[i] = o /\ stage[i] # "working"} :
         stage' = [i \in Tasks |-> IF i \in S /\ stage[i] # "none" THEN "gone" ELSE stage[i]]
    /\ Forget

Again(i) ==
    /\ stage[i] = "failed"
    /\ stage' = [stage EXCEPT ![i] = "waiting"]
    /\ UNCHANGED kept
-----------------------------------------------------------------------------
(* The service.                                                            *)

Promote(S) ==
    /\ \A i \in S : i \in Repeats /\ stage[i] = "scheduled"
    /\ stage' = [i \in Tasks |-> IF i \in S THEN "waiting" ELSE stage[i]]
    /\ UNCHANGED kept

\* Work that was given up (S) waits again, and task i is taken if that leaves
\* its owner without another one.
Take(S, i) ==
    /\ S \subseteq Working
    /\ stage[i] = "waiting" \/ i \in S
    /\ Mine(i) \cap Working \subseteq S
    /\ stage' = [j \in Tasks |-> IF j = i THEN "working"
                                 ELSE IF j \in S THEN "waiting" ELSE stage[j]]
    /\ UNCHANGED kept

GiveUp(S) ==
    /\ S \subseteq Working
    /\ stage' = [j \in Tasks |-> IF j \in S THEN "waiting" ELSE stage[j]]
    /\ UNCHANGED kept

\* A run of task i reports, be it late: the last report counts, unless the owner
\* has cancelled or removed the task.
Report(i) ==
    /\ i \in Listed(stage) /\ stage[i] # "cancelled"
    /\ \E s \in Outcomes(i) \cup (IF stage[i] \in {"waiting", "working"} THEN {"waiting"} ELSE {}) :
         stage' = [stage EXCEPT ![i] = s]
    /\ Forget

\* The service starts again: all work in progress waits again or has failed.
Recover ==
    /\ \E s \in [Working -> Stages] :
         /\ \A i \in Working : s[i] \in {"waiting"} \cup (Outcomes(i) \cap {"failed", "gone"})
         /\ stage' = [i \in Tasks |-> IF i \in Working THEN s[i] ELSE stage[i]]
    /\ Forget
-----------------------------------------------------------------------------
OwnerActs ==
    \/ \E i \in Tasks : Submit(i) \/ Keep(i) \/ Cancel(i) \/ Again(i)
    \/ \E o \in Owners : Remove(o)

ServiceActs ==
    \/ \E S \in SUBSET Tasks : Promote(S) \/ GiveUp(S) \/ \E i \in Tasks : Take(S, i)
    \/ \E i \in Tasks : Report(i)
    \/ Recover

Next == OwnerActs \/ ServiceActs

Spec == Init /\ [][Next]_vars
-----------------------------------------------------------------------------
TypeOK ==
    /\ stage \in [Tasks -> Stages]
    /\ kept \subseteq Listed(stage)

\* The agent works on one task of an owner at a time.
OneAtATime == \A i \in Working : Mine(i) \cap Working = {i}

\* No step of the service removes what is kept, or touches what is cancelled.
OwnersHand ==
    [][ServiceActs => kept \subseteq kept' /\ \A i \in Tasks :
                        stage[i] = "cancelled" => stage'[i] = "cancelled"]_vars
=============================================================================
