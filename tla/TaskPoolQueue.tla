---------------------------- MODULE TaskPoolQueue ----------------------------
(***************************************************************************)
(* TaskPool implements OwnerQueue: the rows of the table, seen without     *)
(* leases, priorities and checkpoints, are the owners' tasks.              *)
(***************************************************************************)
EXTENDS TaskPool

StageNamed ==
    [s \in Statuses |-> CASE s \in Active  -> "working"
                          [] s \in Waiting -> "waiting"
                          [] s = "dead_letter" -> "failed"
                          [] OTHER -> s]

\* A row that was removed is gone, one never inserted is not there yet.
StageOf(i) ==
    IF Status(i) = "absent" THEN IF i < next THEN "gone" ELSE "none"
    ELSE StageNamed[Status(i)]

Stage     == [i \in Tasks |-> StageOf(i)]
KeptRows  == {i \in Tasks : Status(i) # "absent" /\ KeepsRecord(i)}
Recurring == {i \in Tasks : KindOf[i] = "recurring"}

Queue == INSTANCE OwnerQueue WITH stage <- Stage, kept <- KeptRows, Repeats <- Recurring

\* Whatever interleaving of owners, workers, expired leases, stale snapshots and
\* restarts the table goes through, what the owners see is a behaviour of
\* OwnerQueue: one task of an owner at a time, cancelled is final, and recorded
\* work leaves the list only by the owner's hand (TaskQueueStore).
ImplementsQueue == Queue!Spec
=============================================================================
