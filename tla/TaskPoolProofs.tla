--------------------------- MODULE TaskPoolProofs ---------------------------
(* Theorems about TaskPool, for every value of its constants: its safety   *)
(* properties, and that it implements OwnerQueue.  None assumes anything of *)
(* heartbeats or of the executor's tail: the properties name the rows they  *)
(* except (lost).                                                           *)
EXTENDS TaskPoolQueue, FiniteSetTheorems, TLAPS

-----------------------------------------------------------------------------
(* Types.  TypeOK alone is not inductive: what retry_or_dead_letter returns *)
(* to is decided by the call's site, which DeferSites restricts.           *)

TypeInv == TypeOK /\ DeferSites

LEMMA TasksFinite == IsFiniteSet(Tasks) /\ Tasks \subseteq Int /\ 1 \in Tasks
  BY SizeAssumption, FS_Interval DEF Tasks

LEMMA LessType == ASSUME NEW n \in Nat, NEW t \in 0..n PROVE Less(t) \in 0..n
  BY DEF Less

LEMMA NoRowType == NoRow \in Rows
  BY SizeAssumption DEF NoRow, Rows, Statuses, Open, Active, Waiting, Recorded, Flags

LEMMA IdleType == Idle \in WorkerStates
  BY SizeAssumption, TasksFinite DEF Idle, WorkerStates, PCs, Sites, Flags

\* Requeueing expired leases changes nothing but the status.
LEMMA RequeuedType ==
  ASSUME row \in [Tasks -> Rows]
  PROVE  Requeued \in [Tasks -> Rows]
  <1> SUFFICES ASSUME NEW i \in Tasks
               PROVE  [row[i] EXCEPT !.status = "queued"] \in Rows
    BY DEF Requeued
  <1> QED BY DEF Rows, Statuses, Open, Waiting

LEMMA LeaseUpdate ==
  ASSUME NEW r \in Rows, NEW s \in Statuses, NEW l \in 0..LeaseTicks
  PROVE  [r EXCEPT !.status = s, !.lease = l] \in Rows
  BY DEF Rows

LEMMA RecoveredType ==
  ASSUME row \in [Tasks -> Rows], NEW i \in Tasks
  PROVE  Recovered(i) \in Rows
  <1>1. row[i] \in Rows /\ 0 \in 0..LeaseTicks /\ {"queued", "failed"} \subseteq Statuses
    BY SizeAssumption DEF Statuses, Open, Waiting, Recorded
  <1>2. /\ [row[i] EXCEPT !.status = "queued", !.lease = 0] \in Rows
        /\ [row[i] EXCEPT !.status = "failed", !.lease = 0] \in Rows
    BY <1>1, LeaseUpdate
  <1> QED BY <1>1, <1>2, NoRowType DEF Recovered

LEMMA FinishedRowType ==
  ASSUME row \in [Tasks -> Rows], NEW i \in Tasks,
         NEW success \in BOOLEAN, NEW keep \in BOOLEAN
  PROVE  FinishedRow(i, success, keep) \subseteq Rows
  <1>1. /\ row[i] \in Rows /\ 0 \in 0..LeaseTicks /\ 0 \in 0..MaxDelay
        /\ {"scheduled", "completed", "failed"} \subseteq Statuses
        /\ 1..MaxDelay \subseteq 0..MaxDelay /\ {} \in SUBSET Flags /\ 0 \in 0..MaxFailures
    BY SizeAssumption DEF Statuses, Open, Waiting, Recorded
  <1>2. ASSUME NEW d \in 1..MaxDelay
        PROVE  [row[i] EXCEPT !.status = "scheduled", !.lease = 0, !.notBefore = 0,
                              !.flags = {}, !.failures = 0,
                              !.due = IF @ = 0 THEN d ELSE @] \in Rows
    <2>1. (IF row[i].due = 0 THEN d ELSE row[i].due) \in 0..MaxDelay
      BY <1>1 DEF Rows
    <2> QED BY <1>1, <2>1 DEF Rows
  <1>3. [row[i] EXCEPT !.status = IF success THEN "completed" ELSE "failed",
                       !.lease = 0, !.notBefore = 0] \in Rows
    <2> DEFINE s == IF success THEN "completed" ELSE "failed"
    <2>1. s \in Statuses
      BY <1>1
    <2> HIDE DEF s
    <2>2. [row[i] EXCEPT !.status = s, !.lease = 0, !.notBefore = 0] \in Rows
      BY <1>1, <2>1 DEF Rows
    <2> QED BY <2>2 DEF s
  <1> QED BY <1>2, <1>3, NoRowType DEF FinishedRow

LEMMA DeferredRowType ==
  ASSUME TypeOK, NEW w \in Workers
  PROVE  DeferredRow(w) \subseteq Rows
  <1> DEFINE i == worker[w].task
             saved == [row[i] EXCEPT !.lease = 0, !.flags = worker[w].flags,
                                     !.failures = worker[w].failures]
  <1>1. saved \in Rows
    <2>1. row[i] \in Rows /\ 0 \in 0..LeaseTicks
      BY SizeAssumption DEF TypeOK, WorkerStates
    <2>2. worker[w].flags \in SUBSET Flags /\ worker[w].failures \in 0..MaxFailures
      BY DEF TypeOK, WorkerStates
    <2> QED BY <2>1, <2>2 DEF Rows
  <1>2. ASSUME NEW s \in Statuses, NEW d \in 0..MaxDelay
        PROVE  [saved EXCEPT !.status = s, !.notBefore = d] \in Rows
    <2> HIDE DEF saved
    <2> QED BY <1>1 DEF Rows
  <1>3. /\ {"retrying", "dead_letter"} \subseteq Statuses
        /\ 1..MaxDelay \subseteq 0..MaxDelay /\ 0 \in 0..MaxDelay
    BY SizeAssumption DEF Statuses, Open, Waiting, Recorded
  <1> QED BY <1>2, <1>3, NoRowType DEF DeferredRow

\* The steps of the program, whatever they make of lost.
LEMMA NextSteps ==
  ASSUME Next
  PROVE  \/ Intake \/ OwnerActs \/ PromoteDue
         \/ \E w \in Workers : Claim(w) \/ Execute(w) \/ Heartbeat(w) \/ HeartbeatDies(w)
         \/ Tick \/ CrashRestart \/ Drained
  BY DEF Next, Takes, Loses, Claim

LEMMA LostType == ASSUME TypeInv, [Next]_vars PROVE lost' \subseteq Tasks
  <1>1. \A w \in Workers : worker[w].task \in Tasks
    BY DEF TypeInv, TypeOK, WorkerStates
  <1> QED BY <1>1 DEF Next, Loses, vars, TypeInv, TypeOK

LEMMA InitTypes == Init => TypeInv
  <1> SUFFICES ASSUME Init PROVE TypeInv
    OBVIOUS
  <1>1. TypeOK
    BY SizeAssumption, NoRowType, IdleType DEF Init, TypeOK
  <1>2. DeferSites
    BY DEF Init, DeferSites, Idle
  <1> QED BY <1>1, <1>2 DEF TypeInv

\* A step that replaces one worker's state by a well-typed one.
LEMMA WorkerStepType ==
  ASSUME TypeInv, NEW w \in Workers, NEW s \in WorkerStates,
         worker' = [worker EXCEPT ![w] = s],
         s.pc \in {"defer", "deferring"} =>
             \/ s.site \in {"quota", "daily"} /\ s.retry
             \/ s.site = "provider"
  PROVE  worker' \in [Workers -> WorkerStates] /\ DeferSites'
  BY DEF TypeInv, TypeOK, DeferSites

\* The worker record after a step of the executor that makes a store call.
LEMMA InvokeType ==
  ASSUME TypeInv, NEW w \in Workers, NEW label \in PCs, NEW from \in Sites,
         NEW success \in BOOLEAN, NEW canRetry \in BOOLEAN,
         Invoke(w, label, from, success, canRetry),
         label \in {"defer", "deferring"} => from \in {"quota", "daily"} /\ canRetry
  PROVE  worker' \in [Workers -> WorkerStates] /\ DeferSites'
  <1> DEFINE called == [worker[w] EXCEPT !.pc = label, !.site = from, !.ok = success,
                                         !.retry = canRetry, !.keep = FALSE]
  <1>1. worker' = [worker EXCEPT ![w] = called]
    BY DEF Invoke, TypeInv, TypeOK
  <1>2. worker[w] \in WorkerStates
    BY DEF TypeInv, TypeOK
  <1>3. called \in WorkerStates
    BY <1>2 DEF WorkerStates
  <1>4. called.pc = label /\ called.site = from /\ called.retry = canRetry
    BY <1>2 DEF WorkerStates
  <1> HIDE DEF called
  <1> QED BY <1>1, <1>3, <1>4 DEF TypeInv, TypeOK, DeferSites

LEMMA LeaveTurnType ==
  ASSUME TypeInv, NEW w \in Workers, LeaveTurn(w)
  PROVE  worker' \in [Workers -> WorkerStates] /\ DeferSites'
  <1> DEFINE out == [Idle EXCEPT !.pc = "tail", !.task = worker[w].task,
                                 !.beats = worker[w].beats]
  <1>1. out \in WorkerStates /\ out.pc = "tail"
    BY IdleType DEF TypeInv, TypeOK, WorkerStates, PCs, Idle
  <1>2. worker' = [worker EXCEPT ![w] = out]
    BY DEF LeaveTurn
  <1> HIDE DEF out
  <1> QED BY <1>1, <1>2 DEF TypeInv, TypeOK, DeferSites

LEMMA FinishedType ==
  ASSUME TypeInv, NEW w \in Workers, Finished(w)
  PROVE  worker' \in [Workers -> WorkerStates] /\ DeferSites'
  <1>1. Idle \in WorkerStates /\ Idle.pc = "idle"
    BY IdleType DEF Idle
  <1>2. [worker[w] EXCEPT !.pc = "finalizing"] \in WorkerStates
    BY DEF TypeInv, TypeOK, WorkerStates, PCs
  <1>3. [worker[w] EXCEPT !.pc = "finalizing"].pc = "finalizing"
    BY DEF TypeInv, TypeOK, WorkerStates
  <1> QED BY <1>1, <1>2, <1>3 DEF Finished, TypeInv, TypeOK, DeferSites

LEMMA NotDeferredType ==
  ASSUME TypeInv, NEW w \in Workers, worker[w].pc \in {"defer", "deferring"},
         NotDeferred(w)
  PROVE  worker' \in [Workers -> WorkerStates] /\ DeferSites'
  <1>1. worker[w].site \in {"quota", "daily", "provider"}
    BY DEF TypeInv, DeferSites
  <1>2. CASE worker[w].site = "quota"
    <2>1. worker' = [worker EXCEPT ![w].pc = "working"]
      BY <1>2 DEF NotDeferred
    <2> QED BY <2>1 DEF TypeInv, TypeOK, DeferSites, WorkerStates, PCs
  <1>3. CASE worker[w].site = "daily"
    <2>1. Invoke(w, "finish", "turn", TRUE, FALSE)
      BY <1>3 DEF NotDeferred
    <2> QED BY <2>1, InvokeType DEF PCs, Sites
  <1>4. CASE worker[w].site = "provider"
    <2>1. Invoke(w, "finish", "handler", FALSE, FALSE)
      BY <1>4 DEF NotDeferred
    <2> QED BY <2>1, InvokeType DEF PCs, Sites
  <1> QED BY <1>1, <1>2, <1>3, <1>4

\* A step that replaces one row by a well-typed one and leaves the workers.
LEMMA RowStepType ==
  ASSUME TypeInv, NEW i \in Tasks, NEW r \in Rows, row' = [row EXCEPT ![i] = r],
         UNCHANGED worker
  PROVE  row' \in [Tasks -> Rows] /\ worker' \in [Workers -> WorkerStates] /\ DeferSites'
  BY DEF TypeInv, TypeOK, DeferSites

LEMMA IntakeTypes ==
  ASSUME TypeInv, Intake, lost' \subseteq Tasks
  PROVE  TypeInv'
  <1>1. CASE \E i \in Tasks : Enqueue(i)
    <2> PICK i \in Tasks : Enqueue(i)
      BY <1>1
    <2>1. [NoRow EXCEPT !.status = "scheduled", !.due = MaxDelay] \in Rows
      <3>1. "scheduled" \in Statuses /\ MaxDelay \in 0..MaxDelay
        BY SizeAssumption DEF Statuses
      <3> QED BY <3>1, NoRowType DEF Rows
    <2>2. [NoRow EXCEPT !.status = "queued"] \in Rows
      BY NoRowType DEF Rows, Statuses, Open, Waiting
    <2>3. next' \in 1..(MaxTasks + 1)
      BY SizeAssumption DEF Enqueue, Tasks
    <2> QED BY <2>1, <2>2, <2>3, RowStepType DEF Enqueue, TypeInv, TypeOK
  <1>2. CASE \E i \in Tasks : SaveDispatchFlags(i)
    <2> PICK i \in Tasks : SaveDispatchFlags(i)
      BY <1>2
    <2>1. [row[i] EXCEPT !.flags = Asked[i], !.failures = 0] \in Rows
      <3>1. Asked[i] \in SUBSET Flags /\ 0 \in 0..MaxFailures
        BY SizeAssumption, RowAssumption DEF Flags
      <3> QED BY <3>1 DEF TypeInv, TypeOK, Rows
    <2>2. row' = row \/ row' = [row EXCEPT ![i] =
                                  [row[i] EXCEPT !.flags = Asked[i], !.failures = 0]]
      BY DEF SaveDispatchFlags, TypeInv, TypeOK
    <2> QED BY <2>1, <2>2, RowStepType DEF SaveDispatchFlags, TypeInv, TypeOK, DeferSites
  <1> QED BY <1>1, <1>2 DEF Intake

LEMMA ClampType == ASSUME NEW p \in Int PROVE Clamp(p) \in Int
  BY SizeAssumption DEF Clamp

LEMMA OwnerTypes ==
  ASSUME TypeInv, OwnerActs, lost' \subseteq Tasks
  PROVE  TypeInv'
  <1> USE DEF TypeInv, TypeOK
  <1>1. /\ 0 \in 0..LeaseTicks /\ 0 \in 0..MaxDelay
        /\ {"queued", "cancelled"} \subseteq Statuses
    BY SizeAssumption DEF Statuses, Open, Waiting, Recorded
  <1>2. ASSUME NEW i \in Tasks, Cancel(i) PROVE TypeInv'
    <2>1. [row[i] EXCEPT !.status = "cancelled"] \in Rows
      BY <1>1 DEF Rows
    <2> QED BY <1>2, <2>1, NoRowType, RowStepType DEF Cancel
  <1>3. ASSUME NEW i \in Tasks, DeleteUserTask(i) PROVE TypeInv'
    BY <1>3, NoRowType, RowStepType DEF DeleteUserTask
  <1>4. ASSUME NEW i \in Tasks, RetryFailed(i) PROVE TypeInv'
    <2>1. [row[i] EXCEPT !.status = "queued", !.notBefore = 0, !.lease = 0] \in Rows
      BY <1>1 DEF Rows
    <2>2. row' = [row EXCEPT ![i] =
                    [row[i] EXCEPT !.status = "queued", !.notBefore = 0, !.lease = 0]]
      BY <1>4 DEF RetryFailed
    <2> QED BY <1>4, <2>1, <2>2, RowStepType DEF RetryFailed
  <1>5. ASSUME NEW o \in Owners, DeleteWaiting(o) PROVE TypeInv'
    BY <1>5, NoRowType DEF DeleteWaiting, DeferSites
  <1>6. ASSUME NEW i \in Tasks, NEW delta \in {-1, 1}, ChangePriority(i, delta)
        PROVE  TypeInv'
    <2>1. [row[i] EXCEPT !.priority = Clamp(@ + delta)] \in Rows
      <3>1. Clamp(row[i].priority + delta) \in Int
        BY ClampType DEF Rows
      <3> QED BY <3>1 DEF Rows
    <2> QED BY <1>6, <2>1, RowStepType DEF ChangePriority
  <1>7. ASSUME NEW i \in Tasks, NEW j \in Tasks, MoveWaiting(i, j) PROVE TypeInv'
    <2> DEFINE mine == WaitingOf(OwnerOf[i])
               rank(k) == Cardinality({m \in mine : Precedes(k, m)})
               moved(k) == CASE k = i -> rank(j) [] k = j -> rank(i) [] OTHER -> rank(k)
    <2>1. ASSUME NEW k \in Tasks PROVE rank(k) \in Int
      <3>1. {m \in mine : Precedes(k, m)} \subseteq Tasks
        BY DEF WaitingOf
      <3> QED BY <3>1, TasksFinite, FS_Subset, FS_CardinalityType
    <2>2. ASSUME NEW k \in Tasks PROVE moved(k) \in Int
      BY <2>1
    <2> HIDE DEF moved
    <2>3. ASSUME NEW k \in Tasks PROVE [row[k] EXCEPT !.priority = moved(k)] \in Rows
      BY <2>2 DEF Rows
    <2>4. row' = [k \in Tasks |-> IF k \in mine THEN [row[k] EXCEPT !.priority = moved(k)]
                                                ELSE row[k]]
      BY <1>7 DEF MoveWaiting, moved
    <2>5. row' \in [Tasks -> Rows]
      BY <2>3, <2>4
    <2> QED BY <1>7, <2>5 DEF MoveWaiting, DeferSites
  <1> QED BY <1>2, <1>3, <1>4, <1>5, <1>6, <1>7 DEF OwnerActs, QueueCommand

LEMMA ClaimTypes ==
  ASSUME TypeInv, NEW w \in Workers, lost' \subseteq Tasks,
         Claim(w) \/ MarkRunning(w) \/ Heartbeat(w) \/ HeartbeatDies(w)
  PROVE  TypeInv'
  <1> USE DEF TypeInv, TypeOK
  <1>1. /\ {"leased", "running"} \subseteq Statuses /\ LeaseTicks \in 0..LeaseTicks
        /\ {"idle", "claimed", "starting"} \subseteq PCs
    <2>1. LeaseTicks \in 0..LeaseTicks
      BY SizeAssumption
    <2>2. {"leased", "running"} \subseteq Statuses /\ {"idle", "claimed", "starting"} \subseteq PCs
      BY DEF Statuses, Open, Active, PCs
    <2> QED BY <2>1, <2>2
  <1>2. ASSUME NEW i \in Tasks, ClaimNext(w, i) PROVE TypeInv'
    <2>1. [Requeued[i] EXCEPT !.status = "leased", !.lease = LeaseTicks] \in Rows
      BY <1>1, RequeuedType, LeaseUpdate
    <2>2. row' = [Requeued EXCEPT ![i] =
                    [Requeued[i] EXCEPT !.status = "leased", !.lease = LeaseTicks]]
      BY <1>2, RequeuedType DEF ClaimNext
    <2>3. row' \in [Tasks -> Rows]
      BY <2>1, <2>2, RequeuedType
    <2>4. worker' \in [Workers -> WorkerStates] /\ DeferSites'
      <3> DEFINE taken == [worker[w] EXCEPT !.pc = "claimed", !.task = i]
      <3>1. taken \in WorkerStates /\ taken.pc = "claimed"
        BY <1>1 DEF WorkerStates
      <3>2. worker' = [worker EXCEPT ![w] = taken]
        BY <1>2 DEF ClaimNext
      <3> HIDE DEF taken
      <3> QED BY <3>1, <3>2, WorkerStepType
    <2> QED BY <1>2, <2>3, <2>4 DEF ClaimNext
  <1>3. CASE ClaimNothing(w)
    BY <1>3, RequeuedType DEF ClaimNothing, DeferSites
  <1>4. CASE MarkRunning(w)
    <2> DEFINE i == worker[w].task
    <2>1. row' = row \/ row' = [row EXCEPT ![i] = [row[i] EXCEPT !.status = "running"]]
      BY <1>4 DEF MarkRunning
    <2>2. i \in Tasks /\ [row[i] EXCEPT !.status = "running"] \in Rows
      BY <1>1 DEF WorkerStates, Rows
    <2>3. row' \in [Tasks -> Rows]
      BY <2>1, <2>2
    <2>4. CASE worker' = [worker EXCEPT ![w].pc = "starting", ![w].beats = TRUE]
      BY <1>1, <1>4, <2>3, <2>4 DEF MarkRunning, WorkerStates, DeferSites
    <2>5. CASE worker' = [worker EXCEPT ![w] = Idle]
      <3>1. Idle.pc = "idle"
        BY DEF Idle
      <3> QED BY <1>4, <2>3, <2>5, <3>1, IdleType DEF MarkRunning, DeferSites
    <2> QED BY <1>4, <2>4, <2>5 DEF MarkRunning
  <1>5. CASE Heartbeat(w)
    <2> DEFINE i == worker[w].task
    <2>1. i \in Tasks /\ [row[i] EXCEPT !.lease = LeaseTicks] \in Rows
      BY <1>1 DEF WorkerStates, Rows
    <2>2. [worker[w] EXCEPT !.beats = FALSE] \in WorkerStates
      BY DEF WorkerStates
    <2>3. CASE row' = [row EXCEPT ![i].lease = LeaseTicks] /\ UNCHANGED worker
      BY <1>5, <2>1, <2>3, RowStepType DEF Heartbeat
    <2>4. CASE worker' = [worker EXCEPT ![w].beats = FALSE] /\ UNCHANGED row
      BY <1>5, <2>2, <2>4 DEF Heartbeat, DeferSites, WorkerStates
    <2> QED BY <1>5, <2>3, <2>4 DEF Heartbeat
  <1>6. CASE HeartbeatDies(w)
    <2>1. [worker[w] EXCEPT !.beats = FALSE] \in WorkerStates
      BY DEF WorkerStates
    <2> QED BY <1>6, <2>1 DEF HeartbeatDies, DeferSites, WorkerStates
  <1> QED BY <1>2, <1>3, <1>4, <1>5, <1>6 DEF Claim

LEMMA ExecuteTypes ==
  ASSUME TypeInv, NEW w \in Workers, Execute(w), lost' \subseteq Tasks
  PROVE  TypeInv'
  <1> USE DEF TypeInv, TypeOK
  <1> DEFINE i == worker[w].task
  <1>1. /\ i \in Tasks /\ row[i] \in Rows /\ worker[w] \in WorkerStates
        /\ worker[w].ok \in BOOLEAN /\ worker[w].keep \in BOOLEAN
    BY DEF WorkerStates
  <1>2. CASE MarkRunning(w)
    BY <1>2, ClaimTypes
  <1>3. CASE Begin(w)
    <2> DEFINE known == row[i].flags \cup {"session"}
    <2>1. known \in SUBSET Flags /\ row[i].failures \in 0..MaxFailures /\ "working" \in PCs
      BY <1>1 DEF Rows, Flags, PCs
    <2>2. row' = row \/ row' = [row EXCEPT ![i].flags = known]
      BY <1>3 DEF Begin
    <2>3. worker' = [worker EXCEPT ![w].pc = "working", ![w].flags = known,
                                   ![w].failures = row[i].failures]
      BY <1>3 DEF Begin
    <2> HIDE DEF known
    <2>4. [row[i] EXCEPT !.flags = known] \in Rows
      BY <1>1, <2>1 DEF Rows
    <2>5. row' \in [Tasks -> Rows]
      BY <1>1, <2>2, <2>4
    <2> DEFINE begun == [worker[w] EXCEPT !.pc = "working", !.flags = known,
                                          !.failures = row[i].failures]
    <2>6. worker' \in [Workers -> WorkerStates] /\ DeferSites'
      <3>1. begun \in WorkerStates /\ begun.pc = "working"
        BY <1>1, <2>1 DEF WorkerStates
      <3>2. worker' = [worker EXCEPT ![w] = begun]
        BY <2>3
      <3> HIDE DEF begun
      <3> QED BY <3>1, <3>2, WorkerStepType
    <2> QED BY <1>3, <2>5, <2>6 DEF Begin
  <1>4. CASE Abandon(w) \/ Finalize(w)
    BY <1>4, LeaveTurnType DEF Abandon, Finalize
  <1>5. CASE RefuseAttachment(w) \/ TurnFails(w)
    BY <1>5, InvokeType DEF RefuseAttachment, TurnFails, PCs, Sites
  <1>6. CASE QuotaPaused(w)
    BY <1>6, InvokeType DEF QuotaPaused, PCs, Sites
  <1>7. CASE Reply(w)
    BY <1>7, InvokeType DEF Reply, PCs, Sites
  <1>8. CASE ProviderFails(w)
    <2> PICK count \in {0, worker[w].failures + 1} :
         worker' = [worker EXCEPT
                      ![w].pc = "defer", ![w].site = "provider", ![w].ok = FALSE,
                      ![w].retry = (count < MaxFailures), ![w].keep = FALSE,
                      ![w].failures = IF count > MaxFailures THEN MaxFailures ELSE count]
      BY <1>8 DEF ProviderFails
    <2> DEFINE capped == IF count > MaxFailures THEN MaxFailures ELSE count
               below == count < MaxFailures
    <2>1. capped \in 0..MaxFailures /\ below \in BOOLEAN
      BY SizeAssumption DEF WorkerStates
    <2> HIDE DEF capped, below
    <2>2. worker' = [worker EXCEPT ![w] =
                       [worker[w] EXCEPT !.pc = "defer", !.site = "provider", !.ok = FALSE,
                                         !.retry = below, !.keep = FALSE, !.failures = capped]]
      BY DEF capped, below
    <2> DEFINE failed == [worker[w] EXCEPT !.pc = "defer", !.site = "provider", !.ok = FALSE,
                                           !.retry = below, !.keep = FALSE,
                                           !.failures = capped]
    <2>3. failed \in WorkerStates /\ failed.site = "provider"
      BY <1>1, <2>1 DEF WorkerStates, PCs, Sites
    <2>4. worker' \in [Workers -> WorkerStates] /\ DeferSites'
      <3> HIDE DEF failed
      <3> QED BY <2>2, <2>3, WorkerStepType DEF failed
    <2> QED BY <1>8, <2>4 DEF ProviderFails
  <1>9. CASE FinishRead(w)
    <2>1. CASE Finished(w)
      BY <1>9, <2>1, FinishedType DEF FinishRead
    <2>2. CASE worker' = [worker EXCEPT ![w].pc = "finishing", ![w].keep = KeepsRecord(i)]
      <3>1. KeepsRecord(i) \in BOOLEAN
        BY DEF KeepsRecord
      <3> DEFINE kept == KeepsRecord(i)
                 read == [worker[w] EXCEPT !.pc = "finishing", !.keep = kept]
      <3>2. worker' = [worker EXCEPT ![w] = read]
        BY <2>2
      <3> HIDE DEF kept
      <3>3. read \in WorkerStates /\ read.pc = "finishing"
        BY <1>1, <3>1 DEF WorkerStates, PCs, kept
      <3> HIDE DEF read
      <3>4. worker' \in [Workers -> WorkerStates] /\ DeferSites'
        BY <3>2, <3>3, WorkerStepType
      <3> QED BY <1>9, <3>4 DEF FinishRead
    <2> QED BY <1>9, <2>1, <2>2 DEF FinishRead
  <1>10. CASE FinishWrite(w)
    <2>1. row' \in [Tasks -> Rows]
      BY <1>1, <1>10, FinishedRowType DEF FinishWrite
    <2> QED BY <1>10, <2>1, FinishedType DEF FinishWrite
  <1>11. CASE DeferRead(w)
    <2>1. CASE NotDeferred(w)
      BY <1>11, <2>1, NotDeferredType DEF DeferRead
    <2>2. CASE worker' = [worker EXCEPT ![w].pc = "deferring", ![w].keep = KeepsRecord(i)]
      <3>1. KeepsRecord(i) \in BOOLEAN
        BY DEF KeepsRecord
      <3> DEFINE kept == KeepsRecord(i)
                 read == [worker[w] EXCEPT !.pc = "deferring", !.keep = kept]
      <3>2. worker' = [worker EXCEPT ![w] = read]
        BY <2>2
      <3> HIDE DEF kept
      <3>3. read \in WorkerStates /\ read.pc = "deferring" /\ read.site = worker[w].site
            /\ read.retry = worker[w].retry
        BY <1>1, <3>1 DEF WorkerStates, PCs, kept
      <3> HIDE DEF read
      <3>4. worker' \in [Workers -> WorkerStates] /\ DeferSites'
        BY <1>11, <3>2, <3>3, WorkerStepType DEF DeferRead, DeferSites
      <3> QED BY <1>11, <3>4 DEF DeferRead
    <2> QED BY <1>11, <2>1, <2>2 DEF DeferRead
  <1>12. CASE DeferWrite(w)
    <2>1. row' \in [Tasks -> Rows]
      BY <1>1, <1>12, DeferredRowType DEF DeferWrite
    <2>2. CASE NotDeferred(w)
      BY <1>12, <2>1, <2>2, NotDeferredType DEF DeferWrite
    <2>3. CASE worker' = [worker EXCEPT ![w].pc = "finalizing"]
      <3>1. [worker[w] EXCEPT !.pc = "finalizing"] \in WorkerStates
        BY DEF WorkerStates, PCs
      <3>2. [worker[w] EXCEPT !.pc = "finalizing"].pc = "finalizing"
        BY DEF WorkerStates
      <3>3. worker' \in [Workers -> WorkerStates] /\ DeferSites'
        BY <2>3, <3>1, <3>2 DEF DeferSites
      <3> QED BY <1>12, <2>1, <3>3 DEF DeferWrite
    <2>4. CASE LeaveTurn(w)
      BY <1>12, <2>1, <2>4, LeaveTurnType DEF DeferWrite
    <2> QED BY <1>12, <2>2, <2>3, <2>4 DEF DeferWrite
  <1>13. CASE FinalizeRaises(w)
    BY <1>13, InvokeType, LeaveTurnType DEF FinalizeRaises, PCs, Sites
  <1>14. CASE Epilogue(w)
    <2>1. Idle.pc = "idle"
      BY DEF Idle
    <2> QED BY <1>14, <2>1, InvokeType, IdleType DEF Epilogue, PCs, Sites, DeferSites
  <1> QED BY <1>2, <1>3, <1>4, <1>5, <1>6, <1>7, <1>8, <1>9, <1>10, <1>11, <1>12,
             <1>13, <1>14 DEF Execute

LEMMA ClockTypes ==
  ASSUME TypeInv, PromoteDue \/ Tick \/ CrashRestart \/ Drained, lost' \subseteq Tasks
  PROVE  TypeInv'
  <1> USE DEF TypeInv, TypeOK
  <1>1. CASE PromoteDue
    <2>1. ASSUME NEW i \in Tasks PROVE [row[i] EXCEPT !.status = "queued"] \in Rows
      BY DEF Rows, Statuses, Open, Waiting
    <2> QED BY <1>1, <2>1 DEF PromoteDue, DeferSites
  <1>2. CASE Tick
    <2>1. ASSUME NEW i \in Tasks
          PROVE  [row[i] EXCEPT !.lease = Less(@), !.due = Less(@), !.notBefore = Less(@)]
                   \in Rows
      <3>1. /\ Less(row[i].lease) \in 0..LeaseTicks /\ Less(row[i].due) \in 0..MaxDelay
            /\ Less(row[i].notBefore) \in 0..MaxDelay
        BY LessType, SizeAssumption DEF Rows
      <3> QED BY <3>1 DEF Rows
    <2>2. row' \in [Tasks -> Rows]
      BY <1>2, <2>1 DEF Tick
    <2> QED BY <1>2, <2>2 DEF Tick, DeferSites
  <1>3. CASE CrashRestart
    <2>1. crashes' \in 0..MaxCrashes
      BY <1>3, SizeAssumption DEF CrashRestart
    <2>2. worker' \in [Workers -> WorkerStates] /\ DeferSites'
      BY <1>3, IdleType DEF CrashRestart, DeferSites, Idle
    <2> QED BY <1>3, <2>1, <2>2, RecoveredType DEF CrashRestart
  <1>4. CASE Drained
    BY <1>4 DEF Drained, core, DeferSites
  <1> QED BY <1>1, <1>2, <1>3, <1>4

LEMMA StepTypes == TypeInv /\ [Next]_vars => TypeInv'
  <1> SUFFICES ASSUME TypeInv, [Next]_vars PROVE TypeInv'
    OBVIOUS
  <1>1. CASE UNCHANGED vars
    BY <1>1 DEF vars, TypeInv, TypeOK, DeferSites
  <1>2. CASE Next
    BY <1>2, LostType, NextSteps, IntakeTypes, OwnerTypes, ClaimTypes, ExecuteTypes, ClockTypes
  <1> QED BY <1>1, <1>2

LEMMA TypesHold == Spec => []TypeInv
  BY InitTypes, StepTypes, PTL DEF Spec

\* Every reachable state of the table and of the workers is well typed: no
\* store call the executor makes returns to a place the code does not name.
THEOREM TypeCorrect == Spec => []TypeOK
  BY TypesHold, PTL DEF TypeInv

-----------------------------------------------------------------------------
(* Leases.  Claiming is the only step that makes a row leased or running,  *)
(* and it looks at every row of the owner and of the pool when it does.    *)

NoNewActive   == \A i \in Tasks : row'[i].status \in Active => Status(i) \in Active
NoNewRetrying == \A i \in Tasks : row'[i].status = "retrying" => Status(i) = "retrying"

LEMMA FinishedRowStatus ==
  ASSUME row \in [Tasks -> Rows], NEW i \in Tasks, NEW success \in BOOLEAN,
         NEW keep \in BOOLEAN, NEW r \in FinishedRow(i, success, keep)
  PROVE  r.status \in {"scheduled", "completed", "failed", "absent"}
  <1>1. NoRow.status = "absent"
    BY DEF NoRow
  <1>2. CASE KindOf[i] = "recurring"
    <2> PICK d \in 1..MaxDelay :
          r = [row[i] EXCEPT !.status = "scheduled", !.lease = 0, !.notBefore = 0,
                             !.flags = {}, !.failures = 0, !.due = IF @ = 0 THEN d ELSE @]
      BY <1>2 DEF FinishedRow
    <2> QED BY DEF Rows
  <1>3. CASE KindOf[i] # "recurring" /\ keep
    <2>1. r = [row[i] EXCEPT !.status = IF success THEN "completed" ELSE "failed",
                             !.lease = 0, !.notBefore = 0]
      BY <1>3 DEF FinishedRow
    <2>2. r.status = IF success THEN "completed" ELSE "failed"
      BY <2>1 DEF Rows
    <2> QED BY <2>2
  <1> QED BY <1>1, <1>2, <1>3 DEF FinishedRow

LEMMA DeferredRowStatus ==
  ASSUME TypeOK, NEW w \in Workers, NEW r \in DeferredRow(w)
  PROVE  /\ r.status \in {"retrying", "dead_letter", "absent"}
         /\ worker[w].retry => r.status = "retrying"
  <1> DEFINE i == worker[w].task
             saved == [row[i] EXCEPT !.lease = 0, !.flags = worker[w].flags,
                                     !.failures = worker[w].failures]
  <1>1. row[i] \in Rows
    BY DEF TypeOK, WorkerStates
  <1>2. NoRow.status = "absent"
    BY DEF NoRow
  <1>3. CASE worker[w].retry
    <2> PICK d \in 1..MaxDelay : r = [saved EXCEPT !.status = "retrying", !.notBefore = d]
      BY <1>3 DEF DeferredRow
    <2> QED BY <1>1 DEF Rows
  <1>4. CASE ~worker[w].retry /\ worker[w].keep
    <2>1. r = [saved EXCEPT !.status = "dead_letter", !.notBefore = 0]
      BY <1>4 DEF DeferredRow
    <2> QED BY <1>1, <1>4, <2>1 DEF Rows
  <1> QED BY <1>2, <1>3, <1>4 DEF DeferredRow

LEMMA OwnerActivatesNothing == ASSUME TypeInv, Intake \/ OwnerActs \/ PromoteDue PROVE NoNewActive /\ NoNewRetrying
  <1> USE DEF TypeInv, TypeOK, NoNewActive, NoNewRetrying, Status
  <1>1. "queued" \notin Active /\ "scheduled" \notin Active /\ "cancelled" \notin Active
        /\ NoRow.status \notin Active \cup {"retrying"}
    BY DEF Active, NoRow
  <1>2. ASSUME NEW i \in Tasks, Enqueue(i) PROVE NoNewActive /\ NoNewRetrying
    <2>1. row'[i].status \in {"scheduled", "queued"}
      BY <1>2 DEF Enqueue, NoRow
    <2> QED BY <1>1, <1>2, <2>1 DEF Enqueue
  <1>3. ASSUME NEW i \in Tasks, SaveDispatchFlags(i) PROVE NoNewActive /\ NoNewRetrying
    BY <1>3 DEF SaveDispatchFlags, Rows
  <1>4. ASSUME NEW i \in Tasks, Cancel(i) PROVE NoNewActive /\ NoNewRetrying
    <2>1. row'[i].status \notin Active \cup {"retrying"}
      BY <1>1, <1>4 DEF Cancel, Rows
    <2> QED BY <1>4, <2>1 DEF Cancel
  <1>5. ASSUME NEW i \in Tasks, DeleteUserTask(i) PROVE NoNewActive /\ NoNewRetrying
    BY <1>1, <1>5 DEF DeleteUserTask
  <1>6. ASSUME NEW i \in Tasks, RetryFailed(i) PROVE NoNewActive /\ NoNewRetrying
    <2>1. row'[i].status = "queued"
      BY <1>6 DEF RetryFailed, Rows
    <2> QED BY <1>1, <1>6, <2>1 DEF RetryFailed
  <1>7. ASSUME NEW o \in Owners, DeleteWaiting(o) PROVE NoNewActive /\ NoNewRetrying
    BY <1>1, <1>7 DEF DeleteWaiting
  <1>8. ASSUME NEW i \in Tasks, NEW delta \in {-1, 1}, ChangePriority(i, delta)
        PROVE  NoNewActive /\ NoNewRetrying
    BY <1>8 DEF ChangePriority, Rows
  <1>9. ASSUME NEW i \in Tasks, NEW j \in Tasks, MoveWaiting(i, j) PROVE NoNewActive /\ NoNewRetrying
    BY <1>9 DEF MoveWaiting, Rows
  <1>10. CASE PromoteDue
    BY <1>1, <1>10 DEF PromoteDue, Rows
  <1> QED BY <1>2, <1>3, <1>4, <1>5, <1>6, <1>7, <1>8, <1>9, <1>10 DEF Intake, OwnerActs, QueueCommand

LEMMA WorkerActivatesNothing ==
  ASSUME TypeInv, NEW w \in Workers,
         ClaimNothing(w) \/ Execute(w) \/ Heartbeat(w) \/ HeartbeatDies(w)
  PROVE  NoNewActive /\ (DeferWrite(w) \/ NoNewRetrying)
  <1> USE DEF TypeInv, TypeOK, NoNewActive, NoNewRetrying, Status
  <1> DEFINE i == worker[w].task
  <1>1. /\ i \in Tasks /\ row[i] \in Rows /\ worker[w].ok \in BOOLEAN /\ worker[w].keep \in BOOLEAN
    BY DEF WorkerStates
  <1>2. CASE ClaimNothing(w)
    BY <1>2 DEF ClaimNothing, Requeued, Active, Rows
  <1>3. CASE MarkRunning(w)
    BY <1>1, <1>3 DEF MarkRunning, Active, Rows
  <1>4. CASE Heartbeat(w)
    BY <1>1, <1>4 DEF Heartbeat, Rows
  <1>5. CASE Begin(w)
    BY <1>1, <1>5 DEF Begin, Rows
  <1>6. CASE FinishWrite(w)
    <2>1. CASE UNCHANGED row
      BY <2>1
    <2>2. ASSUME NEW r \in FinishedRow(i, worker[w].ok, worker[w].keep),
                 row' = [row EXCEPT ![i] = r]
          PROVE  NoNewActive /\ NoNewRetrying
      <3>1. r.status \notin Active \cup {"retrying"}
        BY <1>1, FinishedRowStatus DEF Active
      <3> QED BY <2>2, <3>1
    <2> QED BY <1>6, <2>1, <2>2 DEF FinishWrite
  <1>7. CASE DeferWrite(w)
    <2>1. CASE UNCHANGED row
      BY <2>1
    <2>2. ASSUME NEW r \in DeferredRow(w), row' = [row EXCEPT ![i] = r]
          PROVE  NoNewActive
      <3>1. r.status \notin Active
        BY DeferredRowStatus DEF Active
      <3> QED BY <2>2, <3>1
    <2> QED BY <1>7, <2>1, <2>2 DEF DeferWrite
  <1>8. CASE UNCHANGED row
    BY <1>8
  <1> QED BY <1>2, <1>3, <1>4, <1>5, <1>6, <1>7, <1>8
          DEF Execute, HeartbeatDies, Abandon, RefuseAttachment, QuotaPaused, Reply,
              ProviderFails, TurnFails, FinishRead, DeferRead, Finalize, FinalizeRaises,
              Epilogue

LEMMA ClockActivatesNothing ==
  ASSUME TypeInv, Tick \/ CrashRestart \/ UNCHANGED core
  PROVE  NoNewActive /\ NoNewRetrying
  <1> USE DEF TypeInv, TypeOK, NoNewActive, NoNewRetrying, Status
  <1>1. CASE Tick
    <2>1. ASSUME NEW i \in Tasks PROVE row'[i].status = row[i].status
      BY <1>1 DEF Tick, Rows
    <2> QED BY <2>1
  <1>2. CASE CrashRestart
    <2>1. ASSUME NEW i \in Tasks, Status(i) \in Active
          PROVE  Recovered(i).status \notin Active \cup {"retrying"}
      <3>1. /\ [row[i] EXCEPT !.status = "queued", !.lease = 0].status = "queued"
            /\ [row[i] EXCEPT !.status = "failed", !.lease = 0].status = "failed"
            /\ NoRow.status = "absent"
        BY DEF Rows, NoRow
      <3> QED BY <2>1, <3>1 DEF Recovered, Active
    <2>2. ASSUME NEW i \in Tasks, Status(i) \notin Active PROVE Recovered(i) = row[i]
      BY <2>2 DEF Recovered
    <2> QED BY <1>2, <2>1, <2>2 DEF CrashRestart
  <1> QED BY <1>1, <1>2 DEF core

LEMMA OnlyClaimActivates ==
  ASSUME TypeInv, [Next]_vars, \A w \in Workers, i \in Tasks : ~ClaimNext(w, i)
  PROVE  NoNewActive
  BY NextSteps, OwnerActivatesNothing, WorkerActivatesNothing, ClockActivatesNothing
     DEF Claim, Drained, core, vars

\* What claim_next leaves leased or running: what it found so, less the rows
\* whose lease had run out, and the row it takes.
LEMMA ClaimActivates ==
  ASSUME TypeInv, NEW w \in Workers, NEW i \in Tasks, ClaimNext(w, i)
  PROVE  /\ \A j \in Tasks : Requeued[j].status \in Active => Status(j) \in Active
         /\ \A j \in Tasks \ {i} : row'[j] = Requeued[j]
         /\ row'[i].status = "leased"
  <1> USE DEF TypeInv, TypeOK, Status
  <1>1. \A j \in Tasks : Requeued[j].status \in Active => Status(j) \in Active
    BY DEF Requeued, Active, Rows
  <1>2. row' = [Requeued EXCEPT ![i] = [Requeued[i] EXCEPT !.status = "leased",
                                                           !.lease = LeaseTicks]]
    BY RequeuedType DEF ClaimNext
  <1>3. [Requeued[i] EXCEPT !.status = "leased", !.lease = LeaseTicks].status = "leased"
    BY RequeuedType DEF Rows
  <1> QED BY <1>1, <1>2, <1>3, RequeuedType

LEMMA StepLease ==
  TypeInv /\ OneLeasePerOwner /\ [Next]_vars => OneLeasePerOwner'
  <1> SUFFICES ASSUME TypeInv, OneLeasePerOwner, [Next]_vars,
                      NEW j \in Tasks, NEW k \in Tasks, SameOwner(j, k),
                      row'[j].status \in Active, row'[k].status \in Active
               PROVE  j = k
    BY DEF OneLeasePerOwner, ActiveRows, Status, SameOwner
  <1>1. CASE \A w \in Workers, i \in Tasks : ~ClaimNext(w, i)
    BY <1>1, OnlyClaimActivates DEF NoNewActive, OneLeasePerOwner, ActiveRows
  <1>2. ASSUME NEW w \in Workers, NEW i \in Tasks, ClaimNext(w, i)
        PROVE  j = k
    <2>1. \A r \in Tasks : SameOwner(r, i) => Requeued[r].status \notin Active
      BY <1>2 DEF ClaimNext, Claimable
    <2>2. ASSUME NEW r \in Tasks \ {i}, row'[r].status \in Active
          PROVE  Status(r) \in Active /\ ~SameOwner(r, i)
      BY <1>2, <2>1, <2>2, ClaimActivates
    <2> QED BY <2>2 DEF SameOwner, OneLeasePerOwner, ActiveRows
  <1> QED BY <1>1, <1>2

\* No owner ever has two rows leased or running, whatever expires, crashes,
\* retries or is cancelled: claim_next's NOT EXISTS is enough by itself, also
\* when heartbeats die.
THEOREM LeasePerOwner == Spec => []OneLeasePerOwner
  <1>1. Init => OneLeasePerOwner
    BY DEF Init, OneLeasePerOwner, ActiveRows, Status, Active, NoRow
  <1> QED BY <1>1, TypesHold, StepLease, PTL DEF Spec

LEMMA ActiveRowsFinite == IsFiniteSet(ActiveRows) /\ Cardinality(ActiveRows) \in Nat
  BY TasksFinite, FS_Subset, FS_CardinalityType DEF ActiveRows

LEMMA StepCapacity ==
  TypeInv /\ WithinCapacity /\ [Next]_vars => WithinCapacity'
  <1> SUFFICES ASSUME TypeInv, WithinCapacity, [Next]_vars PROVE WithinCapacity'
    OBVIOUS
  <1> DEFINE found == {i \in Tasks : Requeued[i].status \in Active}
             left  == {i \in Tasks : row'[i].status \in Active}
  <1>1. ActiveRows' = left /\ ActiveRows = {i \in Tasks : Status(i) \in Active}
    BY DEF ActiveRows, Status
  <1>2. IsFiniteSet(found)
    BY TasksFinite, FS_Subset
  <1>3. CASE \A w \in Workers, i \in Tasks : ~ClaimNext(w, i)
    <2>1. left \subseteq ActiveRows
      BY <1>1, <1>3, OnlyClaimActivates DEF NoNewActive
    <2>2. IsFiniteSet(left) /\ Cardinality(left) <= Cardinality(ActiveRows)
      BY <2>1, ActiveRowsFinite, FS_Subset
    <2>3. Cardinality(left) \in Nat
      BY <2>2, FS_CardinalityType
    <2> QED BY <1>1, <2>2, <2>3, ActiveRowsFinite, SizeAssumption DEF WithinCapacity
  <1>4. ASSUME NEW w \in Workers, NEW i \in Tasks, ClaimNext(w, i)
        PROVE  WithinCapacity'
    <2>1. ~(Cardinality(found) >= MaxActive) /\ Cardinality(found) \in Nat
      BY <1>2, <1>4, FS_CardinalityType DEF ClaimNext, Full
    <2>2. left \subseteq found \cup {i}
      BY <1>4, ClaimActivates
    <2>3. /\ IsFiniteSet(found \cup {i})
          /\ Cardinality(found \cup {i}) <= Cardinality(found) + 1
      <3> HIDE DEF found
      <3>1. /\ IsFiniteSet(found \cup {i})
            /\ Cardinality(found \cup {i}) =
                 IF i \in found THEN Cardinality(found) ELSE Cardinality(found) + 1
        BY <1>2, FS_AddElement
      <3> QED BY <2>1, <3>1
    <2>4. /\ IsFiniteSet(left) /\ Cardinality(left) <= Cardinality(found \cup {i})
      BY <2>2, <2>3, FS_Subset
    <2>5. Cardinality(left) \in Nat /\ Cardinality(found \cup {i}) \in Nat
      BY <2>3, <2>4, FS_CardinalityType
    <2>6. Cardinality(left) <= MaxActive
      <3> HIDE DEF left, found
      <3> QED BY <2>1, <2>3, <2>4, <2>5, SizeAssumption
    <2> QED BY <1>1, <2>6 DEF WithinCapacity
  <1> QED BY <1>3, <1>4

\* The bound of claim_next is never exceeded, also right after a claim that
\* found rows of dead workers still leased.
THEOREM Capacity == Spec => []WithinCapacity
  <1>1. Init => WithinCapacity
    <2> SUFFICES ASSUME Init PROVE WithinCapacity
      OBVIOUS
    <2>1. ActiveRows = {}
      BY DEF Init, ActiveRows, Status, Active, NoRow
    <2> QED BY <2>1, FS_EmptySet, SizeAssumption DEF WithinCapacity
  <1> QED BY <1>1, TypesHold, StepCapacity, PTL DEF Spec

-----------------------------------------------------------------------------
(* Execution.  A row changes hands under its worker only when it is lost.  *)

\* What a step of anybody else may do to a row a worker is on.
Keeps(i) ==
    /\ Status(i) \in {"absent", "cancelled"} => row'[i].status \in {"absent", "cancelled"}
    /\ Status(i) \in Active /\ row[i].lease > 0 =>
          \/ row'[i].status \in {"absent", "cancelled"}
          \/ row'[i].status = Status(i) /\ row'[i].lease > 0

LEMMA WorkerKept ==
  ASSUME TypeInv, NEW w \in Workers, Held(w), worker'[w] = worker[w], Keeps(worker[w].task),
         lost \subseteq lost'
  PROVE  Held(w)'
  <1> DEFINE i == worker[w].task
  <1>1. worker'[w].task = i /\ worker'[w].pc = worker[w].pc /\ worker'[w].beats = worker[w].beats
    OBVIOUS
  <1> QED BY <1>1 DEF Held, Keeps, Executing, Withdrawn, Status, Active

\* The owner never touches a leased or running row but to withdraw it.
LEMMA OwnerKeeps ==
  ASSUME TypeInv, FreshIds, Intake \/ OwnerActs \/ PromoteDue
  PROVE  /\ \A i \in Tasks : i < next => Keeps(i)
         /\ \A i \in Tasks : i >= next' => row'[i].status = "absent"
         /\ next' >= next
         /\ worker' = worker
  <1> USE DEF TypeInv, TypeOK, Keeps, Status
  <1> DEFINE Kept == /\ \A i \in Tasks : i < next => Keeps(i)
                     /\ \A i \in Tasks : i >= next' => row'[i].status = "absent"
                     /\ next' >= next
                     /\ worker' = worker
  <1>1. NoRow.status = "absent" /\ next \in Int
    BY DEF NoRow
  <1>2. \A i \in Tasks : i >= next => row[i].status = "absent"
    BY DEF FreshIds
  <1>3. ASSUME NEW i \in Tasks, NEW r, row' = [row EXCEPT ![i] = r],
               next' = next, worker' = worker, i < next, Keeps(i)
        PROVE  Kept
    <2>1. ASSUME NEW k \in Tasks, k # i PROVE row'[k] = row[k] /\ Keeps(k)
      BY <1>3, <2>1
    <2>2. ASSUME NEW k \in Tasks, k >= next PROVE row'[k].status = "absent"
      BY <1>1, <1>2, <1>3, <2>1, <2>2, TasksFinite
    <2>3. ASSUME NEW k \in Tasks PROVE Keeps(k)
      BY <1>3, <2>1
    <2> QED BY <1>1, <1>3, <2>2, <2>3
  <1>4. ASSUME NEW i \in Tasks, Enqueue(i) PROVE Kept
    BY <1>1, <1>2, <1>4, TasksFinite DEF Enqueue
  <1>5. ASSUME NEW i \in Tasks, SaveDispatchFlags(i) PROVE Kept
    <2>1. CASE Status(i) \in Open
      <3>1. row' = [row EXCEPT ![i] = [row[i] EXCEPT !.flags = Asked[i], !.failures = 0]]
        BY <1>5, <2>1 DEF SaveDispatchFlags
      <3>2. i < next
        BY <1>1, <1>2, <2>1, TasksFinite DEF Open, Active, Waiting
      <3>3. Keeps(i)
        BY <3>1 DEF Rows
      <3> QED BY <1>3, <1>5, <3>1, <3>2, <3>3 DEF SaveDispatchFlags
    <2>2. CASE row' = row
      BY <1>1, <1>2, <1>5, <2>2 DEF SaveDispatchFlags
    <2> QED BY <1>5, <2>1, <2>2 DEF SaveDispatchFlags
  <1>6. ASSUME NEW i \in Tasks, Cancel(i) PROVE Kept
    <2>1. i < next
      BY <1>1, <1>2, <1>6, TasksFinite DEF Cancel, Open, Active, Waiting
    <2>2. row'[i].status \in {"absent", "cancelled"}
      BY <1>1, <1>6 DEF Cancel, Rows
    <2> QED BY <1>3, <1>6, <2>1, <2>2 DEF Cancel
  <1>7. ASSUME NEW i \in Tasks, DeleteUserTask(i) PROVE Kept
    <2>1. i < next
      BY <1>1, <1>2, <1>7, TasksFinite DEF DeleteUserTask, Waiting
    <2> QED BY <1>1, <1>3, <1>7, <2>1 DEF DeleteUserTask
  <1>8. ASSUME NEW i \in Tasks, RetryFailed(i) PROVE Kept
    <2>1. i < next
      BY <1>1, <1>2, <1>8, TasksFinite DEF RetryFailed
    <2>2. row' = [row EXCEPT ![i] =
                    [row[i] EXCEPT !.status = "queued", !.notBefore = 0, !.lease = 0]]
      BY <1>8 DEF RetryFailed
    <2>3. Keeps(i)
      BY <1>8 DEF RetryFailed, Active
    <2> QED BY <1>3, <1>8, <2>1, <2>2, <2>3 DEF RetryFailed
  <1>9. ASSUME NEW o \in Owners, DeleteWaiting(o) PROVE Kept
    BY <1>1, <1>2, <1>9 DEF DeleteWaiting, Waiting, Active
  <1>10. ASSUME NEW i \in Tasks, NEW delta \in {-1, 1}, ChangePriority(i, delta) PROVE Kept
    <2>1. i < next
      BY <1>1, <1>2, <1>10, TasksFinite DEF ChangePriority, Waiting
    <2>2. Keeps(i)
      BY <1>10 DEF ChangePriority, Waiting, Active
    <2> QED BY <1>3, <1>10, <2>1, <2>2 DEF ChangePriority
  <1>11. ASSUME NEW i \in Tasks, NEW j \in Tasks, MoveWaiting(i, j) PROVE Kept
    <2>1. ASSUME NEW k \in Tasks, Status(k) \notin Waiting PROVE row'[k] = row[k]
      BY <1>11, <2>1 DEF MoveWaiting, WaitingOf
    <2>2. UNCHANGED <<next, worker>>
      BY <1>11 DEF MoveWaiting
    <2>3. ASSUME NEW k \in Tasks, k >= next PROVE row'[k].status = "absent"
      BY <1>1, <1>2, <2>1, <2>3 DEF Waiting
    <2>4. ASSUME NEW k \in Tasks PROVE Keeps(k)
      BY <2>1 DEF Waiting, Active
    <2> QED BY <1>1, <2>2, <2>3, <2>4
  <1>12. CASE PromoteDue
    <2>1. ASSUME NEW k \in Tasks, Status(k) # "scheduled" PROVE row'[k] = row[k]
      BY <1>12, <2>1 DEF PromoteDue
    <2>2. UNCHANGED <<next, worker>>
      BY <1>12 DEF PromoteDue
    <2>3. ASSUME NEW k \in Tasks, k >= next PROVE row'[k].status = "absent"
      BY <1>1, <1>2, <2>1, <2>3
    <2>4. ASSUME NEW k \in Tasks PROVE Keeps(k)
      BY <1>12, <2>1 DEF PromoteDue, Active
    <2> QED BY <1>1, <2>2, <2>3, <2>4
  <1> QED BY <1>4, <1>5, <1>6, <1>7, <1>8, <1>9, <1>10, <1>11, <1>12 DEF Intake, OwnerActs, QueueCommand

LEMMA InitHeld == Init => ExecutorInv
  <1> SUFFICES ASSUME Init PROVE ExecutorInv
    OBVIOUS
  <1>1. \A w \in Workers : worker[w].pc = "idle"
    BY DEF Init, Idle
  <1>2. DistinctWork /\ (\A w \in Workers : Held(w)) /\ DeferSites
    BY <1>1 DEF DistinctWork, Held, Executing, DeferSites
  <1>3. InsertedOnly
    BY <1>1 DEF Init, InsertedOnly, FreshIds, Status, NoRow
  <1> QED BY <1>2, <1>3 DEF ExecutorInv

LEMMA OwnerHeld ==
  ASSUME TypeInv, ExecutorInv, Intake \/ OwnerActs \/ PromoteDue, lost' = lost
  PROVE  DistinctWork' /\ (\A w \in Workers : Held(w)') /\ InsertedOnly'
  <1>1. /\ \A i \in Tasks : i < next => Keeps(i)
        /\ \A i \in Tasks : i >= next' => row'[i].status = "absent"
        /\ next' >= next /\ next' \in Int /\ next \in Int
        /\ worker' = worker
    BY OwnerKeeps, IntakeTypes, OwnerTypes, ClockTypes DEF ExecutorInv, InsertedOnly, TypeInv, TypeOK
  <1>2. DistinctWork' /\ InsertedOnly'
    <2>1. DistinctWork'
      BY <1>1 DEF ExecutorInv, DistinctWork
    <2>2. ASSUME NEW w \in Workers, worker'[w].pc # "idle" PROVE worker'[w].task < next'
      <3>1. worker[w].task < next /\ worker[w].task \in Int
        BY <1>1, <2>2, TasksFinite DEF ExecutorInv, InsertedOnly, FreshIds, TypeInv, TypeOK, WorkerStates
      <3> QED BY <1>1, <3>1
    <2> QED BY <1>1, <2>1, <2>2 DEF InsertedOnly, FreshIds, Status
  <1>3. ASSUME NEW w \in Workers PROVE Held(w)'
    <2>1. CASE worker[w].pc = "idle"
      BY <1>1, <2>1 DEF Held, Executing
    <2>2. CASE worker[w].pc # "idle"
      <3>1. worker[w].task \in Tasks /\ worker[w].task < next
        BY <2>2 DEF ExecutorInv, InsertedOnly, FreshIds, TypeInv, TypeOK, WorkerStates
      <3> QED BY <1>1, <3>1, WorkerKept DEF ExecutorInv
    <2> QED BY <2>1, <2>2
  <1> QED BY <1>2, <1>3

\* Requeueing touches no row whose lease still runs and no withdrawn row.
LEMMA RequeuedKeeps ==
  ASSUME TypeInv, NEW j \in Tasks
  PROVE  Status(j) \notin Active \/ row[j].lease > 0 => Requeued[j] = row[j]
  BY DEF TypeInv, TypeOK, Rows, Requeued, Status

LEMMA ClaimHeld ==
  ASSUME TypeInv, ExecutorInv, NEW w \in Workers, NEW i \in Tasks, ClaimNext(w, i),
         lost \subseteq lost', (\E v \in Workers : Settling(v, i)) => i \in lost'
  PROVE  DistinctWork' /\ (\A v \in Workers : Held(v)') /\ InsertedOnly'
  <1> USE DEF TypeInv, TypeOK, Status
  <1>1. Requeued[i].status \in Waiting /\ Requeued[i] \in Rows
    BY RequeuedType DEF ClaimNext, Claimable
  <1>2. /\ row'[i] = [Requeued[i] EXCEPT !.status = "leased", !.lease = LeaseTicks]
        /\ \A j \in Tasks \ {i} : row'[j] = Requeued[j]
    BY RequeuedType DEF ClaimNext
  <1>3. /\ worker'[w].pc = "claimed" /\ worker'[w].task = i
        /\ \A v \in Workers \ {w} : worker'[v] = worker[v]
    BY DEF ClaimNext, WorkerStates
  <1>4. next' = next /\ next \in Int /\ Tasks \subseteq Int
    BY TasksFinite DEF ClaimNext
  <1>5. ASSUME NEW v \in Workers, worker[v].pc # "idle", i \notin lost' PROVE worker[v].task # i
    <2> SUFFICES ASSUME worker[v].task = i PROVE FALSE
      OBVIOUS
    <2>1. CASE worker[v].pc = "claimed" \/ Executing(v)
      <3>1. Status(i) \in {"absent", "cancelled"}
            \/ (Status(i) \in {"leased", "running"} /\ row[i].lease > 0)
        <4>1. i \notin lost /\ Held(v)
          BY <1>5 DEF ExecutorInv
        <4> QED BY <2>1, <4>1 DEF Held, Withdrawn, Executing
      <3>2. Requeued[i] = row[i]
        BY <3>1, RequeuedKeeps DEF Active
      <3> QED BY <1>1, <3>1, <3>2 DEF Waiting
    <2>2. CASE worker[v].pc \in {"finish", "finishing", "finalizing", "tail"}
      BY <1>5, <2>2 DEF Settling
    <2> QED BY <1>5, <2>1, <2>2 DEF WorkerStates, PCs, Executing
  <1>6. i < next
    <2> SUFFICES ASSUME i >= next PROVE FALSE
      BY <1>4
    <2>1. row[i].status = "absent"
      BY DEF ExecutorInv, InsertedOnly, FreshIds
    <2>2. Requeued[i].status = "absent"
      BY <2>1, RequeuedKeeps DEF Active
    <2> QED BY <1>1, <2>2 DEF Waiting
  <1>7. DistinctWork'
    BY <1>3, <1>5 DEF ExecutorInv, DistinctWork
  <1>8. InsertedOnly'
    <2>1. ASSUME NEW v \in Workers, worker'[v].pc # "idle" PROVE worker'[v].task < next'
      BY <1>3, <1>4, <1>6, <2>1 DEF ExecutorInv, InsertedOnly, FreshIds
    <2>2. ASSUME NEW j \in Tasks, j >= next PROVE row'[j].status = "absent"
      <3>1. row[j].status = "absent" /\ j # i
        BY <1>4, <1>6, <2>2 DEF ExecutorInv, InsertedOnly, FreshIds
      <3>2. Requeued[j] = row[j]
        <4>1. Status(j) \notin Active
          BY <3>1 DEF Active
        <4> QED BY <4>1, RequeuedKeeps
      <3> QED BY <1>2, <3>1, <3>2
    <2> QED BY <1>4, <2>1, <2>2 DEF InsertedOnly, FreshIds
  <1>9. ASSUME NEW v \in Workers PROVE Held(v)'
    <2>1. CASE v = w
      <3>1. row'[i].status = "leased" /\ row'[i].lease = LeaseTicks
        BY <1>1, <1>2 DEF Rows
      <3> QED BY <1>3, <2>1, <3>1, SizeAssumption DEF Held, Executing
    <2>2. CASE v # w /\ worker[v].pc = "idle"
      BY <1>3, <2>2 DEF Held, Executing
    <2>3. CASE v # w /\ worker[v].pc # "idle"
      <3> DEFINE k == worker[v].task
      <3>0. CASE k \in lost'
        BY <1>3, <2>3, <3>0 DEF Held
      <3> SUFFICES ASSUME k \notin lost' PROVE Held(v)'
        BY <3>0
      <3>1. k \in Tasks \ {i} /\ worker'[v] = worker[v]
        BY <1>3, <1>5, <2>3 DEF WorkerStates
      <3>2. row'[k] = Requeued[k]
        BY <1>2, <3>1
      <3>3. Keeps(k)
        BY <3>1, <3>2, RequeuedKeeps DEF Keeps, Active
      <3> QED BY <3>1, <3>3, WorkerKept DEF ExecutorInv
    <2> QED BY <2>1, <2>2, <2>3
  <1> QED BY <1>7, <1>8, <1>9

\* Steps that leave every worker on its row: an empty claim, a heartbeat, a tick.
LEMMA QuietHeld ==
  ASSUME TypeInv, ExecutorInv, NEW w \in Workers, lost \subseteq lost',
         \/ ClaimNothing(w) \/ Heartbeat(w) \/ Tick \/ UNCHANGED core
         \/ HeartbeatDies(w) /\ worker[w].task \in lost'
  PROVE  DistinctWork' /\ (\A v \in Workers : Held(v)') /\ InsertedOnly'
  <1> USE DEF TypeInv, TypeOK, Status
  <1>1. next' = next /\ next \in Int /\ Tasks \subseteq Int
    <2>1. next' = next
      BY DEF ClaimNothing, Heartbeat, HeartbeatDies, Tick, core
    <2> QED BY <2>1, TasksFinite
  <1>2. ASSUME NEW v \in Workers
        PROVE  worker'[v].pc = worker[v].pc /\ worker'[v].task = worker[v].task
    <2>1. worker' = worker \/ worker' = [worker EXCEPT ![w] = [worker[w] EXCEPT !.beats = FALSE]]
      BY DEF ClaimNothing, Heartbeat, HeartbeatDies, Tick, core
    <2> QED BY <2>1 DEF WorkerStates
  <1>3. ASSUME NEW i \in Tasks, row[i].status = "absent" PROVE row'[i].status = "absent"
    <2>1. row[i].status \notin Active
      BY <1>3 DEF Active
    <2>2. CASE ClaimNothing(w)
      BY <1>3, <2>1, <2>2, RequeuedKeeps DEF ClaimNothing
    <2>3. CASE Heartbeat(w)
      <3>1. \/ row' = row
            \/ row' = [row EXCEPT ![worker[w].task] =
                          [row[worker[w].task] EXCEPT !.lease = LeaseTicks]]
        BY <2>3 DEF Heartbeat
      <3> QED BY <1>3, <3>1 DEF Rows, WorkerStates
    <2>4. CASE Tick
      BY <1>3, <2>4 DEF Tick, Rows
    <2> QED BY <1>3, <2>2, <2>3, <2>4 DEF HeartbeatDies, core
  <1>4. DistinctWork'
    BY <1>2 DEF ExecutorInv, DistinctWork
  <1>5. InsertedOnly'
    BY <1>1, <1>2, <1>3 DEF ExecutorInv, InsertedOnly, FreshIds
  <1>6. ASSUME NEW v \in Workers PROVE Held(v)'
    <2> DEFINE k == worker[v].task
    <2>1. k \in Tasks /\ row[k] \in Rows /\ Held(v)
      BY DEF ExecutorInv, WorkerStates
    <2>2. CASE ClaimNothing(w)
      <3>1. Keeps(k) /\ worker'[v] = worker[v]
        BY <2>1, <2>2, RequeuedKeeps DEF ClaimNothing, Keeps, Active
      <3> QED BY <2>1, <3>1, WorkerKept
    <2>3. CASE Heartbeat(w)
      <3> DEFINE i == worker[w].task
      <3>1. CASE Status(i) \in Active
        <4>1. row' = [row EXCEPT ![i] = [row[i] EXCEPT !.lease = LeaseTicks]] /\ worker' = worker
          BY <2>3, <3>1 DEF Heartbeat
        <4>2. i \in Tasks
          BY DEF WorkerStates
        <4>3. row'[k].status = row[k].status /\ row'[k].lease \in {row[k].lease, LeaseTicks}
          BY <2>1, <4>1, <4>2 DEF Rows
        <4>4. Keeps(k)
          BY <4>3, SizeAssumption DEF Keeps
        <4> QED BY <2>1, <4>1, <4>4, WorkerKept
      <3>2. CASE Status(i) \notin Active
        <4>1. row' = row /\ worker' = [worker EXCEPT ![w] = [worker[w] EXCEPT !.beats = FALSE]]
          BY <2>3, <3>2 DEF Heartbeat
        <4>2. CASE v = w
          BY <1>2, <2>1, <3>2, <4>1, <4>2 DEF Held, Executing, Withdrawn, Active
        <4>3. CASE v # w
          BY <2>1, <4>1, <4>3, WorkerKept DEF Keeps
        <4> QED BY <4>2, <4>3
      <3> QED BY <3>1, <3>2
    <2>4. CASE Tick
      <3>1. worker' = worker
        BY <2>4 DEF Tick
      <3>2. row'[k].status = row[k].status /\ row'[k].lease = Less(row[k].lease)
        BY <2>1, <2>4 DEF Tick, Rows
      <3>3. (worker[v].pc = "claimed" \/ worker[v].beats) /\ Status(k) \in Active
               => row[k].lease > 1
        BY <2>4 DEF Tick
      <3>4. row[k].lease \in Int
        BY <2>1 DEF Rows
      <3>5. row[k].lease > 1 => Less(row[k].lease) > 0
        BY <3>4 DEF Less
      <3> QED BY <2>1, <3>1, <3>2, <3>3, <3>5 DEF Held, Executing, Withdrawn, Active
    <2>5. CASE HeartbeatDies(w) /\ worker[w].task \in lost'
      <3>1. row' = row /\ worker' = [worker EXCEPT ![w] = [worker[w] EXCEPT !.beats = FALSE]]
        BY <2>5 DEF HeartbeatDies
      <3>2. CASE v = w
        BY <1>2, <2>5, <3>2 DEF Held
      <3>3. CASE v # w
        BY <2>1, <3>1, <3>3, WorkerKept DEF Keeps
      <3> QED BY <3>2, <3>3
    <2>6. CASE UNCHANGED core
      BY <2>1, <2>6, WorkerKept DEF core, Keeps
    <2> QED BY <2>2, <2>3, <2>4, <2>5, <2>6
  <1> QED BY <1>4, <1>5, <1>6

\* A worker's own step: it stays on its row or lets go of it, and touches no
\* other row and no other worker.
LEMMA OwnStepHeld ==
  ASSUME TypeInv, ExecutorInv, NEW w \in Workers, NEW i \in Tasks, i = worker[w].task,
         worker[w].pc # "idle", next' = next,
         worker'[w].pc # "idle" => worker'[w].task = i,
         \A v \in Workers \ {w} : worker'[v] = worker[v],
         \A j \in Tasks \ {i} : row'[j] = row[j],
         lost' = lost, Held(w)'
  PROVE  DistinctWork' /\ (\A v \in Workers : Held(v)') /\ InsertedOnly'
  <1> USE DEF TypeInv, TypeOK
  <1>1. DistinctWork'
    BY DEF ExecutorInv, DistinctWork
  <1>2. InsertedOnly'
    <2>1. i < next /\ next \in Int /\ Tasks \subseteq Int
      BY TasksFinite DEF ExecutorInv, InsertedOnly, FreshIds
    <2>2. \A v \in Workers : worker'[v].pc # "idle" => worker'[v].task < next'
      BY <2>1 DEF ExecutorInv, InsertedOnly, FreshIds
    <2>3. ASSUME NEW j \in Tasks, j >= next PROVE row'[j].status = "absent"
      <3>1. j # i
        BY <2>1, <2>3
      <3> QED BY <2>3, <3>1 DEF ExecutorInv, InsertedOnly, FreshIds, Status
    <2> QED BY <2>1, <2>2, <2>3 DEF InsertedOnly, FreshIds, Status
  <1>3. ASSUME NEW v \in Workers \ {w} PROVE Held(v)'
    <2>1. CASE worker[v].pc = "idle"
      BY <2>1 DEF Held, Executing
    <2>2. CASE worker[v].pc # "idle"
      <3> DEFINE k == worker[v].task
      <3>0. CASE k \in lost
        BY <3>0 DEF Held
      <3> SUFFICES ASSUME k \notin lost PROVE Held(v)'
        BY <3>0
      <3>1. k \in Tasks \ {i}
        BY <2>2 DEF ExecutorInv, DistinctWork, WorkerStates
      <3>2. Keeps(k)
        BY <3>1 DEF Keeps, Status
      <3> QED BY <3>2, WorkerKept DEF ExecutorInv
    <2> QED BY <2>1, <2>2
  <1> QED BY <1>1, <1>2, <1>3

LEMMA ExecuteHeld ==
  ASSUME TypeInv, ExecutorInv, NEW w \in Workers, Execute(w), lost' = lost
  PROVE  DistinctWork' /\ (\A v \in Workers : Held(v)') /\ InsertedOnly'
  <1> USE DEF TypeInv, TypeOK
  <1> DEFINE i == worker[w].task
             Past == worker'[w].pc \notin {"claimed", "starting", "working", "defer", "deferring"}
  <1>1. /\ i \in Tasks /\ row[i] \in Rows /\ worker[w] \in WorkerStates /\ Held(w)
    BY DEF ExecutorInv, WorkerStates
  <1>2. Past => Held(w)'
    BY DEF Held, Executing
  <1>3. ASSUME NEW label, NEW from, NEW success \in BOOLEAN, NEW canRetry \in BOOLEAN,
               Invoke(w, label, from, success, canRetry)
        PROVE  /\ worker'[w].pc = label /\ worker'[w].task = i
               /\ label = "finish" => Past
               /\ worker'[w].beats = worker[w].beats
               /\ \A v \in Workers \ {w} : worker'[v] = worker[v]
    BY <1>1, <1>3 DEF Invoke, WorkerStates
  <1>4. LeaveTurn(w) => /\ Past /\ worker'[w].task = i
                        /\ \A v \in Workers \ {w} : worker'[v] = worker[v]
    BY <1>1 DEF LeaveTurn, Idle, WorkerStates
  <1>5. Finished(w) => /\ Past
                       /\ worker'[w].pc # "idle" => worker'[w].task = i
                       /\ \A v \in Workers \ {w} : worker'[v] = worker[v]
    BY <1>1 DEF Finished, Idle, WorkerStates
  <1>6. CASE MarkRunning(w)
    <2>1. /\ worker[w].pc = "claimed" /\ next' = next
          /\ \A v \in Workers \ {w} : worker'[v] = worker[v]
          /\ \A j \in Tasks \ {i} : row'[j] = row[j]
      BY <1>1, <1>6 DEF MarkRunning
    <2>2. CASE Status(i) = "leased"
      <3>1. /\ worker'[w].pc = "starting" /\ worker'[w].task = i /\ worker'[w].beats
            /\ row'[i].status = "running" /\ row'[i].lease = row[i].lease
        BY <1>1, <1>6, <2>2 DEF MarkRunning, WorkerStates, Rows
      <3>2. Held(w)'
        BY <1>1, <2>1, <2>2, <3>1 DEF Held, Executing, Withdrawn, Status
      <3> QED BY <1>1, <2>1, <3>1, <3>2, OwnStepHeld
    <2>3. CASE Status(i) # "leased"
      <3>1. worker'[w].pc = "idle"
        BY <1>6, <2>3 DEF MarkRunning, Idle
      <3> QED BY <1>1, <1>2, <2>1, <3>1, OwnStepHeld
    <2> QED BY <2>2, <2>3
  <1>7. CASE Begin(w)
    <2>1. /\ worker[w].pc = "starting" /\ next' = next
          /\ \A v \in Workers \ {w} : worker'[v] = worker[v]
          /\ \A j \in Tasks \ {i} : row'[j] = row[j]
      BY <1>1, <1>7 DEF Begin
    <2>2. worker'[w].pc = "working" /\ worker'[w].task = i /\ worker'[w].beats = worker[w].beats
      BY <1>1, <1>7 DEF Begin, WorkerStates
    <2>3. row'[i].status = row[i].status /\ row'[i].lease = row[i].lease
      <3> DEFINE known == row[i].flags \cup {"session"}
      <3>1. row' = row \/ row' = [row EXCEPT ![i] = [row[i] EXCEPT !.flags = known]]
        BY <1>7 DEF Begin
      <3> HIDE DEF known
      <3> QED BY <1>1, <3>1 DEF Rows
    <2>4. Held(w)'
      BY <1>1, <2>1, <2>2, <2>3 DEF Held, Executing, Withdrawn, Status
    <2> QED BY <1>1, <2>1, <2>2, <2>4, OwnStepHeld
  <1>8. CASE Abandon(w) \/ Finalize(w)
    <2>1. worker[w].pc # "idle" /\ next' = next /\ row' = row /\ LeaveTurn(w)
      BY <1>8 DEF Abandon, Finalize
    <2> QED BY <1>1, <1>2, <1>4, <2>1, OwnStepHeld
  <1>9. CASE RefuseAttachment(w) \/ TurnFails(w)
    <2>1. /\ worker[w].pc # "idle" /\ next' = next /\ row' = row
          /\ Invoke(w, "finish", "handler", FALSE, FALSE)
      BY <1>9 DEF RefuseAttachment, TurnFails
    <2>2. /\ Held(w)' /\ worker'[w].task = i
          /\ \A v \in Workers \ {w} : worker'[v] = worker[v]
      BY <1>2, <1>3, <2>1
    <2> QED BY <1>1, <2>1, <2>2, OwnStepHeld
  <1>10. CASE FinalizeRaises(w)
    <2>1. /\ worker[w].pc # "idle" /\ next' = next /\ row' = row
          /\ LeaveTurn(w) \/ Invoke(w, "finish", "handler", FALSE, FALSE)
      BY <1>10 DEF FinalizeRaises
    <2>2. /\ Held(w)' /\ worker'[w].task = i
          /\ \A v \in Workers \ {w} : worker'[v] = worker[v]
      BY <1>2, <1>3, <1>4, <2>1
    <2> QED BY <1>1, <2>1, <2>2, OwnStepHeld
  \* From working to a store call that defers: the row does not change.
  <1>11. CASE QuotaPaused(w) \/ Reply(w) \/ ProviderFails(w)
    <2>1. /\ worker[w].pc = "working" /\ next' = next /\ row' = row
          /\ worker'[w].task = i /\ worker'[w].beats = worker[w].beats
          /\ worker'[w].pc \in {"finish", "defer"}
          /\ \A v \in Workers \ {w} : worker'[v] = worker[v]
      <3>1. CASE QuotaPaused(w)
        BY <1>3, <3>1 DEF QuotaPaused
      <3>2. CASE Reply(w)
        BY <1>3, <3>2 DEF Reply
      <3>3. CASE ProviderFails(w)
        BY <1>1, <3>3 DEF ProviderFails, WorkerStates
      <3> QED BY <1>11, <3>1, <3>2, <3>3
    <2>2. Held(w)'
      BY <1>1, <2>1 DEF Held, Executing, Withdrawn, Status
    <2> QED BY <1>1, <2>1, <2>2, OwnStepHeld
  <1>12. CASE FinishRead(w)
    <2>1. worker[w].pc = "finish" /\ next' = next /\ row' = row
      BY <1>12 DEF FinishRead
    <2>2. CASE Finished(w)
      <3>1. /\ Held(w)'
            /\ worker'[w].pc # "idle" => worker'[w].task = i
            /\ \A v \in Workers \ {w} : worker'[v] = worker[v]
        BY <1>2, <1>5, <2>2
      <3> QED BY <1>1, <2>1, <3>1, OwnStepHeld
    <2>3. CASE worker' = [worker EXCEPT ![w].pc = "finishing", ![w].keep = KeepsRecord(i)]
      <3>1. /\ Past /\ worker'[w].task = i
            /\ \A v \in Workers \ {w} : worker'[v] = worker[v]
        BY <1>1, <2>3 DEF WorkerStates
      <3> QED BY <1>1, <1>2, <2>1, <3>1, OwnStepHeld
    <2> QED BY <1>12, <2>2, <2>3 DEF FinishRead
  <1>13. CASE FinishWrite(w)
    <2>1. /\ worker[w].pc = "finishing" /\ next' = next /\ Finished(w)
          /\ \A j \in Tasks \ {i} : row'[j] = row[j]
      BY <1>1, <1>13 DEF FinishWrite
    <2>2. /\ Held(w)'
          /\ worker'[w].pc # "idle" => worker'[w].task = i
          /\ \A v \in Workers \ {w} : worker'[v] = worker[v]
      BY <1>2, <1>5, <2>1
    <2> QED BY <1>1, <2>1, <2>2, OwnStepHeld
  <1>14. CASE Epilogue(w)
    <2>1. worker[w].pc = "tail" /\ next' = next /\ row' = row
      BY <1>14 DEF Epilogue
    <2>2. CASE worker' = [worker EXCEPT ![w] = Idle]
      <3>1. /\ worker'[w].pc = "idle" /\ \A v \in Workers \ {w} : worker'[v] = worker[v]
        BY <2>2 DEF Idle
      <3> QED BY <1>1, <1>2, <2>1, <3>1, OwnStepHeld
    <2>3. ASSUME NEW success \in BOOLEAN, Invoke(w, "finish", "epilogue", success, FALSE)
          PROVE  DistinctWork' /\ (\A v \in Workers : Held(v)') /\ InsertedOnly'
      <3>1. /\ Held(w)' /\ worker'[w].task = i
            /\ \A v \in Workers \ {w} : worker'[v] = worker[v]
        BY <1>2, <1>3, <2>3
      <3> QED BY <1>1, <2>1, <3>1, OwnStepHeld
    <2> QED BY <1>14, <2>2, <2>3 DEF Epilogue
  \* NotDeferred returns to the turn only from a quota pause.
  <1>15. NotDeferred(w) /\ worker[w].site \in {"quota", "daily", "provider"} =>
           /\ \/ Past
              \/ /\ worker[w].site = "quota" /\ worker'[w].pc = "working"
                 /\ worker'[w].beats = worker[w].beats
           /\ worker'[w].pc # "idle" /\ worker'[w].task = i
           /\ \A v \in Workers \ {w} : worker'[v] = worker[v]
    <2>1. CASE NotDeferred(w) /\ worker[w].site = "quota"
      BY <1>1, <2>1 DEF NotDeferred, WorkerStates
    <2>2. CASE NotDeferred(w) /\ worker[w].site = "daily"
      <3>1. Invoke(w, "finish", "turn", TRUE, FALSE)
        BY <2>2 DEF NotDeferred
      <3>2. /\ worker'[w].pc = "finish" /\ worker'[w].task = i /\ Past
            /\ \A v \in Workers \ {w} : worker'[v] = worker[v]
        BY <1>3, <3>1
      <3> QED BY <3>2
    <2>3. CASE NotDeferred(w) /\ worker[w].site = "provider"
      <3>1. Invoke(w, "finish", "handler", FALSE, FALSE)
        BY <2>3 DEF NotDeferred
      <3>2. /\ worker'[w].pc = "finish" /\ worker'[w].task = i /\ Past
            /\ \A v \in Workers \ {w} : worker'[v] = worker[v]
        BY <1>3, <3>1
      <3> QED BY <3>2
    <2> QED BY <2>1, <2>2, <2>3
  <1>16. CASE DeferRead(w)
    <2>1. /\ worker[w].pc = "defer" /\ next' = next /\ row' = row
          /\ worker[w].site \in {"quota", "daily", "provider"}
      BY <1>16 DEF DeferRead, ExecutorInv, DeferSites
    <2>2. CASE Withdrawn(i)
      <3>1. NotDeferred(w)
        BY <1>16, <2>2 DEF DeferRead
      <3>2. Held(w)'
        BY <1>2, <1>15, <2>1, <2>2, <3>1 DEF Held, Executing, Withdrawn, Status
      <3> QED BY <1>1, <1>15, <2>1, <3>1, <3>2, OwnStepHeld
    <2>3. CASE ~Withdrawn(i)
      <3>1. worker' = [worker EXCEPT ![w].pc = "deferring", ![w].keep = KeepsRecord(i)]
        BY <1>16, <2>3 DEF DeferRead
      <3>2. /\ worker'[w].pc = "deferring" /\ worker'[w].task = i
            /\ worker'[w].beats = worker[w].beats
            /\ \A v \in Workers \ {w} : worker'[v] = worker[v]
        BY <1>1, <3>1 DEF WorkerStates
      <3>3. Held(w)'
        BY <1>1, <2>1, <3>2 DEF Held, Executing, Withdrawn, Status
      <3> QED BY <1>1, <2>1, <3>2, <3>3, OwnStepHeld
    <2> QED BY <2>2, <2>3
  <1>17. CASE DeferWrite(w)
    <2>1. /\ worker[w].pc = "deferring" /\ next' = next
          /\ \A j \in Tasks \ {i} : row'[j] = row[j]
          /\ worker[w].site \in {"quota", "daily", "provider"}
          /\ worker[w].site = "quota" => worker[w].retry
      BY <1>1, <1>17 DEF DeferWrite, ExecutorInv, DeferSites
    <2>2. CASE NotDeferred(w) /\ row'[i].status # "retrying"
      <3>1. CASE Past
        BY <1>1, <1>2, <1>15, <2>1, <2>2, <3>1, OwnStepHeld
      <3>2. CASE ~Past
        <4>1. worker[w].retry
          BY <1>15, <2>1, <2>2, <3>2
        <4>2. Status(i) \notin Open
          BY <1>1, <1>17, <2>2, <4>1, DeferredRowStatus DEF DeferWrite
        <4>3. row' = row /\ (Withdrawn(i) \/ i \in lost)
          BY <1>1, <1>17, <2>1, <4>2 DEF DeferWrite, Held, Executing, Open, Active
        <4>4. Held(w)'
          BY <1>15, <2>1, <2>2, <3>2, <4>3 DEF Held, Executing, Withdrawn, Status
        <4> QED BY <1>1, <1>15, <2>1, <2>2, <4>4, OwnStepHeld
      <3> QED BY <3>1, <3>2
    <2>3. CASE worker' = [worker EXCEPT ![w].pc = "finalizing"]
      <3>1. /\ Past /\ worker'[w].task = i
            /\ \A v \in Workers \ {w} : worker'[v] = worker[v]
        BY <1>1, <2>3 DEF WorkerStates
      <3> QED BY <1>1, <1>2, <2>1, <3>1, OwnStepHeld
    <2>4. CASE LeaveTurn(w)
      BY <1>1, <1>2, <1>4, <2>1, <2>4, OwnStepHeld
    <2> QED BY <1>17, <2>2, <2>3, <2>4 DEF DeferWrite
  <1> QED BY <1>6, <1>7, <1>8, <1>9, <1>10, <1>11, <1>12, <1>13, <1>14, <1>16, <1>17
          DEF Execute

LEMMA StepHeld ==
  TypeInv /\ ExecutorInv /\ [Next]_vars => ExecutorInv'
  <1> SUFFICES ASSUME TypeInv, ExecutorInv, [Next]_vars PROVE ExecutorInv'
    OBVIOUS
  <1>1. DeferSites'
    BY StepTypes DEF TypeInv
  <1>2. CASE (Intake \/ OwnerActs \/ PromoteDue) /\ lost' = lost
    BY <1>1, <1>2, OwnerHeld DEF ExecutorInv
  <1>3. ASSUME NEW w \in Workers, NEW i \in Tasks, ClaimNext(w, i), lost \subseteq lost',
               (\E v \in Workers : Settling(v, i)) => i \in lost'
        PROVE  ExecutorInv'
    BY <1>1, <1>3, ClaimHeld DEF ExecutorInv
  <1>4. ASSUME NEW w \in Workers, Execute(w), lost' = lost PROVE ExecutorInv'
    BY <1>1, <1>4, ExecuteHeld DEF ExecutorInv
  <1>5. ASSUME NEW w \in Workers, lost \subseteq lost',
               \/ ClaimNothing(w) \/ Heartbeat(w) \/ Tick \/ UNCHANGED core
               \/ HeartbeatDies(w) /\ worker[w].task \in lost'
        PROVE  ExecutorInv'
    BY <1>1, <1>5, QuietHeld DEF ExecutorInv
  <1>6. CASE (Tick \/ UNCHANGED core) /\ lost' = lost
    <2>1. CASE Workers = {}
      <3>1. DistinctWork' /\ \A w \in Workers : Held(w)'
        BY <2>1 DEF DistinctWork
      <3>2. InsertedOnly'
        BY <1>6, <2>1 DEF ExecutorInv, InsertedOnly, FreshIds, TypeInv, TypeOK, Status, Tick, core, Rows
      <3> QED BY <1>1, <3>1, <3>2 DEF ExecutorInv
    <2>2. ASSUME NEW w \in Workers PROVE ExecutorInv'
      BY <1>5, <1>6
    <2> QED BY <2>1, <2>2
  <1>7. CASE CrashRestart
    <2>1. \A w \in Workers : worker'[w].pc = "idle"
      BY <1>7 DEF CrashRestart, Idle
    <2>2. DistinctWork' /\ \A w \in Workers : Held(w)'
      BY <2>1 DEF DistinctWork, Held, Executing
    <2>3. ASSUME NEW i \in Tasks, i >= next' PROVE row'[i].status = "absent"
      <3>1. Status(i) = "absent" /\ "absent" \notin Active
        BY <1>7, <2>3 DEF CrashRestart, ExecutorInv, InsertedOnly, FreshIds, Active
      <3> QED BY <1>7, <3>1 DEF CrashRestart, Recovered, Status
    <2> QED BY <1>1, <2>1, <2>2, <2>3 DEF ExecutorInv, InsertedOnly, FreshIds, Status
  <1>8. ASSUME NEW w \in Workers, Loses(w) PROVE ExecutorInv'
    <2>1. CASE HeartbeatDies(w) /\ lost' = lost \cup {worker[w].task}
      BY <1>5, <2>1
    <2>2. ASSUME NEW i \in Tasks, ClaimNext(w, i), lost' = lost \cup {i} PROVE ExecutorInv'
      BY <1>3, <2>2
    <2> QED BY <1>8, <2>1, <2>2 DEF Loses
  <1>9. ASSUME NEW w \in Workers, Takes(w) \/ Heartbeat(w), lost' = lost PROVE ExecutorInv'
    BY <1>3, <1>5, <1>9 DEF Takes
  <1> QED BY <1>2, <1>4, <1>6, <1>7, <1>8, <1>9 DEF Next, Drained, core, vars

\* What a worker claimed or executes stays its own until the row is lost: the
\* lease it renews, the claim query and the recovery leave no other way.
THEOREM RowsHeld == Spec => []ExecutorInv
  BY InitHeld, StepHeld, TypesHold, PTL DEF Spec

\* No two workers ever execute the same row, unless it was lost.
THEOREM SingleExecution == Spec => []NoDoubleExecution
  <1>1. ExecutorInv => NoDoubleExecution
    BY DEF ExecutorInv, DistinctWork, NoDoubleExecution, Executing
  <1> QED BY <1>1, RowsHeld, PTL

\* A row that is executed and was not lost is running under a live lease until
\* its owner withdraws it: no expiry, promotion, retry or other worker takes it.
THEOREM ExecutorKeepsRow == Spec => []ExecutorHoldsRow
  <1>1. ExecutorInv => ExecutorHoldsRow
    BY DEF ExecutorInv, Held, ExecutorHoldsRow
  <1> QED BY <1>1, RowsHeld, PTL

\* The agent has a second task of an owner only after the owner withdrew one of
\* the two or one of them was lost: two rows that are neither would both be
\* running, with one lease for the owner.
THEOREM SingleTurn == Spec => []OneExecutionPerOwner
  <1>1. TypeInv /\ ExecutorInv /\ OneLeasePerOwner => OneExecutionPerOwner
    <2> SUFFICES ASSUME TypeInv, ExecutorInv, OneLeasePerOwner,
                        NEW v \in Workers, NEW w \in Workers, v # w,
                        worker[v].pc = "working", worker[w].pc = "working",
                        SameOwner(worker[v].task, worker[w].task),
                        ~Withdrawn(worker[v].task), ~Withdrawn(worker[w].task),
                        worker[v].task \notin lost, worker[w].task \notin lost
                 PROVE  FALSE
      BY DEF OneExecutionPerOwner
    <2>1. Status(worker[v].task) = "running" /\ Status(worker[w].task) = "running"
      BY DEF ExecutorInv, Held, Executing
    <2>2. worker[v].task # worker[w].task
      BY DEF ExecutorInv, DistinctWork
    <2>3. worker[v].task \in Tasks /\ worker[w].task \in Tasks
      BY DEF TypeInv, TypeOK, WorkerStates, ExecutorInv, InsertedOnly, Tasks
    <2> QED
      BY <2>1, <2>2, <2>3 DEF OneLeasePerOwner, ActiveRows, Active
  <1> QED BY <1>1, RowsHeld, LeasePerOwner, TypesHold, PTL

\* Recovery leaves no row leased or running.
LEMMA RecoveredIdle ==
  ASSUME TypeInv, NEW i \in Tasks
  PROVE  Recovered(i).status \notin Active
  <1>1. row[i] \in Rows
    BY DEF TypeInv, TypeOK
  <1>2. /\ [row[i] EXCEPT !.status = "queued", !.lease = 0].status = "queued"
        /\ [row[i] EXCEPT !.status = "failed", !.lease = 0].status = "failed"
        /\ NoRow.status = "absent"
    BY <1>1 DEF Rows, NoRow
  <1> QED BY <1>2 DEF Recovered, Active, Status

LEMMA StepDeferred ==
  TypeInv /\ ExecutorInv /\ OneLeasePerOwner /\ DeferredBlocksLater /\ [Next]_vars
      => DeferredBlocksLater'
  <1> SUFFICES ASSUME TypeInv, ExecutorInv, OneLeasePerOwner, DeferredBlocksLater, [Next]_vars,
                      NEW i \in Tasks, NEW j \in Tasks, SameOwner(i, j), i < j, i \notin lost',
                      row'[i].status = "retrying", row'[j].status \in Active
               PROVE  FALSE
    BY DEF DeferredBlocksLater, Status, SameOwner
  <1>0. CASE CrashRestart
    <2>1. NoNewActive /\ NoNewRetrying /\ row'[j].status \notin Active
      BY <1>0, ClockActivatesNothing, RecoveredIdle DEF CrashRestart
    <2> QED BY <2>1
  <1> SUFFICES ASSUME i \notin lost PROVE FALSE
    BY <1>0 DEF Next, Loses, vars
  <1>1. ASSUME NEW w \in Workers, NEW k \in Tasks, ClaimNext(w, k) PROVE FALSE
    <2>1. row'[i] = Requeued[i] /\ i # k
      BY <1>1, ClaimActivates
    <2>2. CASE j = k
      BY <1>1, <2>1, <2>2 DEF ClaimNext, Claimable
    <2>3. CASE j # k
      <3>1. Requeued[i].status = "retrying" => Status(i) = "retrying"
        BY DEF TypeInv, TypeOK, Requeued, Rows, Status
      <3> QED BY <1>1, <2>1, <2>3, <3>1, ClaimActivates DEF DeferredBlocksLater
    <2> QED BY <2>2, <2>3
  <1>2. ASSUME NEW w \in Workers, DeferWrite(w) PROVE FALSE
    <2> DEFINE k == worker[w].task
    <2>1. k \in Tasks
      BY DEF TypeInv, TypeOK, WorkerStates
    <2>2. \A m \in Tasks \ {k} : row'[m] = row[m]
      BY <1>2, <2>1 DEF DeferWrite, TypeInv, TypeOK
    <2>3. NoNewActive
      BY <1>2, WorkerActivatesNothing DEF Execute
    <2>4. Status(j) \in Active
      BY <2>3 DEF NoNewActive
    <2>5. CASE i # k
      BY <2>2, <2>4, <2>5 DEF DeferredBlocksLater, Status
    <2>6. CASE i = k /\ Status(k) \in Open
      <3>1. Status(k) = "running"
        BY <1>2, <2>6 DEF DeferWrite, ExecutorInv, Held, Executing, Withdrawn, Open, Active,
                          Waiting
      <3> QED BY <2>4, <2>6, <3>1, TasksFinite
              DEF OneLeasePerOwner, ActiveRows, Active, SameOwner
    <2>7. CASE i = k /\ Status(k) \notin Open
      BY <1>2, <2>4, <2>7 DEF DeferWrite, DeferredBlocksLater, Status, Open, Waiting
    <2> QED BY <2>5, <2>6, <2>7
  <1>3. CASE /\ \A w \in Workers, k \in Tasks : ~ClaimNext(w, k)
             /\ \A w \in Workers : ~DeferWrite(w)
    <2>1. NoNewActive /\ NoNewRetrying
      BY <1>3, NextSteps, OwnerActivatesNothing, WorkerActivatesNothing, ClockActivatesNothing
         DEF Claim, Drained, core, vars
    <2> QED BY <2>1 DEF NoNewActive, NoNewRetrying, DeferredBlocksLater
  <1> QED BY <1>1, <1>2, <1>3

\* A deferred task that was not lost keeps its owner's later tasks waiting: its
\* deferral finds none of them leased, and no claim takes one past it.
THEOREM DeferredFirst == Spec => []DeferredBlocksLater
  <1>1. Init => DeferredBlocksLater
    BY DEF Init, DeferredBlocksLater, Status, NoRow
  <1> QED BY <1>1, RowsHeld, TypesHold, LeasePerOwner, StepDeferred, PTL DEF Spec

-----------------------------------------------------------------------------
(* Cancellation: final, also for rows that were lost.                      *)

CancelledStays ==
    \A i \in Tasks : Status(i) = "cancelled" => row'[i].status \in {"cancelled", "absent"}

LEMMA OwnerLeavesCancelled ==
  ASSUME TypeInv, FreshIds, Intake \/ OwnerActs \/ PromoteDue
  PROVE  CancelledStays /\ FreshIds'
  <1>1. \A i \in Tasks : Status(i) = "cancelled" => i < next
    BY TasksFinite DEF FreshIds, TypeInv, TypeOK
  <1>2. /\ \A i \in Tasks : i < next => Keeps(i)
        /\ \A i \in Tasks : i >= next' => row'[i].status = "absent"
    BY OwnerKeeps
  <1> QED BY <1>1, <1>2 DEF CancelledStays, Keeps, FreshIds, Status

\* The pool, the clock and a restart leave absent and cancelled rows alone.
LEMMA PoolLeavesWithdrawn ==
  ASSUME TypeInv, NEW i \in Tasks, Withdrawn(i), Next, ~(Intake \/ OwnerActs \/ PromoteDue)
  PROVE  row'[i].status = row[i].status
  <1> USE DEF TypeInv, TypeOK, Status
  <1>1. Status(i) \in {"absent", "cancelled"} /\ Status(i) \notin Active
    BY DEF Withdrawn, Active
  <1>2. Requeued[i] = row[i]
    BY <1>1, RequeuedKeeps
  <1>3. ASSUME NEW w \in Workers, NEW k \in Tasks, ClaimNext(w, k)
        PROVE  row'[i].status = row[i].status
    <2>1. i # k
      BY <1>1, <1>2, <1>3 DEF ClaimNext, Claimable, Waiting
    <2> QED BY <1>2, <1>3, <2>1, ClaimActivates
  <1>4. ASSUME NEW w \in Workers,
               ClaimNothing(w) \/ Execute(w) \/ Heartbeat(w) \/ HeartbeatDies(w)
        PROVE  row'[i].status = row[i].status
    <2> DEFINE k == worker[w].task
    <2>1. k \in Tasks
      BY DEF WorkerStates
    <2>2. CASE ClaimNothing(w)
      BY <1>2, <2>2 DEF ClaimNothing
    <2>3. CASE MarkRunning(w)
      BY <1>1, <2>1, <2>3 DEF MarkRunning
    <2>4. CASE Begin(w)
      BY <1>1, <2>1, <2>4 DEF Begin, Withdrawn
    <2>5. CASE FinishWrite(w)
      BY <1>1, <2>1, <2>5 DEF FinishWrite, Withdrawn
    <2>6. CASE DeferWrite(w)
      BY <1>1, <2>1, <2>6 DEF DeferWrite, Open, Active, Waiting
    <2>7. CASE Heartbeat(w)
      BY <1>1, <2>1, <2>7 DEF Heartbeat
    <2>8. CASE UNCHANGED row
      BY <2>8
    <2> QED BY <1>4, <2>2, <2>3, <2>4, <2>5, <2>6, <2>7, <2>8
            DEF Execute, HeartbeatDies, Abandon, RefuseAttachment, QuotaPaused, Reply,
                ProviderFails, TurnFails, FinishRead, DeferRead, Finalize, FinalizeRaises,
                Epilogue
  <1>5. CASE Tick
    BY <1>5 DEF Tick, Rows
  <1>6. CASE CrashRestart
    BY <1>1, <1>6 DEF CrashRestart, Recovered
  <1> QED BY NextSteps, <1>3, <1>4, <1>5, <1>6 DEF Claim, Drained, core

LEMMA StepCancelled == TypeInv /\ FreshIds /\ [Next]_vars => CancelledStays /\ FreshIds'
  <1> SUFFICES ASSUME TypeInv, FreshIds, [Next]_vars PROVE CancelledStays /\ FreshIds'
    OBVIOUS
  <1>1. CASE Intake \/ OwnerActs \/ PromoteDue
    BY <1>1, OwnerLeavesCancelled
  <1>2. CASE Next /\ ~(Intake \/ OwnerActs \/ PromoteDue)
    <2>1. next' = next
      BY <1>2, NextSteps DEF Claim, ClaimNext, ClaimNothing, Execute, MarkRunning, Begin, Abandon,
                  RefuseAttachment, QuotaPaused, Reply, ProviderFails, TurnFails, FinishRead,
                  FinishWrite, DeferRead, DeferWrite, Finalize, FinalizeRaises, Epilogue,
                  Heartbeat, HeartbeatDies, Tick, CrashRestart, Drained, core
    <2>2. ASSUME NEW i \in Tasks, Status(i) \in {"absent", "cancelled"}
          PROVE  row'[i].status = row[i].status
      BY <1>2, <2>2, PoolLeavesWithdrawn DEF Withdrawn
    <2> QED BY <2>1, <2>2 DEF CancelledStays, FreshIds, Status
  <1>3. CASE UNCHANGED vars
    BY <1>3 DEF vars, CancelledStays, FreshIds, Status
  <1> QED BY <1>1, <1>2, <1>3

\* A cancelled row is never finished, deferred, claimed or requeued again, also
\* by an executor whose lease was lost or whose snapshot predates the cancel.
THEOREM CancelledFinal == Spec => CancelledIsFinal
  <1>1. Init => FreshIds
    BY DEF Init, FreshIds, Status, NoRow
  <1>2. TypeInv /\ FreshIds /\ [Next]_vars =>
          [\A i \in Tasks :
             Status(i) = "cancelled" => row'[i].status \in {"cancelled", "absent"}]_vars
    BY StepCancelled DEF CancelledStays
  <1> QED BY <1>1, <1>2, StepCancelled, TypesHold, PTL DEF Spec, CancelledIsFinal

-----------------------------------------------------------------------------
(* What is kept.  Whether a row's outcome is recorded is decided by a       *)
(* snapshot, from flags that executors copy and write back: the copies and  *)
(* the snapshots agree with the row for as long as it is there.             *)

Daily(i) == "daily" \in row[i].flags

CopyAgrees(w) ==
    /\ worker[w].pc # "idle" => worker[w].task < next
    /\ worker[w].pc \notin {"idle", "claimed"} => worker[w].task \notin unsaved
    /\ worker[w].pc \in {"working", "defer", "deferring"} /\ Status(worker[w].task) # "absent"
         => ("daily" \in worker[w].flags <=> Daily(worker[w].task))
    /\ worker[w].pc \in {"finishing", "deferring"} /\ Status(worker[w].task) # "absent"
         => (worker[w].keep <=> KeepsRecord(worker[w].task))

RowsAsked ==
    \A i \in Tasks : /\ Status(i) # "absent" /\ Daily(i) => "daily" \in Asked[i]
                     /\ Status(i) = "scheduled" => KindOf[i] = "recurring"

QueueInv == FreshIds /\ RowsAsked /\ \A w \in Workers : CopyAgrees(w)

\* No row turns up, and a row that stays is daily if it was.
DailyStays ==
    \A i \in Tasks : row'[i].status # "absent" =>
        Status(i) # "absent" /\ (Daily(i)' <=> Daily(i))

ScheduledStays ==
    \A i \in Tasks : row'[i].status = "scheduled" => Status(i) = "scheduled" \/ KindOf[i] = "recurring"

LEMMA NotAskedUnlessPlain == \A i \in Tasks : "daily" \in Asked[i] => KindOf[i] = "plain"
  BY RowAssumption

LEMMA RowFacts ==
  ASSUME TypeInv
  PROVE  /\ \A i \in Tasks : row[i] \in Rows /\ Status(i) \in Statuses
         /\ \A w \in Workers : worker[w] \in WorkerStates /\ worker[w].task \in Tasks
  BY DEF TypeInv, TypeOK, Rows, Status, WorkerStates

LEMMA FinishedRowDaily ==
  ASSUME TypeInv, RowsAsked, NEW i \in Tasks, NEW success \in BOOLEAN, NEW keep \in BOOLEAN,
         Status(i) # "absent", NEW r \in FinishedRow(i, success, keep)
  PROVE  /\ r.status = "absent" \/ ("daily" \in r.flags <=> Daily(i))
         /\ r.status = "scheduled" => KindOf[i] = "recurring"
  <1>1. row[i] \in Rows
    BY RowFacts
  <1>2. CASE KindOf[i] = "recurring"
    <2>1. ~Daily(i)
      BY <1>2, NotAskedUnlessPlain DEF RowsAsked
    <2>2. PICK d \in 1..MaxDelay :
            r = [row[i] EXCEPT !.status = "scheduled", !.lease = 0, !.notBefore = 0,
                               !.flags = {}, !.failures = 0, !.due = IF @ = 0 THEN d ELSE @]
      BY <1>2 DEF FinishedRow
    <2>3. r.flags = {}
      BY <1>1, <2>2 DEF Rows
    <2> QED BY <1>2, <2>1, <2>3
  <1>3. CASE KindOf[i] # "recurring" /\ keep
    <2>1. r = [row[i] EXCEPT !.status = IF success THEN "completed" ELSE "failed",
                             !.lease = 0, !.notBefore = 0]
      BY <1>3 DEF FinishedRow
    <2>2. r.status = (IF success THEN "completed" ELSE "failed") /\ r.flags = row[i].flags
      BY <1>1, <2>1 DEF Rows
    <2> QED BY <2>2 DEF Daily
  <1>4. CASE KindOf[i] # "recurring" /\ ~keep
    BY <1>4 DEF FinishedRow, NoRow
  <1> QED BY <1>2, <1>3, <1>4

LEMMA DeferredRowFlags ==
  ASSUME TypeInv, NEW w \in Workers, NEW r \in DeferredRow(w)
  PROVE  r.status = "absent" \/ r.flags = worker[w].flags
  <1> DEFINE i == worker[w].task
             saved == [row[i] EXCEPT !.lease = 0, !.flags = worker[w].flags,
                                     !.failures = worker[w].failures]
  <1>1. row[i] \in Rows
    BY RowFacts
  <1>2. CASE worker[w].retry
    <2> PICK d \in 1..MaxDelay : r = [saved EXCEPT !.status = "retrying", !.notBefore = d]
      BY <1>2 DEF DeferredRow
    <2> QED BY <1>1 DEF Rows
  <1>3. CASE ~worker[w].retry /\ worker[w].keep
    <2>1. r = [saved EXCEPT !.status = "dead_letter", !.notBefore = 0]
      BY <1>3 DEF DeferredRow
    <2> QED BY <1>1, <2>1 DEF Rows
  <1>4. CASE ~worker[w].retry /\ ~worker[w].keep
    BY <1>4 DEF DeferredRow, NoRow
  <1> QED BY <1>2, <1>3, <1>4

\* The owner's operations other than an insertion and the save of its flags.
LEMMA OwnerDaily ==
  ASSUME TypeInv,
         \/ \E i \in Tasks : Cancel(i) \/ DeleteUserTask(i) \/ RetryFailed(i)
         \/ \E o \in Owners : DeleteWaiting(o)
         \/ \E i \in Tasks : \E delta \in {-1, 1} : ChangePriority(i, delta)
         \/ \E i, j \in Tasks : MoveWaiting(i, j)
         \/ PromoteDue
  PROVE  DailyStays /\ ScheduledStays
  <1> USE DEF TypeInv, TypeOK, DailyStays, ScheduledStays, Daily, Status
  <1>1. ASSUME NEW i \in Tasks, Cancel(i) PROVE DailyStays /\ ScheduledStays
    BY <1>1 DEF Cancel, Rows, NoRow, Open, Active, Waiting
  <1>2. ASSUME NEW i \in Tasks, DeleteUserTask(i) PROVE DailyStays /\ ScheduledStays
    BY <1>2 DEF DeleteUserTask, NoRow
  <1>3. ASSUME NEW i \in Tasks, RetryFailed(i) PROVE DailyStays /\ ScheduledStays
    BY <1>3 DEF RetryFailed, Rows
  <1>4. ASSUME NEW o \in Owners, DeleteWaiting(o) PROVE DailyStays /\ ScheduledStays
    BY <1>4 DEF DeleteWaiting, NoRow
  <1>5. ASSUME NEW i \in Tasks, NEW delta \in {-1, 1}, ChangePriority(i, delta)
        PROVE  DailyStays /\ ScheduledStays
    BY <1>5 DEF ChangePriority, Rows
  <1>6. ASSUME NEW i \in Tasks, NEW j \in Tasks, MoveWaiting(i, j)
        PROVE  DailyStays /\ ScheduledStays
    BY <1>6 DEF MoveWaiting, Rows
  <1>7. CASE PromoteDue
    BY <1>7 DEF PromoteDue, Rows
  <1> QED BY <1>1, <1>2, <1>3, <1>4, <1>5, <1>6, <1>7

LEMMA PoolDaily ==
  ASSUME TypeInv, QueueInv, NEW w \in Workers,
         Claim(w) \/ Execute(w) \/ Heartbeat(w) \/ HeartbeatDies(w)
  PROVE  DailyStays /\ ScheduledStays
  <1> USE DEF TypeInv, TypeOK, DailyStays, ScheduledStays, Daily, Status
  <1> DEFINE k == worker[w].task
  <1>1. /\ k \in Tasks /\ row[k] \in Rows /\ worker[w].ok \in BOOLEAN /\ worker[w].keep \in BOOLEAN
    BY DEF WorkerStates
  <1>2. \A i \in Tasks : Requeued[i].flags = row[i].flags
                         /\ (Requeued[i].status = row[i].status
                             \/ (Requeued[i].status = "queued" /\ Status(i) \in Active))
    BY DEF Requeued, Rows
  <1>3. ASSUME NEW i \in Tasks, ClaimNext(w, i) PROVE DailyStays /\ ScheduledStays
    <2>1. /\ \A j \in Tasks \ {i} : row'[j] = Requeued[j]
          /\ row'[i] = [Requeued[i] EXCEPT !.status = "leased", !.lease = LeaseTicks]
      BY <1>3, RequeuedType DEF ClaimNext
    <2>2. row'[i].flags = row[i].flags /\ row'[i].status = "leased"
      BY <1>2, <2>1, RequeuedType DEF Rows
    <2>3. Status(i) # "absent"
      BY <1>2, <1>3 DEF ClaimNext, Claimable, Waiting, Active
    <2>4. ASSUME NEW j \in Tasks \ {i}
          PROVE  /\ row'[j].flags = row[j].flags
                 /\ row'[j].status # row[j].status => row'[j].status = "queued" /\ Status(j) \in Active
      BY <1>2, <2>1, <2>4
    <2> QED BY <2>2, <2>3, <2>4 DEF Active
  <1>4. CASE ClaimNothing(w)
    BY <1>2, <1>4 DEF ClaimNothing, Active
  <1>5. CASE MarkRunning(w)
    BY <1>1, <1>5 DEF MarkRunning, Rows
  <1>6. CASE Heartbeat(w)
    BY <1>1, <1>6 DEF Heartbeat, Rows
  <1>7. CASE Begin(w)
    BY <1>1, <1>7 DEF Begin, Rows
  <1>8. CASE FinishWrite(w)
    <2>1. CASE UNCHANGED row
      BY <2>1
    <2>2. ASSUME ~Withdrawn(k), NEW r \in FinishedRow(k, worker[w].ok, worker[w].keep),
                 row' = [row EXCEPT ![k] = r]
          PROVE  DailyStays /\ ScheduledStays
      BY <1>1, <2>2, FinishedRowDaily DEF Withdrawn, QueueInv
    <2> QED BY <1>8, <2>1, <2>2 DEF FinishWrite
  <1>9. CASE DeferWrite(w)
    <2>1. CASE UNCHANGED row
      BY <2>1
    <2>2. ASSUME Status(k) \in Open, NEW r \in DeferredRow(w), row' = [row EXCEPT ![k] = r]
          PROVE  DailyStays /\ ScheduledStays
      <3>1. worker[w].pc = "deferring" /\ Status(k) # "absent"
        BY <1>9, <2>2 DEF DeferWrite, Open, Active, Waiting
      <3>2. "daily" \in worker[w].flags <=> Daily(k)
        BY <3>1 DEF QueueInv, CopyAgrees
      <3>3. r.status # "scheduled" /\ (r.status = "absent" \/ r.flags = worker[w].flags)
        BY DeferredRowStatus, DeferredRowFlags
      <3> QED BY <1>1, <2>2, <3>1, <3>2, <3>3
    <2> QED BY <1>9, <2>1, <2>2 DEF DeferWrite
  <1>10. CASE UNCHANGED row
    BY <1>10
  <1> QED BY <1>3, <1>4, <1>5, <1>6, <1>7, <1>8, <1>9, <1>10
          DEF Claim, Execute, HeartbeatDies, Abandon, RefuseAttachment, QuotaPaused, Reply,
              ProviderFails, TurnFails, FinishRead, DeferRead, Finalize, FinalizeRaises,
              Epilogue

LEMMA ClockDaily ==
  ASSUME TypeInv, Tick \/ CrashRestart \/ UNCHANGED core
  PROVE  DailyStays /\ ScheduledStays
  <1> USE DEF TypeInv, TypeOK, DailyStays, ScheduledStays, Daily, Status
  <1>1. CASE Tick
    BY <1>1 DEF Tick, Rows
  <1>2. CASE CrashRestart
    BY <1>2 DEF CrashRestart, Recovered, Rows, NoRow, Active
  <1> QED BY <1>1, <1>2 DEF core

\* A coroutine that does not move keeps agreeing with rows that stay as they are.
LEMMA CopyKept ==
  ASSUME TypeInv, NEW v \in Workers, CopyAgrees(v), worker'[v] = worker[v],
         next' = next, unsaved' \subseteq unsaved, DailyStays
  PROVE  CopyAgrees(v)'
  <1>1. worker[v].task \in Tasks
    BY RowFacts
  <1> QED BY <1>1 DEF CopyAgrees, DailyStays, Daily, KeepsRecord, Status

LEMMA IntakeAgrees ==
  ASSUME TypeInv, QueueInv, Intake
  PROVE  QueueInv'
  <1> USE DEF TypeInv, TypeOK
  <1>1. ASSUME NEW i \in Tasks, Enqueue(i) PROVE QueueInv'
    <2>1. /\ i = next /\ next' = next + 1 /\ worker' = worker
          /\ unsaved' \subseteq unsaved \cup {i}
          /\ \A j \in Tasks \ {i} : row'[j] = row[j]
      BY <1>1 DEF Enqueue
    <2>2. /\ row'[i].flags = {} /\ row'[i].status \in {"queued", "scheduled"}
          /\ row'[i].status = "scheduled" => KindOf[i] = "recurring"
      BY <1>1 DEF Enqueue, NoRow
    <2>3. FreshIds'
      <3>1. next \in Int /\ Tasks \subseteq Int
        BY TasksFinite DEF TypeInv, TypeOK
      <3>2. ASSUME NEW j \in Tasks, j >= next' PROVE row'[j].status = "absent"
        <4>1. j # i /\ j >= next
          BY <2>1, <3>1, <3>2
        <4> QED BY <2>1, <4>1 DEF QueueInv, FreshIds, Status
      <3> QED BY <3>2 DEF FreshIds, Status
    <2>4. RowsAsked'
      BY <2>1, <2>2 DEF QueueInv, RowsAsked, Daily, Status
    <2>5. ASSUME NEW v \in Workers PROVE CopyAgrees(v)'
      <3>1. CASE worker[v].pc = "idle"
        BY <2>1, <3>1 DEF CopyAgrees
      <3>2. CASE worker[v].pc # "idle"
        <4>1. worker[v].task < next /\ worker[v].task \in Tasks /\ worker[v].task # i
          BY <2>1, <3>2, RowFacts, TasksFinite DEF QueueInv, CopyAgrees
        <4>2. worker[v].task < next'
          <5>1. worker[v].task \in Int /\ i \in Int
            BY <4>1, TasksFinite
          <5> QED BY <2>1, <4>1, <5>1
        <4>3. row'[worker[v].task] = row[worker[v].task]
          BY <2>1, <4>1
        <4> QED BY <2>1, <4>1, <4>2, <4>3 DEF QueueInv, CopyAgrees, Daily, KeepsRecord, Status
      <3> QED BY <3>1, <3>2
    <2> QED BY <2>3, <2>4, <2>5 DEF QueueInv
  <1>2. ASSUME NEW i \in Tasks, SaveDispatchFlags(i) PROVE QueueInv'
    <2>1. /\ i \in unsaved /\ unsaved' \subseteq unsaved /\ next' = next /\ worker' = worker
          /\ \A j \in Tasks \ {i} : row'[j] = row[j]
      BY <1>2 DEF SaveDispatchFlags
    <2>2. row'[i].status = row[i].status /\ row'[i].flags \in {Asked[i], row[i].flags}
      BY <1>2 DEF SaveDispatchFlags, Rows
    <2>3. FreshIds'
      BY <2>1, <2>2 DEF QueueInv, FreshIds, Status
    <2>4. RowsAsked'
      BY <2>1, <2>2 DEF QueueInv, RowsAsked, Daily, Status
    <2>5. ASSUME NEW v \in Workers PROVE CopyAgrees(v)'
      <3>1. CASE worker[v].pc \in {"idle", "claimed"}
        BY <2>1, <3>1 DEF QueueInv, CopyAgrees
      <3>2. CASE worker[v].pc \notin {"idle", "claimed"}
        <4>1. worker[v].task \in Tasks /\ worker[v].task # i
          BY <2>1, <3>2, RowFacts DEF QueueInv, CopyAgrees
        <4> QED BY <2>1, <4>1 DEF QueueInv, CopyAgrees, Daily, KeepsRecord, Status
      <3> QED BY <3>1, <3>2
    <2> QED BY <2>3, <2>4, <2>5 DEF QueueInv
  <1> QED BY <1>1, <1>2 DEF Intake

\* What a step leaves of the rows' side of the invariant.
LEMMA RowsAgree ==
  ASSUME TypeInv, QueueInv, next' = next, DailyStays, ScheduledStays
  PROVE  FreshIds' /\ RowsAsked'
  BY DEF QueueInv, FreshIds, RowsAsked, DailyStays, ScheduledStays, Daily, Status

\* A coroutine that moves within its task, copying no flags.
LEMMA MoveAgrees ==
  ASSUME TypeInv, NEW w \in Workers, CopyAgrees(w), next' = next, unsaved' = unsaved, DailyStays,
         worker[w].pc # "idle", worker[w].pc # "claimed",
         worker'[w].pc # "idle" => worker'[w].task = worker[w].task,
         worker'[w].pc \notin {"finishing", "deferring"},
         worker'[w].pc \in {"working", "defer"} =>
           worker[w].pc \in {"working", "defer", "deferring"} /\ worker'[w].flags = worker[w].flags
  PROVE  CopyAgrees(w)'
  <1>1. worker[w].task \in Tasks
    BY RowFacts
  <1> QED BY <1>1 DEF CopyAgrees, DailyStays, Daily, Status

\* The snapshot of finish and retry_or_dead_letter.
LEMMA ReadAgrees ==
  ASSUME TypeInv, NEW w \in Workers, CopyAgrees(w), UNCHANGED <<next, row, unsaved>>,
         worker[w].pc \in {"finish", "defer"},
         worker'[w].task = worker[w].task, worker'[w].flags = worker[w].flags,
         worker'[w].keep = KeepsRecord(worker[w].task),
         worker'[w].pc = IF worker[w].pc = "finish" THEN "finishing" ELSE "deferring"
  PROVE  CopyAgrees(w)'
  <1>1. KeepsRecord(worker[w].task)' <=> KeepsRecord(worker[w].task)
    BY DEF KeepsRecord
  <1> QED BY <1>1 DEF CopyAgrees, Daily, Status

\* What the calls shared by several steps of execute leave of its task.
LEMMA InvokeMoves ==
  ASSUME TypeInv, NEW w \in Workers, NEW label \in PCs, NEW from, NEW success, NEW canRetry,
         Invoke(w, label, from, success, canRetry)
  PROVE  /\ worker'[w].pc = label /\ worker'[w].task = worker[w].task
         /\ worker'[w].flags = worker[w].flags
  BY DEF TypeInv, TypeOK, Invoke, WorkerStates

LEMMA LeaveMoves ==
  ASSUME TypeInv, NEW w \in Workers, LeaveTurn(w)
  PROVE  worker'[w].pc = "tail" /\ worker'[w].task = worker[w].task
  BY DEF TypeInv, TypeOK, LeaveTurn, Idle

LEMMA FinishedMoves ==
  ASSUME TypeInv, NEW w \in Workers, Finished(w)
  PROVE  \/ worker'[w].pc = "idle"
         \/ worker'[w].pc = "finalizing" /\ worker'[w].task = worker[w].task
  <1>1. worker[w] \in WorkerStates /\ worker \in [Workers -> WorkerStates]
    BY DEF TypeInv, TypeOK
  <1>2. CASE worker[w].site = "epilogue"
    BY <1>1, <1>2 DEF Finished, Idle
  <1>3. CASE worker[w].site # "epilogue"
    <2>1. worker'[w] = [worker[w] EXCEPT !.pc = "finalizing"]
      BY <1>1, <1>3 DEF Finished
    <2> QED BY <1>1, <2>1 DEF WorkerStates
  <1> QED BY <1>2, <1>3

LEMMA NotDeferredMoves ==
  ASSUME TypeInv, NEW w \in Workers, worker[w].pc \in {"defer", "deferring"}, NotDeferred(w)
  PROVE  /\ worker'[w].pc \in {"working", "finish"} /\ worker'[w].task = worker[w].task
         /\ worker'[w].flags = worker[w].flags
  <1>1. worker[w] \in WorkerStates /\ worker \in [Workers -> WorkerStates]
    BY DEF TypeInv, TypeOK
  <1>2. CASE worker[w].site = "quota"
    <2>1. worker'[w] = [worker[w] EXCEPT !.pc = "working"]
      BY <1>1, <1>2 DEF NotDeferred
    <2> QED BY <1>1, <2>1 DEF WorkerStates
  <1>3. CASE worker[w].site = "daily"
    <2>1. Invoke(w, "finish", "turn", TRUE, FALSE)
      BY <1>3 DEF NotDeferred
    <2> QED BY <2>1, InvokeMoves DEF PCs
  <1>4. CASE worker[w].site = "provider"
    <2>1. Invoke(w, "finish", "handler", FALSE, FALSE)
      BY <1>4 DEF NotDeferred
    <2> QED BY <2>1, InvokeMoves DEF PCs
  <1> QED BY <1>2, <1>3, <1>4 DEF TypeInv, DeferSites

LEMMA ClaimAgrees ==
  ASSUME TypeInv, QueueInv, NEW w \in Workers, Claim(w), DailyStays
  PROVE  CopyAgrees(w)'
  <1> USE DEF TypeInv, TypeOK, Status
  <1>1. ASSUME NEW i \in Tasks, ClaimNext(w, i) PROVE CopyAgrees(w)'
    <2>1. Status(i) # "absent"
      <3>1. Requeued[i].status \in Waiting /\ (Requeued[i].status = row[i].status \/ Status(i) \in Active)
        BY <1>1 DEF ClaimNext, Claimable, Requeued
      <3> QED BY <3>1 DEF Waiting, Active
    <2>2. i < next
      BY <2>1, TasksFinite DEF QueueInv, FreshIds
    <2>3. worker'[w].pc = "claimed" /\ worker'[w].task = i /\ next' = next
      BY <1>1 DEF ClaimNext, WorkerStates
    <2> QED BY <2>2, <2>3 DEF CopyAgrees
  <1>2. CASE ClaimNothing(w)
    BY <1>2, CopyKept DEF ClaimNothing, QueueInv
  <1> QED BY <1>1, <1>2 DEF Claim

LEMMA ExecuteAgrees ==
  ASSUME TypeInv, QueueInv, NEW w \in Workers, Execute(w), DailyStays
  PROVE  CopyAgrees(w)'
  <1> DEFINE W == worker[w]
             i == W.task
  <1>1. /\ W \in WorkerStates /\ CopyAgrees(w) /\ i \in Tasks /\ row[i] \in Rows
        /\ worker \in [Workers -> WorkerStates]
    BY RowFacts DEF QueueInv, TypeInv, TypeOK
  <1>2. CASE MarkRunning(w)
    <2>1. CASE Status(i) = "leased"
      <3>1. /\ worker'[w].pc = "starting" /\ worker'[w].task = i
            /\ next' = next /\ unsaved' = unsaved /\ W.pc = "claimed" /\ i \notin unsaved
        BY <1>1, <1>2, <2>1 DEF MarkRunning, WorkerStates
      <3> QED BY <1>1, <3>1 DEF CopyAgrees
    <2>2. CASE Status(i) # "leased"
      BY <1>1, <1>2, <2>2 DEF MarkRunning, Idle, CopyAgrees
    <2> QED BY <2>1, <2>2
  <1>3. CASE Begin(w)
    <2>1. /\ worker'[w].pc = "working" /\ worker'[w].task = i
          /\ worker'[w].flags = row[i].flags \cup {"session"}
          /\ next' = next /\ unsaved' = unsaved /\ W.pc = "starting"
      BY <1>1, <1>3 DEF Begin, WorkerStates
    <2>2. row'[i].flags \in {row[i].flags, row[i].flags \cup {"session"}}
      BY <1>1, <1>3 DEF Begin, Rows, TypeInv, TypeOK
    <2> QED BY <1>1, <2>1, <2>2 DEF CopyAgrees, Daily
  <1> DEFINE Moved(S) ==
        /\ W.pc \in S /\ (worker'[w].pc # "idle" => worker'[w].task = i)
        /\ worker'[w].pc \notin {"finishing", "deferring"}
        /\ worker'[w].pc \in {"working", "defer"} =>
             W.pc \in {"working", "defer", "deferring"} /\ worker'[w].flags = W.flags
        /\ next' = next /\ unsaved' = unsaved
  <1>4. ASSUME NEW S \in SUBSET PCs, "idle" \notin S, "claimed" \notin S, Moved(S)
        PROVE  CopyAgrees(w)'
    BY <1>1, <1>4, MoveAgrees
  <1> HIDE DEF Moved
  <1>5. CASE Abandon(w)
    <2>1. Moved({"starting", "working"})
      BY <1>5, LeaveMoves DEF Abandon, Moved
    <2> QED BY <1>4, <2>1 DEF PCs
  <1>6. CASE RefuseAttachment(w)
    <2>1. Moved({"starting"})
      <3>1. Invoke(w, "finish", "handler", FALSE, FALSE) /\ "finish" \in PCs
        BY <1>6 DEF RefuseAttachment, PCs
      <3> QED BY <1>6, <3>1, InvokeMoves DEF RefuseAttachment, Moved
    <2> QED BY <1>4, <2>1 DEF PCs
  <1>7. CASE QuotaPaused(w) \/ Reply(w) \/ TurnFails(w)
    <2>1. Moved({"working"})
      <3>1. W.pc = "working" /\ UNCHANGED <<next, row, unsaved, crashes>>
        BY <1>7 DEF QuotaPaused, Reply, TurnFails
      <3>2. PICK label \in {"finish", "defer"}, from \in Sites, success \in BOOLEAN, again \in BOOLEAN :
              Invoke(w, label, from, success, again)
        BY <1>7 DEF QuotaPaused, Reply, TurnFails, Sites
      <3> QED BY <3>1, <3>2, InvokeMoves DEF Moved, PCs
    <2> QED BY <1>4, <2>1 DEF PCs
  <1>8. CASE ProviderFails(w)
    <2>1. Moved({"working"})
      BY <1>1, <1>8 DEF ProviderFails, WorkerStates, Moved
    <2> QED BY <1>4, <2>1 DEF PCs
  <1>9. CASE FinishRead(w)
    <2>1. CASE Withdrawn(i)
      <3>1. Moved({"finish"})
        BY <1>9, <2>1, FinishedMoves DEF FinishRead, Moved
      <3> QED BY <1>4, <3>1 DEF PCs
    <2>2. CASE ~Withdrawn(i)
      <3>1. /\ W.pc = "finish" /\ UNCHANGED <<next, row, unsaved>>
            /\ worker'[w] = [W EXCEPT !.pc = "finishing", !.keep = KeepsRecord(i)]
        BY <1>1, <1>9, <2>2 DEF FinishRead
      <3>2. /\ worker'[w].task = i /\ worker'[w].flags = W.flags
            /\ worker'[w].keep = KeepsRecord(i) /\ worker'[w].pc = "finishing"
        BY <1>1, <3>1 DEF WorkerStates
      <3> QED BY <1>1, <3>1, <3>2, ReadAgrees
    <2> QED BY <2>1, <2>2
  <1>10. CASE FinishWrite(w)
    <2>1. Moved({"finishing"})
      BY <1>10, FinishedMoves DEF FinishWrite, Moved
    <2> QED BY <1>4, <2>1 DEF PCs
  <1>11. CASE DeferRead(w)
    <2>1. CASE Withdrawn(i)
      <3>1. Moved({"defer"})
        BY <1>11, <2>1, NotDeferredMoves DEF DeferRead, Moved
      <3> QED BY <1>4, <3>1 DEF PCs
    <2>2. CASE ~Withdrawn(i)
      <3>1. /\ W.pc = "defer" /\ UNCHANGED <<next, row, unsaved>>
            /\ worker'[w] = [W EXCEPT !.pc = "deferring", !.keep = KeepsRecord(i)]
        BY <1>1, <1>11, <2>2 DEF DeferRead
      <3>2. /\ worker'[w].task = i /\ worker'[w].flags = W.flags
            /\ worker'[w].keep = KeepsRecord(i) /\ worker'[w].pc = "deferring"
        BY <1>1, <3>1 DEF WorkerStates
      <3> QED BY <1>1, <3>1, <3>2, ReadAgrees
    <2> QED BY <2>1, <2>2
  <1>12. CASE DeferWrite(w)
    <2>1. Moved({"deferring"})
      <3>1. W.pc = "deferring" /\ UNCHANGED <<next, unsaved>>
        BY <1>12 DEF DeferWrite
      <3>2. \/ NotDeferred(w) \/ LeaveTurn(w)
            \/ worker'[w] = [W EXCEPT !.pc = "finalizing"]
        BY <1>1, <1>12 DEF DeferWrite
      <3>3. [W EXCEPT !.pc = "finalizing"].pc = "finalizing" /\ [W EXCEPT !.pc = "finalizing"].task = i
        BY <1>1 DEF WorkerStates
      <3> QED BY <3>1, <3>2, <3>3, NotDeferredMoves, LeaveMoves DEF Moved
    <2> QED BY <1>4, <2>1 DEF PCs
  <1>13. CASE Finalize(w) \/ FinalizeRaises(w)
    <2>1. Moved({"finalizing"})
      <3>1. /\ W.pc = "finalizing" /\ UNCHANGED <<next, row, unsaved, crashes>>
            /\ LeaveTurn(w) \/ Invoke(w, "finish", "handler", FALSE, FALSE)
        BY <1>13 DEF Finalize, FinalizeRaises
      <3> QED BY <3>1, LeaveMoves, InvokeMoves DEF Moved, PCs
    <2> QED BY <1>4, <2>1 DEF PCs
  <1>14. CASE Epilogue(w)
    <2>1. CASE Status(i) = "running"
      <3>1. Moved({"tail"})
        <4>1. PICK success \in BOOLEAN : Invoke(w, "finish", "epilogue", success, FALSE)
          BY <1>14, <2>1 DEF Epilogue
        <4> QED BY <1>14, <4>1, InvokeMoves DEF Epilogue, Moved, PCs
      <3> QED BY <1>4, <3>1 DEF PCs
    <2>2. CASE Status(i) # "running"
      BY <1>1, <1>14, <2>2 DEF Epilogue, Idle, CopyAgrees
    <2> QED BY <2>1, <2>2
  <1> QED BY <1>2, <1>3, <1>5, <1>6, <1>7, <1>8, <1>9, <1>10, <1>11, <1>12, <1>13, <1>14
          DEF Execute

LEMMA InitAgrees == Init => QueueInv
  BY DEF Init, QueueInv, FreshIds, RowsAsked, CopyAgrees, Status, Daily, NoRow, Idle

LEMMA QuietDaily ==
  ASSUME TypeInv, QueueInv, [Next]_vars
  PROVE  Intake \/ (DailyStays /\ ScheduledStays /\ next' = next)
  <1>1. CASE OwnerActs \/ PromoteDue
    BY <1>1, OwnerDaily
    DEF OwnerActs, QueueCommand, PromoteDue, Cancel, DeleteUserTask, RetryFailed, DeleteWaiting, ChangePriority,
        MoveWaiting
  <1>2. ASSUME NEW w \in Workers, Claim(w) \/ Execute(w) \/ Heartbeat(w) \/ HeartbeatDies(w)
        PROVE  DailyStays /\ ScheduledStays /\ next' = next
    <2>1. next' = next
      BY <1>2 DEF Claim, ClaimNext, ClaimNothing, Execute, MarkRunning, Begin, Abandon,
                  RefuseAttachment, QuotaPaused, Reply, ProviderFails, TurnFails, FinishRead,
                  FinishWrite, DeferRead, DeferWrite, Finalize, FinalizeRaises, Epilogue,
                  Heartbeat, HeartbeatDies
    <2> QED BY <1>2, <2>1, PoolDaily
  <1>3. CASE Tick \/ CrashRestart \/ UNCHANGED core
    BY <1>3, ClockDaily DEF Tick, CrashRestart, core
  <1> QED BY <1>1, <1>2, <1>3, NextSteps DEF Drained, core, vars

LEMMA StepAgrees == TypeInv /\ QueueInv /\ [Next]_vars => QueueInv'
  <1> SUFFICES ASSUME TypeInv, QueueInv, [Next]_vars PROVE QueueInv'
    OBVIOUS
  <1>1. CASE Intake
    BY <1>1, IntakeAgrees
  <1>2. CASE ~Intake
    <2>1. DailyStays /\ ScheduledStays /\ next' = next
      BY <1>2, QuietDaily
    <2>2. FreshIds' /\ RowsAsked'
      BY <2>1, RowsAgree
    <2>3. ASSUME UNCHANGED worker, unsaved' \subseteq unsaved PROVE \A v \in Workers : CopyAgrees(v)'
      BY <2>1, <2>3, CopyKept DEF QueueInv
    <2>4. CASE OwnerActs \/ PromoteDue \/ Tick \/ Drained \/ UNCHANGED core
      <3>1. UNCHANGED <<worker, unsaved>>
        BY <2>4 DEF OwnerActs, QueueCommand, PromoteDue, Cancel, DeleteUserTask, RetryFailed, DeleteWaiting,
                    ChangePriority, MoveWaiting, Tick, Drained, core
      <3> QED BY <2>2, <2>3, <3>1 DEF QueueInv
    <2>5. ASSUME NEW w \in Workers, Claim(w) \/ Execute(w) \/ Heartbeat(w) \/ HeartbeatDies(w)
          PROVE  QueueInv'
      <3>1. /\ unsaved' = unsaved
            /\ \A v \in Workers \ {w} : worker'[v] = worker[v]
        <4>1. CASE Claim(w) \/ Heartbeat(w) \/ HeartbeatDies(w)
          BY <4>1 DEF Claim, ClaimNext, ClaimNothing, Heartbeat, HeartbeatDies, TypeInv, TypeOK
        <4>2. CASE Execute(w)
          BY <4>2 DEF Execute, MarkRunning, Begin, Abandon, RefuseAttachment, QuotaPaused, Reply,
                  ProviderFails, TurnFails, FinishRead, FinishWrite, DeferRead, DeferWrite,
                  Finalize, FinalizeRaises, Epilogue, Invoke, LeaveTurn, Finished, NotDeferred,
                  TypeInv, TypeOK, DeferSites
        <4> QED BY <2>5, <4>1, <4>2
      <3>2. ASSUME NEW v \in Workers \ {w} PROVE CopyAgrees(v)'
        BY <2>1, <3>1, <3>2, CopyKept DEF QueueInv
      <3>3. CopyAgrees(w)'
        <4>1. CASE Heartbeat(w) \/ HeartbeatDies(w)
          <5>1. worker'[w] = worker[w] \/ worker'[w] = [worker[w] EXCEPT !.beats = FALSE]
            BY <4>1 DEF Heartbeat, HeartbeatDies, TypeInv, TypeOK
          <5>2. /\ worker'[w].pc = worker[w].pc /\ worker'[w].task = worker[w].task
                /\ worker'[w].flags = worker[w].flags /\ worker'[w].keep = worker[w].keep
            BY <5>1, RowFacts DEF WorkerStates
          <5>3. worker[w].task \in Tasks /\ CopyAgrees(w)
            BY RowFacts DEF QueueInv
          <5> QED BY <2>1, <3>1, <5>2, <5>3 DEF CopyAgrees, DailyStays, Daily, KeepsRecord, Status
        <4> QED BY <2>1, <2>5, <4>1, ClaimAgrees, ExecuteAgrees
      <3> QED BY <2>2, <3>2, <3>3 DEF QueueInv
    <2>6. CASE CrashRestart
      <3>1. \A v \in Workers : worker'[v].pc = "idle"
        BY <2>6 DEF CrashRestart, Idle
      <3> QED BY <2>2, <3>1 DEF QueueInv, CopyAgrees
    <2> QED BY <1>2, <2>4, <2>5, <2>6, NextSteps DEF core, vars
  <1> QED BY <1>1, <1>2

\* The copies and snapshots of what is recorded agree with the rows, always.
LEMMA AgreementHolds == Spec => []QueueInv
  <1> QED BY InitAgrees, StepAgrees, TypesHold, PTL DEF Spec

-----------------------------------------------------------------------------
(* The mapping.                                                             *)

LEMMA StageNames ==
  /\ \A s \in Active : StageNamed[s] = "working"
  /\ \A s \in Waiting : StageNamed[s] = "waiting"
  /\ StageNamed["dead_letter"] = "failed"
  /\ \A s \in {"scheduled", "completed", "failed", "cancelled"} : StageNamed[s] = s
  BY DEF StageNamed, Statuses, Open, Active, Waiting, Recorded

\* What a row's status says of its stage.
LEMMA StageFacts ==
  ASSUME TypeInv, NEW i \in Tasks
  PROVE  /\ Stage[i] = StageOf(i)
         /\ Stage[i] = "working" <=> Status(i) \in Active
         /\ Stage[i] = "waiting" <=> Status(i) \in Waiting
         /\ Stage[i] = "failed" <=> Status(i) \in {"failed", "dead_letter"}
         /\ \A s \in {"scheduled", "completed", "cancelled"} : Stage[i] = s <=> Status(i) = s
         /\ Stage[i] \in {"none", "gone"} <=> Status(i) = "absent"
         /\ Status(i) = "absent" => Stage[i] = IF i < next THEN "gone" ELSE "none"
         /\ Stage[i] \in Queue!Stages
  <1>1. Stage[i] = StageOf(i)
    BY DEF Stage
  <1>2. Status(i) \in Active \cup Waiting \cup
          {"dead_letter", "scheduled", "completed", "failed", "cancelled", "absent"}
    BY RowFacts DEF Statuses, Open, Recorded
  <1> QED BY <1>1, <1>2, StageNames DEF StageOf, Active, Waiting, Queue!Stages

\* A step after which each row's stage and record are what they were.
LEMMA Unseen ==
  ASSUME TypeInv, TypeInv', next' = next, DailyStays,
         \A i \in Tasks : \/ row'[i].status = row[i].status
                          \/ row'[i].status \in Active /\ row[i].status \in Active
  PROVE  UNCHANGED Queue!vars
  <1>1. ASSUME NEW i \in Tasks PROVE StageOf(i)' = StageOf(i)
    <2>1. CASE row'[i].status = row[i].status
      BY <2>1 DEF StageOf, Status
    <2>2. CASE row'[i].status \in Active /\ row[i].status \in Active
      BY <2>2, StageNames DEF StageOf, Status, Active
    <2> QED BY <2>1, <2>2
  <1>2. Stage' = Stage
    BY <1>1 DEF Stage
  <1>3. KeptRows' = KeptRows
    BY DEF KeptRows, DailyStays, Daily, KeepsRecord, Status, Active
  <1> QED BY <1>2, <1>3 DEF Queue!vars

\* What is kept after a step that marks nothing.
LEMMA Forgotten ==
  ASSUME TypeInv, TypeInv', DailyStays
  PROVE  /\ Queue!Forget
         /\ (\A i \in Tasks : Status(i) # "absent" => row'[i].status # "absent") => KeptRows' = KeptRows
  <1>1. ASSUME NEW i \in Tasks
        PROVE  Stage'[i] \in {"none", "gone"} <=> row'[i].status = "absent"
    <2>1. Stage' = [j \in Tasks |-> StageOf(j)']
      BY DEF Stage
    <2>2. row'[i].status \in Statuses
      BY DEF TypeInv, TypeOK, Rows
    <2>3. StageOf(i)' \in {"none", "gone"} <=> row'[i].status = "absent"
      BY <2>2, StageNames DEF StageOf, Status, Statuses, Open, Active, Waiting, Recorded
    <2> QED BY <2>1, <2>3
  <1>2. KeptRows' = {i \in KeptRows : row'[i].status # "absent"}
    BY DEF KeptRows, DailyStays, Daily, KeepsRecord, Status
  <1> QED BY <1>1, <1>2 DEF Queue!Forget, Queue!Listed, KeptRows

\* The stages after a step, row by row.
LEMMA StageAfter ==
  ASSUME TypeInv', NEW i \in Tasks
  PROVE  /\ row'[i].status \in Active => Stage'[i] = "working"
         /\ row'[i].status \in Waiting => Stage'[i] = "waiting"
         /\ row'[i].status \in {"failed", "dead_letter"} => Stage'[i] = "failed"
         /\ \A s \in {"scheduled", "completed", "cancelled"} : row'[i].status = s => Stage'[i] = s
         /\ row'[i].status = "absent" => Stage'[i] = IF i < next' THEN "gone" ELSE "none"
  <1>1. Stage'[i] = StageOf(i)'
    BY DEF Stage
  <1> QED BY <1>1, StageNames DEF StageOf, Status, Active, Waiting

LEMMA StageKept ==
  ASSUME NEW i \in Tasks, row'[i].status = row[i].status, next' = next
  PROVE  Stage'[i] = Stage[i]
  BY DEF Stage, StageOf, Status

LEMMA StageFunctions ==
  /\ Stage = [i \in Tasks |-> Stage[i]]
  /\ Stage' = [i \in Tasks |-> Stage'[i]]
  BY DEF Stage

-----------------------------------------------------------------------------
(* Every step of the pool is one of the queue's, or none.                   *)

LEMMA IntakeMaps ==
  ASSUME TypeInv, TypeInv', QueueInv, Intake
  PROVE  [Queue!Next]_(Queue!vars)
  <1>1. ASSUME NEW i \in Tasks, Enqueue(i) PROVE Queue!Submit(i)
    <2>1. /\ i = next /\ next' = next + 1 /\ next \in Int
          /\ \A j \in Tasks \ {i} : row'[j] = row[j]
      BY <1>1, TasksFinite DEF Enqueue
    <2>2. /\ row'[i].status = IF i \in Recurring THEN "scheduled" ELSE "queued"
          /\ row'[i].flags = {}
      BY <1>1 DEF Enqueue, NoRow, Recurring, TypeInv, TypeOK
    <2>3. Status(i) = "absent"
      BY <2>1, TasksFinite DEF QueueInv, FreshIds
    <2>4. Stage[i] = "none"
      BY <2>1, <2>3, StageFacts
    <2>5. Stage'[i] = IF i \in Recurring THEN "scheduled" ELSE "waiting"
      BY <2>2, StageAfter DEF Waiting
    <2>6. ASSUME NEW j \in Tasks \ {i} PROVE Stage'[j] = Stage[j]
      <3>1. row'[j] = row[j] /\ j \in Int /\ j # next
        BY <2>1, TasksFinite
      <3>2. j < next' <=> j < next
        BY <2>1, <3>1
      <3> QED BY <3>1, <3>2 DEF Stage, StageOf, Status
    <2>7. Stage' = [Stage EXCEPT ![i] = IF i \in Recurring THEN "scheduled" ELSE "waiting"]
      BY <2>5, <2>6, StageFunctions
    <2>8. KeptRows' = IF KindOf[i] # "plain" THEN KeptRows \cup {i} ELSE KeptRows
      BY <2>1, <2>2, <2>3 DEF KeptRows, KeepsRecord, Status
    <2>9. i \in Recurring => KindOf[i] # "plain"
      BY DEF Recurring
    <2> QED BY <2>4, <2>7, <2>8, <2>9 DEF Queue!Submit
  <1>2. ASSUME NEW i \in Tasks, SaveDispatchFlags(i) PROVE Queue!Keep(i) \/ UNCHANGED Queue!vars
    <2>1. next' = next /\ \A j \in Tasks \ {i} : row'[j] = row[j]
      BY <1>2 DEF SaveDispatchFlags, TypeInv, TypeOK
    <2>2. /\ row'[i].status = row[i].status
          /\ row'[i] = row[i] \/ (row'[i].flags = Asked[i] /\ Status(i) \in Open)
      BY <1>2 DEF SaveDispatchFlags, Rows, TypeInv, TypeOK
    <2>3. \A j \in Tasks : Stage'[j] = Stage[j]
      BY <2>1, <2>2, StageKept
    <2>4. Stage' = Stage
      BY <2>3, StageFunctions
    <2>5. \A j \in Tasks \ {i} : j \in KeptRows' <=> j \in KeptRows
      BY <2>1 DEF KeptRows, KeepsRecord, Status
    <2>6. i \in KeptRows => i \in KeptRows'
      BY <2>2 DEF KeptRows, KeepsRecord, Status, QueueInv, RowsAsked, Daily
    <2>7. i \in KeptRows' /\ i \notin KeptRows => Stage[i] \in {"waiting", "working"}
      BY <2>2, StageFacts DEF KeptRows, KeepsRecord, Status, Open
    <2>8. KeptRows \subseteq Tasks /\ KeptRows' \subseteq Tasks
      BY DEF KeptRows
    <2> QED BY <2>4, <2>5, <2>6, <2>7, <2>8 DEF Queue!Keep, Queue!vars
  <1> QED BY <1>1, <1>2 DEF Intake, Queue!Next, Queue!OwnerActs

LEMMA OwnerMaps ==
  ASSUME TypeInv, TypeInv', QueueInv, OwnerActs \/ PromoteDue
  PROVE  [Queue!Next]_(Queue!vars)
  <1>1. DailyStays
    BY OwnerDaily DEF OwnerActs, QueueCommand
  <1>2. next' = next
    BY DEF OwnerActs, QueueCommand, PromoteDue, Cancel, DeleteUserTask, RetryFailed, DeleteWaiting,
           ChangePriority, MoveWaiting
  <1>3. \A i \in Tasks : Status(i) # "absent" => i < next
    BY TasksFinite DEF QueueInv, FreshIds, TypeInv, TypeOK
  <1> USE DEF TypeInv, TypeOK
  <1>4. ASSUME NEW i \in Tasks, Cancel(i) PROVE Queue!Cancel(i)
    <2>1. /\ Status(i) \in Open \cup {"scheduled"}
          /\ \A j \in Tasks \ {i} : row'[j] = row[j]
          /\ row'[i].status = IF KeepsRecord(i) THEN "cancelled" ELSE "absent"
      BY <1>4 DEF Cancel, Rows, NoRow
    <2>2. Status(i) # "absent" /\ (i \in KeptRows <=> KeepsRecord(i))
      BY <2>1 DEF Open, Active, Waiting, KeptRows
    <2>3. Stage[i] \in {"scheduled", "waiting", "working"}
      BY <2>1, StageFacts DEF Open
    <2>4. Stage'[i] = IF i \in KeptRows THEN "cancelled" ELSE "gone"
      BY <1>2, <1>3, <2>1, <2>2, StageAfter
    <2>5. \A j \in Tasks \ {i} : Stage'[j] = Stage[j]
      BY <1>2, <2>1, StageKept
    <2>6. Stage' = [Stage EXCEPT ![i] = IF i \in KeptRows THEN "cancelled" ELSE "gone"]
      BY <2>4, <2>5, StageFunctions
    <2> QED BY <1>1, <2>3, <2>6, Forgotten DEF Queue!Cancel
  <1>5. ASSUME NEW i \in Tasks, DeleteUserTask(i) PROVE Queue!Remove(OwnerOf[i])
    <2>1. /\ Status(i) \in Waiting \cup {"scheduled", "cancelled", "completed", "failed"}
          /\ \A j \in Tasks \ {i} : row'[j] = row[j]
          /\ row'[i].status = "absent"
      BY <1>5 DEF DeleteUserTask, NoRow
    <2>2. Stage[i] # "working" /\ Stage[i] # "none" /\ Stage'[i] = "gone"
      <3>1. Status(i) \notin Active \cup {"absent"}
        BY <2>1 DEF Waiting, Active
      <3> QED BY <1>2, <1>3, <2>1, <3>1, StageFacts, StageAfter
    <2>3. \A j \in Tasks \ {i} : Stage'[j] = Stage[j]
      BY <1>2, <2>1, StageKept
    <2>4. Stage' = [j \in Tasks |-> IF j \in {i} /\ Stage[j] # "none" THEN "gone" ELSE Stage[j]]
      BY <2>2, <2>3, StageFunctions
    <2> QED BY <1>1, <2>2, <2>4, Forgotten DEF Queue!Remove
  <1>6. ASSUME NEW o \in Owners, DeleteWaiting(o) PROVE Queue!Remove(o)
    <2> DEFINE S == {i \in Tasks : OwnerOf[i] = o /\ Status(i) \in Waiting}
    <2>1. /\ \A j \in Tasks \ S : row'[j] = row[j]
          /\ \A j \in S : row'[j].status = "absent"
      BY <1>6 DEF DeleteWaiting, NoRow
    <2>2. ASSUME NEW j \in S
          PROVE  Stage[j] # "working" /\ Stage[j] # "none" /\ Stage'[j] = "gone"
      <3>1. Status(j) \notin Active \cup {"absent"}
        BY DEF Waiting, Active
      <3> QED BY <1>2, <1>3, <2>1, <3>1, StageFacts, StageAfter
    <2>3. \A j \in Tasks \ S : Stage'[j] = Stage[j]
      BY <1>2, <2>1, StageKept
    <2>4. Stage' = [j \in Tasks |-> IF j \in S /\ Stage[j] # "none" THEN "gone" ELSE Stage[j]]
      BY <2>2, <2>3, StageFunctions
    <2>5. S \in SUBSET {i \in Tasks : OwnerOf[i] = o /\ Stage[i] # "working"}
      BY <2>2
    <2> HIDE DEF S
    <2> QED BY <1>1, <2>4, <2>5, Forgotten DEF Queue!Remove
  <1>7. ASSUME NEW i \in Tasks, RetryFailed(i) PROVE Queue!Again(i)
    <2>1. /\ Status(i) \in {"failed", "dead_letter"}
          /\ \A j \in Tasks \ {i} : row'[j] = row[j]
          /\ row'[i].status = "queued"
      BY <1>7 DEF RetryFailed, Rows
    <2>2. Stage[i] = "failed" /\ Stage'[i] = "waiting"
      BY <2>1, StageFacts, StageAfter DEF Waiting
    <2>3. \A j \in Tasks \ {i} : Stage'[j] = Stage[j]
      BY <1>2, <2>1, StageKept
    <2>4. Stage' = [Stage EXCEPT ![i] = "waiting"]
      BY <2>2, <2>3, StageFunctions
    <2>5. KeptRows' = KeptRows
      BY <1>1, <2>1, Forgotten DEF Status
    <2> QED BY <2>2, <2>4, <2>5 DEF Queue!Again
  <1>8. ASSUME NEW i \in Tasks, NEW delta \in {-1, 1}, ChangePriority(i, delta)
        PROVE  UNCHANGED Queue!vars
    <2>1. \A j \in Tasks : row'[j].status = row[j].status
      BY <1>8 DEF ChangePriority, Rows
    <2> QED BY <1>1, <1>2, <2>1, Unseen
  <1>9. ASSUME NEW i \in Tasks, NEW j \in Tasks, MoveWaiting(i, j)
        PROVE  UNCHANGED Queue!vars
    <2>1. \A k \in Tasks : row'[k].status = row[k].status
      BY <1>9 DEF MoveWaiting, Rows
    <2> QED BY <1>1, <1>2, <2>1, Unseen
  <1>10. CASE PromoteDue
    <2> DEFINE S == {i \in Tasks : Status(i) = "scheduled" /\ row[i].due = 0}
    <2>1. /\ \A j \in Tasks \ S : row'[j] = row[j]
          /\ \A j \in S : row'[j].status = "queued"
      BY <1>10 DEF PromoteDue, Rows
    <2>2. ASSUME NEW j \in S
          PROVE  Stage[j] = "scheduled" /\ j \in Recurring /\ Stage'[j] = "waiting"
      <3>1. Status(j) = "scheduled" /\ row'[j].status \in Waiting
        BY <2>1 DEF Waiting
      <3> QED BY <3>1, StageFacts, StageAfter DEF QueueInv, RowsAsked, Recurring
    <2>3. \A j \in Tasks \ S : Stage'[j] = Stage[j]
      BY <1>2, <2>1, StageKept
    <2>4. Stage' = [j \in Tasks |-> IF j \in S THEN "waiting" ELSE Stage[j]]
      BY <2>2, <2>3, StageFunctions
    <2>5. KeptRows' = KeptRows
      BY <1>1, <2>1, Forgotten DEF Status
    <2>6. S \in SUBSET Tasks
      OBVIOUS
    <2> HIDE DEF S
    <2>7. Queue!Promote(S)
      BY <2>2, <2>4, <2>5 DEF Queue!Promote
    <2> QED BY <2>6, <2>7 DEF Queue!Next, Queue!ServiceActs
  <1> QED BY <1>4, <1>5, <1>6, <1>7, <1>8, <1>9, <1>10, RowAssumption
          DEF OwnerActs, QueueCommand, Queue!Next, Queue!OwnerActs

\* What a late or timely report may write is one of the queue's outcomes.
LEMMA FinishedOutcome ==
  ASSUME TypeInv, NEW i \in Tasks, Status(i) # "absent",
         NEW success \in BOOLEAN, NEW keep \in BOOLEAN, keep <=> KeepsRecord(i),
         NEW r \in FinishedRow(i, success, keep)
  PROVE  IF i \in Recurring THEN r.status = "scheduled" /\ i \in KeptRows
         ELSE IF i \in KeptRows THEN r.status \in {"completed", "failed"}
         ELSE r.status = "absent"
  <1>1. row[i] \in Rows /\ (i \in KeptRows <=> keep)
    BY RowFacts DEF KeptRows
  <1>2. CASE KindOf[i] = "recurring"
    <2> PICK d \in 1..MaxDelay :
            r = [row[i] EXCEPT !.status = "scheduled", !.lease = 0, !.notBefore = 0,
                               !.flags = {}, !.failures = 0, !.due = IF @ = 0 THEN d ELSE @]
      BY <1>2 DEF FinishedRow
    <2> QED BY <1>1, <1>2 DEF Rows, Recurring, KeptRows, KeepsRecord
  <1>3. CASE KindOf[i] # "recurring" /\ keep
    <2>1. r = [row[i] EXCEPT !.status = IF success THEN "completed" ELSE "failed",
                             !.lease = 0, !.notBefore = 0]
      BY <1>3 DEF FinishedRow
    <2>2. r.status = IF success THEN "completed" ELSE "failed"
      BY <1>1, <2>1 DEF Rows
    <2> QED BY <1>1, <1>3, <2>2 DEF Recurring
  <1>4. CASE KindOf[i] # "recurring" /\ ~keep
    BY <1>1, <1>4 DEF FinishedRow, NoRow, Recurring
  <1> QED BY <1>2, <1>3, <1>4

LEMMA DeferredOutcome ==
  ASSUME TypeInv, NEW w \in Workers, Status(worker[w].task) # "absent",
         worker[w].keep <=> KeepsRecord(worker[w].task), NEW r \in DeferredRow(w)
  PROVE  \/ r.status = "retrying"
         \/ r.status = IF worker[w].task \in KeptRows THEN "dead_letter" ELSE "absent"
  <1> DEFINE i == worker[w].task
             saved == [row[i] EXCEPT !.lease = 0, !.flags = worker[w].flags,
                                     !.failures = worker[w].failures]
  <1>1. row[i] \in Rows /\ (i \in KeptRows <=> worker[w].keep)
    BY RowFacts DEF KeptRows
  <1>2. CASE worker[w].retry
    BY <1>2, DeferredRowStatus DEF TypeInv
  <1>3. CASE ~worker[w].retry /\ worker[w].keep
    <2>1. r = [saved EXCEPT !.status = "dead_letter", !.notBefore = 0]
      BY <1>3 DEF DeferredRow
    <2> QED BY <1>1, <1>3, <2>1 DEF Rows
  <1>4. CASE ~worker[w].retry /\ ~worker[w].keep
    BY <1>1, <1>4 DEF DeferredRow, NoRow
  <1> QED BY <1>2, <1>3, <1>4

\* A report on row i: the queue's Report when the row is not withdrawn.
LEMMA ReportMaps ==
  ASSUME TypeInv, TypeInv', QueueInv, DailyStays, next' = next, NEW i \in Tasks, ~Withdrawn(i),
         \A j \in Tasks \ {i} : row'[j] = row[j],
         \/ i \in Recurring /\ i \in KeptRows /\ row'[i].status = "scheduled"
         \/ i \notin Recurring /\ i \in KeptRows /\ row'[i].status \in {"completed", "failed"}
         \/ i \in KeptRows /\ row'[i].status = "dead_letter"
         \/ i \notin KeptRows /\ row'[i].status = "absent"
         \/ Status(i) \in Open /\ row'[i].status = "retrying"
  PROVE  Queue!Report(i)
  <1>1. Status(i) \notin {"absent", "cancelled"} /\ i < next
    BY TasksFinite DEF Withdrawn, QueueInv, FreshIds, TypeInv, TypeOK
  <1>2. Stage[i] \notin {"none", "gone", "cancelled"}
    BY <1>1, StageFacts
  <1>3. Status(i) \in Open => Stage[i] \in {"waiting", "working"}
    BY StageFacts DEF Open
  <1>4. Stage'[i] \in Queue!Outcomes(i)
          \cup (IF Stage[i] \in {"waiting", "working"} THEN {"waiting"} ELSE {})
    BY <1>1, <1>3, StageAfter DEF Queue!Outcomes, Waiting
  <1>5. \A j \in Tasks \ {i} : Stage'[j] = Stage[j]
    BY StageKept
  <1>6. Stage' = [Stage EXCEPT ![i] = Stage'[i]]
    BY <1>5, StageFunctions
  <1> QED BY <1>2, <1>4, <1>6, Forgotten DEF Queue!Report, Queue!Listed

LEMMA WorkerMaps ==
  ASSUME TypeInv, TypeInv', QueueInv, NEW w \in Workers,
         Execute(w) \/ Heartbeat(w) \/ HeartbeatDies(w)
  PROVE  [Queue!Next]_(Queue!vars)
  <1> DEFINE i == worker[w].task
  <1>1. DailyStays
    BY PoolDaily
  <1>2. next' = next
    BY DEF Execute, MarkRunning, Begin, Abandon, RefuseAttachment, QuotaPaused, Reply,
           ProviderFails, TurnFails, FinishRead, FinishWrite, DeferRead, DeferWrite, Finalize,
           FinalizeRaises, Epilogue, Heartbeat, HeartbeatDies
  <1>3. /\ i \in Tasks /\ row[i] \in Rows /\ worker[w] \in WorkerStates /\ CopyAgrees(w)
        /\ row \in [Tasks -> Rows]
    BY RowFacts DEF QueueInv, TypeInv, TypeOK
  <1>4. ASSUME \A j \in Tasks : \/ row'[j].status = row[j].status
                                \/ row'[j].status \in Active /\ row[j].status \in Active
        PROVE  UNCHANGED Queue!vars
    BY <1>1, <1>2, <1>4, Unseen
  <1>5. CASE MarkRunning(w) \/ Heartbeat(w)
    BY <1>3, <1>4, <1>5 DEF MarkRunning, Heartbeat, Status, Active, Rows
  <1>6. CASE Begin(w)
    BY <1>3, <1>4, <1>6 DEF Begin, Rows
  <1>7. CASE UNCHANGED row
    BY <1>4, <1>7
  <1>8. CASE FinishWrite(w) /\ ~UNCHANGED row
    <2>1. ~Withdrawn(i) /\ worker[w].pc = "finishing"
      BY <1>8 DEF FinishWrite
    <2>2. Status(i) # "absent" /\ (worker[w].keep <=> KeepsRecord(i))
      BY <1>3, <2>1 DEF Withdrawn, CopyAgrees
    <2>3. PICK r \in FinishedRow(i, worker[w].ok, worker[w].keep) : row' = [row EXCEPT ![i] = r]
      BY <1>8, <2>1 DEF FinishWrite
    <2>4. worker[w].ok \in BOOLEAN /\ worker[w].keep \in BOOLEAN
      BY <1>3 DEF WorkerStates
    <2>5. row'[i] = r /\ \A j \in Tasks \ {i} : row'[j] = row[j]
      BY <1>3, <2>3
    <2>6. IF i \in Recurring THEN r.status = "scheduled" /\ i \in KeptRows
          ELSE IF i \in KeptRows THEN r.status \in {"completed", "failed"}
          ELSE r.status = "absent"
      BY <1>3, <2>2, <2>4, FinishedOutcome
    <2>7. Queue!Report(i)
      BY <1>1, <1>2, <1>3, <2>1, <2>5, <2>6, ReportMaps
    <2> QED BY <1>3, <2>7 DEF Queue!Next, Queue!ServiceActs
  <1>9. CASE DeferWrite(w) /\ ~UNCHANGED row
    <2>1. Status(i) \in Open /\ worker[w].pc = "deferring"
      BY <1>9 DEF DeferWrite
    <2>2. Status(i) # "absent" /\ ~Withdrawn(i) /\ (worker[w].keep <=> KeepsRecord(i))
      BY <1>3, <2>1 DEF Withdrawn, CopyAgrees, Open, Active, Waiting
    <2>3. PICK r \in DeferredRow(w) : row' = [row EXCEPT ![i] = r]
      BY <1>9, <2>1 DEF DeferWrite
    <2>4. row'[i] = r /\ \A j \in Tasks \ {i} : row'[j] = row[j]
      BY <1>3, <2>3
    <2>5. r.status = "retrying" \/ r.status = IF i \in KeptRows THEN "dead_letter" ELSE "absent"
      BY <2>2, DeferredOutcome
    <2>6. Queue!Report(i)
      BY <1>1, <1>2, <1>3, <2>1, <2>2, <2>4, <2>5, ReportMaps
    <2> QED BY <1>3, <2>6 DEF Queue!Next, Queue!ServiceActs
  <1> QED BY <1>5, <1>6, <1>7, <1>8, <1>9
          DEF Execute, HeartbeatDies, Abandon, RefuseAttachment, QuotaPaused, Reply,
              ProviderFails, TurnFails, FinishRead, DeferRead, Finalize, FinalizeRaises,
              Epilogue

\* Leases that ran out put their rows back, and one row is taken.
LEMMA ClaimMaps ==
  ASSUME TypeInv, TypeInv', QueueInv, NEW w \in Workers, Claim(w)
  PROVE  [Queue!Next]_(Queue!vars)
  <1> DEFINE S == {j \in Tasks : Status(j) \in Active /\ row[j].lease = 0}
  <1>1. DailyStays
    BY PoolDaily
  <1>2. next' = next
    BY DEF Claim, ClaimNext, ClaimNothing
  <1>3. /\ \A j \in Tasks \ S : Requeued[j] = row[j]
        /\ \A j \in S : Requeued[j].status = "queued" /\ Status(j) \in Active
    BY DEF Requeued, TypeInv, TypeOK, Rows, Status
  <1>4. S \in SUBSET Tasks /\ S \subseteq Queue!Working
    BY StageFacts DEF Queue!Working
  <1> HIDE DEF S
  <1>5. ASSUME \A j \in Tasks : Status(j) # "absent" => row'[j].status # "absent"
        PROVE  KeptRows' = KeptRows
    BY <1>1, <1>5, Forgotten
  <1>6. CASE ClaimNothing(w)
    <2>1. row' = Requeued
      BY <1>6 DEF ClaimNothing
    <2>2. \A j \in S : Stage'[j] = "waiting"
      BY <1>3, <1>4, <2>1, StageAfter DEF Waiting
    <2>3. \A j \in Tasks \ S : Stage'[j] = Stage[j]
      BY <1>2, <1>3, <2>1, StageKept
    <2>4. Stage' = [j \in Tasks |-> IF j \in S THEN "waiting" ELSE Stage[j]]
      BY <2>2, <2>3, StageFunctions
    <2>5. KeptRows' = KeptRows
      BY <1>3, <1>5, <2>1 DEF Status
    <2>6. Queue!GiveUp(S)
      BY <1>4, <2>4, <2>5 DEF Queue!GiveUp
    <2> QED BY <1>4, <2>6 DEF Queue!Next, Queue!ServiceActs
  <1>7. ASSUME NEW i \in Tasks, ClaimNext(w, i) PROVE [Queue!Next]_(Queue!vars)
    <2>1. /\ \A j \in Tasks \ {i} : row'[j] = Requeued[j]
          /\ row'[i].status = "leased"
          /\ Requeued[i].status \in Waiting
          /\ \A r \in Tasks : SameOwner(r, i) => Requeued[r].status \notin Active
      BY <1>7, ClaimActivates DEF ClaimNext, Claimable
    <2>2. Stage'[i] = "working"
      BY <2>1, StageAfter DEF Active
    <2>3. \A j \in S \ {i} : Stage'[j] = "waiting"
      BY <1>3, <1>4, <2>1, StageAfter DEF Waiting
    <2>4. \A j \in Tasks \ (S \cup {i}) : Stage'[j] = Stage[j]
      BY <1>2, <1>3, <2>1, StageKept
    <2>5. Stage' = [j \in Tasks |-> IF j = i THEN "working"
                                   ELSE IF j \in S THEN "waiting" ELSE Stage[j]]
      BY <2>2, <2>3, <2>4, StageFunctions
    <2>6. Stage[i] = "waiting" \/ i \in S
      BY <1>3, <2>1, StageFacts DEF Status
    <2>7. Queue!Mine(i) \cap Queue!Working \subseteq S
      <3>1. ASSUME NEW j \in Queue!Mine(i) \cap Queue!Working PROVE j \in S
        <4>1. j \in Tasks /\ SameOwner(j, i) /\ Status(j) \in Active
          BY <3>1, StageFacts DEF Queue!Mine, Queue!Working, SameOwner
        <4> QED BY <1>3, <2>1, <4>1 DEF Status
      <3> QED BY <3>1
    <2>8. KeptRows' = KeptRows
      <3>1. ASSUME NEW j \in Tasks, Status(j) # "absent" PROVE row'[j].status # "absent"
        BY <1>3, <2>1, <3>1 DEF Status
      <3> QED BY <1>5, <3>1
    <2>9. Queue!Take(S, i)
      BY <1>4, <2>5, <2>6, <2>7, <2>8 DEF Queue!Take
    <2> QED BY <1>4, <2>9 DEF Queue!Next, Queue!ServiceActs
  <1> QED BY <1>6, <1>7 DEF Claim

LEMMA RecoveredOutcome ==
  ASSUME TypeInv, NEW j \in Tasks, Status(j) \in Active
  PROVE  \/ Recovered(j).status = "queued"
         \/ j \in KeptRows /\ Recovered(j).status = "failed"
         \/ j \notin KeptRows /\ Recovered(j).status = "absent"
  <1>1. row[j] \in Rows /\ Status(j) # "absent"
    BY RowFacts DEF Active
  <1>2. CASE Status(j) = "leased" \/ row[j].flags # {}
    BY <1>1, <1>2 DEF Recovered, Rows
  <1>3. CASE ~(Status(j) = "leased" \/ row[j].flags # {})
    <2>1. j \in KeptRows <=> KindOf[j] # "plain"
      BY <1>1, <1>3 DEF KeptRows, KeepsRecord
    <2>2. Recovered(j) = IF KindOf[j] = "plain" THEN NoRow
                         ELSE [row[j] EXCEPT !.status = "failed", !.lease = 0]
      BY <1>3 DEF Recovered
    <2>3. NoRow.status = "absent" /\ [row[j] EXCEPT !.status = "failed", !.lease = 0].status = "failed"
      BY <1>1 DEF NoRow, Rows
    <2> QED BY <2>1, <2>2, <2>3
  <1> QED BY <1>2, <1>3

LEMMA ClockMaps ==
  ASSUME TypeInv, TypeInv', QueueInv, Tick \/ CrashRestart \/ UNCHANGED core
  PROVE  [Queue!Next]_(Queue!vars)
  <1>1. DailyStays /\ next' = next
    BY ClockDaily DEF Tick, CrashRestart, core
  <1>2. CASE Tick
    <2>1. \A j \in Tasks : row'[j].status = row[j].status
      BY <1>2 DEF Tick, Rows, TypeInv, TypeOK
    <2> QED BY <1>1, <2>1, Unseen
  <1>3. CASE UNCHANGED core
    <2>1. \A j \in Tasks : row'[j].status = row[j].status
      BY <1>3 DEF core
    <2> QED BY <1>1, <2>1, Unseen
  <1>4. CASE CrashRestart
    <2>1. \A j \in Tasks : row'[j] = Recovered(j)
      BY <1>4 DEF CrashRestart
    <2>2. ASSUME NEW j \in Tasks, Status(j) \in Active
          PROVE  \/ row'[j].status = "queued"
                 \/ j \in KeptRows /\ row'[j].status = "failed"
                 \/ j \notin KeptRows /\ row'[j].status = "absent"
      BY <2>1, <2>2, RecoveredOutcome
    <2>3. \A j \in Queue!Working : j \in Tasks /\ Status(j) \in Active
      BY StageFacts DEF Queue!Working
    <2>4. \A j \in Tasks : Status(j) \in Active => j < next
      BY TasksFinite DEF Active, QueueInv, FreshIds, TypeInv, TypeOK
    <2>5. \A j \in Queue!Working :
             Stage'[j] \in {"waiting"} \cup (Queue!Outcomes(j) \cap {"failed", "gone"})
      BY <1>1, <2>2, <2>3, <2>4, StageAfter DEF Queue!Outcomes, Waiting
    <2>6. ASSUME NEW j \in Tasks \ Queue!Working PROVE Stage'[j] = Stage[j]
      <3>1. row'[j] = row[j]
        BY <2>1, StageFacts DEF Recovered, Queue!Working
      <3> QED BY <1>1, <3>1, StageKept
    <2> DEFINE s == [j \in Queue!Working |-> Stage'[j]]
    <2>7. s \in [Queue!Working -> Queue!Stages]
      BY <2>5 DEF Queue!Stages
    <2>8. Stage' = [j \in Tasks |-> IF j \in Queue!Working THEN s[j] ELSE Stage[j]]
      BY <2>6, StageFunctions
    <2>9. \A j \in Queue!Working : s[j] \in {"waiting"} \cup (Queue!Outcomes(j) \cap {"failed", "gone"})
      BY <2>5
    <2> HIDE DEF s
    <2>10. Queue!Recover
      BY <1>1, <2>7, <2>8, <2>9, Forgotten DEF Queue!Recover
    <2> QED BY <2>10 DEF Queue!Next, Queue!ServiceActs
  <1> QED BY <1>2, <1>3, <1>4

LEMMA InitMaps == Init => Queue!Init
  <1> SUFFICES ASSUME Init PROVE Queue!Init
    OBVIOUS
  <1>1. \A i \in Tasks : StageOf(i) = "none"
    BY TasksFinite DEF Init, StageOf, Status, NoRow, Tasks
  <1>2. Stage = [i \in Tasks |-> "none"]
    BY <1>1 DEF Stage
  <1>3. KeptRows = {}
    BY DEF Init, KeptRows, Status, NoRow
  <1> QED BY <1>2, <1>3 DEF Queue!Init

LEMMA StepMaps ==
  TypeInv /\ TypeInv' /\ QueueInv /\ [Next]_vars => [Queue!Next]_(Queue!vars)
  BY NextSteps, IntakeMaps, OwnerMaps, WorkerMaps, ClaimMaps, ClockMaps DEF Drained, core, vars

\* What the owners see of the pool is a behaviour of OwnerQueue: also with
\* heartbeats that die and executors that lag behind a new claim of their row.
THEOREM PoolImplementsQueue == Spec => ImplementsQueue
  <1> QED BY InitMaps, StepMaps, TypesHold, AgreementHolds, PTL
          DEF Spec, ImplementsQueue, Queue!Spec

-----------------------------------------------------------------------------
(* Records.                                                                 *)

\* No step of the pool, the clock or a restart removes a row that is kept.
LEMMA StepRecord ==
  ASSUME TypeInv, QueueInv, Next, ~OwnerActs,
         NEW i \in Tasks, i \in KeptRows
  PROVE  row'[i].status # "absent"
  <1> USE DEF TypeInv, TypeOK, Status
  <1>1. Status(i) # "absent" /\ row[i] \in Rows
    BY RowFacts DEF KeptRows
  <1>2. CASE Intake \/ PromoteDue
    <2>1. i < next
      BY <1>1, TasksFinite DEF QueueInv, FreshIds
    <2>2. ASSUME NEW j \in Tasks, Enqueue(j) PROVE row'[i] = row[i]
      <3>1. j # i
        BY <2>1, <2>2, TasksFinite DEF Enqueue
      <3> QED BY <2>2, <3>1 DEF Enqueue
    <2>3. ASSUME NEW j \in Tasks, SaveDispatchFlags(j) PROVE row'[i].status = row[i].status
      BY <2>3 DEF SaveDispatchFlags, Rows
    <2>4. CASE PromoteDue
      BY <1>1, <2>4 DEF PromoteDue, Rows
    <2> QED BY <1>1, <1>2, <2>2, <2>3, <2>4 DEF Intake
  <1>3. ASSUME NEW w \in Workers, Claim(w)
        PROVE  row'[i].status # "absent"
    <2>1. Requeued[i].status # "absent"
      BY <1>1 DEF Requeued, Rows
    <2> QED BY <1>3, <2>1, ClaimActivates DEF Claim, ClaimNothing
  <1>4. ASSUME NEW w \in Workers, Execute(w) \/ Heartbeat(w) \/ HeartbeatDies(w)
        PROVE  row'[i].status # "absent"
    <2> DEFINE k == worker[w].task
    <2>1. /\ k \in Tasks /\ row[k] \in Rows /\ CopyAgrees(w)
          /\ worker[w].ok \in BOOLEAN /\ worker[w].keep \in BOOLEAN
      BY DEF WorkerStates, QueueInv
    <2>2. CASE MarkRunning(w) \/ Begin(w) \/ Heartbeat(w)
      BY <1>1, <2>1, <2>2 DEF MarkRunning, Begin, Heartbeat, Rows
    <2>3. CASE UNCHANGED row
      BY <1>1, <2>3
    <2>4. CASE FinishWrite(w) /\ ~UNCHANGED row
      <3>1. /\ Status(k) # "absent" /\ (worker[w].keep <=> KeepsRecord(k))
            /\ \E r \in FinishedRow(k, worker[w].ok, worker[w].keep) : row' = [row EXCEPT ![k] = r]
        BY <2>1, <2>4 DEF FinishWrite, Withdrawn, CopyAgrees
      <3> QED BY <1>1, <2>1, <3>1, FinishedOutcome
    <2>5. CASE DeferWrite(w) /\ ~UNCHANGED row
      <3>1. /\ Status(k) # "absent" /\ (worker[w].keep <=> KeepsRecord(k))
            /\ \E r \in DeferredRow(w) : row' = [row EXCEPT ![k] = r]
        BY <2>1, <2>5 DEF DeferWrite, CopyAgrees, Open, Active, Waiting
      <3> QED BY <1>1, <2>1, <3>1, DeferredOutcome
    <2> QED BY <1>4, <2>2, <2>3, <2>4, <2>5
            DEF Execute, HeartbeatDies, Abandon, RefuseAttachment, QuotaPaused, Reply,
                ProviderFails, TurnFails, FinishRead, DeferRead, Finalize, FinalizeRaises,
                Epilogue
  <1>5. CASE Tick
    BY <1>1, <1>5 DEF Tick, Rows
  <1>6. CASE CrashRestart
    <2>1. row'[i] = Recovered(i)
      BY <1>6 DEF CrashRestart
    <2>2. CASE Status(i) \in Active
      BY <2>1, <2>2, RecoveredOutcome
    <2>3. CASE Status(i) \notin Active
      BY <1>1, <2>1, <2>3 DEF Recovered
    <2> QED BY <2>2, <2>3
  <1> QED BY <1>1, <1>2, <1>3, <1>4, <1>5, <1>6, NextSteps DEF Drained, core

\* Recorded work leaves the table only by its owner's hand, whatever executors
\* lag, crash or lose their lease.
THEOREM RecordsKept == Spec => RecordKept
  <1>1. TypeInv /\ QueueInv /\ [Next]_vars =>
          [\A i \in Tasks :
              KeepsRecord(i) /\ Status(i) # "absent" /\ row'[i].status = "absent"
                => OwnerActs]_vars
    BY StepRecord DEF KeptRows
  <1> QED BY <1>1, TypesHold, AgreementHolds, PTL DEF Spec, RecordKept
=============================================================================
