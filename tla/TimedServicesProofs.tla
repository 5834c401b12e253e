------------------------- MODULE TimedServicesProofs -------------------------
(***************************************************************************)
(* What Reminders guarantees for any table, batch, number of attempts,     *)
(* crashes and store errors: the claimed rows stay the scheduler's own,    *)
(* ended reminders stay silent, and retries are bounded.                   *)
(* And, of the schedules beside them, that executions overlap only by the  *)
(* owner's doing.                                                          *)
(*                                                                         *)
(* What Downloads guarantees, for any number of files and deaths.          *)
(* That every record has its file rests on who may touch what: only the    *)
(* holder of the lock is inside the store (LockHeld), what it read of the  *)
(* index is still the index when it writes (Fresh), a transfer works on a  *)
(* slot without a record (Apart), and what is unlinked has no record       *)
(* any more (Dropped).  That the quota is kept takes a second invariant:   *)
(* what is recorded, or is not any more and still to be unlinked, keeps to *)
(* it at every instant (Within), and a transfer was promised at most the   *)
(* rest (Promised) and writes no more (Sized, Planned).                    *)
(***************************************************************************)
EXTENDS TimedServices, FiniteSetTheorems, TLAPS

\* Every message sent is accounted for: by a counted attempt, by a crash or
\* store error, by the final "sent", or by the delivery under way.
Underway(r) == outcome # "none" /\ batch[1] = r

Counted ==
    \A r \in Reminders :
        /\ status[r] = "none" => sends[r] = 0
        /\ status[r] \in {"none", "pending", "sending", "sent"} => attempts[r] < MaxAttempts
        /\ sends[r] <= attempts[r] + crashes + storeErrors
                       + (IF status[r] = "sent" \/ Underway(r) THEN 1 ELSE 0)

Inv == TypeOK /\ BatchHeld /\ Counted

LEMMA BatchType ==
    ASSUME NEW s \in Batches
    PROVE  s \in Seq(Reminders) /\ s # <<>> /\ \A i \in 1..Len(s) : s[i] \in Due
  <1>1. PICK n \in 1..BatchLimit : s \in [1..n -> Due]
    BY DEF Batches
  <1>2. n \in Nat /\ s \in Seq(Due)
    BY <1>1, ReminderAssumption
  <1>3. Due \subseteq Reminders
    BY DEF Due
  <1>4. Len(s) = n
    BY <1>1, <1>2
  <1> QED
    BY <1>1, <1>2, <1>3, <1>4

LEMMA InBatch == ASSUME Inv PROVE \A i \in 1..Len(batch) : batch[i] \in Reminders
  BY DEF Inv, TypeOK

LEMMA HeadOfBatch ==
    ASSUME Inv, batch # <<>>
    PROVE  Head(batch) = batch[1] /\ batch[1] \in Reminders /\ status[batch[1]] = "sending"
  <1>1. batch \in Seq(Reminders) /\ 1 \in 1..Len(batch)
    BY DEF Inv, TypeOK
  <1>2. status[batch[1]] = "sending"
    BY <1>1 DEF Inv, BatchHeld
  <1> QED
    BY <1>1, <1>2, InBatch

LEMMA TailOfBatch ==
    ASSUME Inv, batch # <<>>, NextOfBatch
    PROVE  /\ Head(batch) = batch[1] /\ batch[1] \in Reminders
           /\ batch' \in Seq(Reminders) /\ outcome' = "none"
           /\ \A i \in 1..Len(batch') : i + 1 \in 1..Len(batch) /\ batch'[i] = batch[i + 1]
           /\ \A i \in 1..Len(batch') : batch'[i] # batch[1]
  <1>1. batch \in Seq(Reminders) /\ 1 \in 1..Len(batch)
    BY DEF Inv, TypeOK
  <1>2. Head(batch) = batch[1] /\ batch[1] \in Reminders
    BY <1>1
  <1>3. batch' = Tail(batch) /\ outcome' = "none"
    BY DEF NextOfBatch
  <1>4. batch' \in Seq(Reminders) /\ Len(batch') = Len(batch) - 1 /\ Len(batch) \in Nat
    BY <1>1, <1>3
  <1>5. \A i \in 1..Len(batch') : i + 1 \in 1..Len(batch) /\ batch'[i] = batch[i + 1]
    BY <1>1, <1>3, <1>4
  <1>6. \A i \in 1..Len(batch') : batch'[i] # batch[1]
    BY <1>1, <1>5 DEF Inv, BatchHeld
  <1> QED
    BY <1>2, <1>3, <1>4, <1>5, <1>6

LEMMA InitHolds == Init => Inv
  <1> SUFFICES ASSUME Init PROVE Inv
    OBVIOUS
  <1>1. TypeOK
    BY ReminderAssumption DEF Init, TypeOK, Statuses
  <1>2. BatchHeld
    BY DEF Init, BatchHeld
  <1>3. Counted
    BY ReminderAssumption DEF Init, Counted, Underway
  <1> QED
    BY <1>1, <1>2, <1>3 DEF Inv

LEMMA OwnerStep ==
    ASSUME Inv, NEW r \in Reminders, (\E at \in 1..MaxClock : Create(r, at)) \/ Cancel(r)
    PROVE  Inv'
  <1>1. CASE \E at \in 1..MaxClock : Create(r, at)
    <2>1. PICK at \in 1..MaxClock : Create(r, at)
      BY <1>1
    <2>2. TypeOK'
      BY <2>1, ReminderAssumption DEF Inv, TypeOK, Create, Statuses
    <2>3. BatchHeld'
      BY <2>1, InBatch DEF Inv, TypeOK, BatchHeld, Create
    <2>4. Counted'
      BY <2>1, ReminderAssumption DEF Inv, TypeOK, Counted, Underway, Create
    <2> QED
      BY <2>2, <2>3, <2>4 DEF Inv
  <1>2. CASE Cancel(r)
    <2>2. TypeOK'
      BY <1>2 DEF Inv, TypeOK, Cancel, Statuses
    <2>3. BatchHeld'
      BY <1>2, InBatch DEF Inv, TypeOK, BatchHeld, Cancel, Cancellable
    <2>4. Counted'
      BY <1>2, ReminderAssumption DEF Inv, TypeOK, Counted, Underway, Cancel, Cancellable
    <2> QED
      BY <2>2, <2>3, <2>4 DEF Inv
  <1> QED
    BY <1>1, <1>2

LEMMA ClaimStep == ASSUME Inv, ClaimDue PROVE Inv'
  <1>1. PICK s \in Batches : IsDueBatch(s) /\ batch' = s /\ status' = Claimed(s)
    BY DEF ClaimDue
  <1>2. /\ batch = <<>> /\ outcome = "none"
        /\ UNCHANGED <<dueAt, attempts, clock, outcome, sends, crashes, storeErrors>>
    BY DEF ClaimDue, Inv, TypeOK
  <1>3. s \in Seq(Reminders) /\ s # <<>> /\ \A i \in 1..Len(s) : s[i] \in Due
    BY BatchType
  <1>4. \A q \in Reminders : status'[q] = status[q] \/ (status[q] = "pending" /\ status'[q] = "sending")
    BY <1>1, <1>3 DEF Claimed, Due
  <1>5. TypeOK'
    <2>1. status' \in [Reminders -> Statuses]
      BY <1>1 DEF Claimed, Inv, TypeOK, Statuses
    <2> QED
      BY <2>1, <1>1, <1>2, <1>3 DEF Inv, TypeOK
  <1>6. BatchHeld'
    <2>1. \A i \in 1..Len(s) : s[i] \in Reminders /\ Claimed(s)[s[i]] = "sending"
      BY <1>3 DEF Claimed
    <2>2. \A i, j \in 1..Len(s) : i < j => s[i] # s[j]
      <3>1. \A q \in Reminders : ~Earlier(q, q)
        BY ReminderAssumption DEF Earlier, Inv, TypeOK
      <3> QED
        BY <1>1, <2>1, <3>1 DEF IsDueBatch
    <2>3. \A i, j \in 1..Len(s) : s[i] = s[j] => i = j
      BY <2>2, <1>3
    <2> QED
      BY <1>1, <2>1, <2>3 DEF BatchHeld
  <1>7. Counted'
    BY <1>2, <1>4 DEF Inv, TypeOK, Counted, Underway
  <1> QED
    BY <1>5, <1>6, <1>7 DEF Inv

LEMMA SendStep == ASSUME Inv, Send PROVE Inv'
  <1>1. batch # <<>>
    BY DEF Send
  <1>2. Head(batch) = batch[1] /\ batch[1] \in Reminders /\ status[batch[1]] = "sending"
    BY <1>1, HeadOfBatch
  <1>3. /\ outcome = "none" /\ outcome' \in {"delivered", "raised"}
        /\ UNCHANGED <<rows, clock, batch, crashes, storeErrors>>
        /\ \E n \in {sends[batch[1]], sends[batch[1]] + 1} : sends' = [sends EXCEPT ![batch[1]] = n]
    BY <1>2 DEF Send
  <1>4. TypeOK'
    BY <1>1, <1>2, <1>3 DEF Inv, TypeOK, rows
  <1>5. BatchHeld'
    BY <1>3 DEF Inv, BatchHeld, rows
  <1>6. Counted'
    BY <1>2, <1>3, ReminderAssumption DEF Inv, TypeOK, Counted, Underway, rows
  <1> QED
    BY <1>4, <1>5, <1>6 DEF Inv

LEMMA MarkStep == ASSUME Inv, MarkSent \/ MarkAttemptFailed PROVE Inv'
  <1>1. batch # <<>> /\ NextOfBatch /\ outcome # "none"
    BY DEF MarkSent, MarkAttemptFailed, Inv, TypeOK
  <1>2. /\ Head(batch) = batch[1] /\ batch[1] \in Reminders
        /\ batch' \in Seq(Reminders) /\ outcome' = "none"
        /\ \A i \in 1..Len(batch') : i + 1 \in 1..Len(batch) /\ batch'[i] = batch[i + 1]
        /\ \A i \in 1..Len(batch') : batch'[i] # batch[1]
    BY <1>1, TailOfBatch
  <1>3. status[batch[1]] = "sending" /\ attempts[batch[1]] < MaxAttempts
    BY <1>1, <1>2, HeadOfBatch DEF Inv, Counted
  <1>4. /\ UNCHANGED <<dueAt, clock, sends, crashes, storeErrors>>
        /\ \/ /\ status' = [status EXCEPT ![batch[1]] = "sent"]
              /\ UNCHANGED attempts
           \/ /\ attempts' = [attempts EXCEPT ![batch[1]] = @ + 1]
              /\ status' = [status EXCEPT ![batch[1]] = AfterFailure(attempts[batch[1]] + 1)]
    BY <1>2, <1>3 DEF MarkSent, MarkAttemptFailed
  <1>5. TypeOK'
    <2>1. status' \in [Reminders -> Statuses] /\ attempts' \in [Reminders -> 0..MaxAttempts]
      <3>1. attempts[batch[1]] \in 0..MaxAttempts /\ MaxAttempts \in Nat
        BY <1>2, ReminderAssumption DEF Inv, TypeOK
      <3>2. attempts[batch[1]] + 1 \in 0..MaxAttempts
        BY <1>3, <3>1
      <3>3. AfterFailure(attempts[batch[1]] + 1) \in Statuses
        BY DEF Statuses, AfterFailure
      <3> QED
        BY <1>2, <1>4, <3>2, <3>3 DEF Inv, TypeOK, Statuses
    <2> QED
      BY <2>1, <1>2, <1>4 DEF Inv, TypeOK
  <1>6. BatchHeld'
    <2>1. \A i \in 1..Len(batch') : status'[batch'[i]] = "sending"
      <3> SUFFICES ASSUME NEW i \in 1..Len(batch') PROVE status'[batch'[i]] = "sending"
        OBVIOUS
      <3>1. batch'[i] \in Reminders /\ batch'[i] # batch[1] /\ status[batch'[i]] = "sending"
        BY <1>2, InBatch DEF Inv, BatchHeld
      <3> QED
        BY <1>2, <1>4, <3>1 DEF Inv, TypeOK
    <2>2. \A i, j \in 1..Len(batch') : batch'[i] = batch'[j] => i = j
      BY <1>2 DEF Inv, TypeOK, BatchHeld
    <2> QED
      BY <2>1, <2>2 DEF BatchHeld
  <1>7. Counted'
    <2> SUFFICES ASSUME NEW r \in Reminders
                 PROVE  /\ status'[r] = "none" => sends'[r] = 0
                        /\ status'[r] \in {"none", "pending", "sending", "sent"} => attempts'[r] < MaxAttempts
                        /\ sends'[r] <= attempts'[r] + crashes' + storeErrors'
                                        + (IF status'[r] = "sent" THEN 1 ELSE 0)
      BY <1>2 DEF Counted, Underway
    <2>1. /\ sends[r] \in Nat /\ attempts[r] \in Nat /\ crashes \in Nat /\ storeErrors \in Nat
          /\ MaxAttempts \in Nat
      BY ReminderAssumption DEF Inv, TypeOK
    <2>2. CASE r = batch[1]
      <3>1. sends[r] <= attempts[r] + crashes + storeErrors + 1
        BY <2>1, <2>2, <1>1 DEF Inv, Counted, Underway
      <3>2. status \in [Reminders -> Statuses] /\ attempts \in [Reminders -> 0..MaxAttempts]
        BY DEF Inv, TypeOK
      <3>3. CASE status' = [status EXCEPT ![batch[1]] = "sent"] /\ UNCHANGED attempts
        BY <1>3, <1>4, <2>1, <2>2, <3>1, <3>2, <3>3
      <3>4. CASE /\ attempts' = [attempts EXCEPT ![batch[1]] = @ + 1]
                 /\ status' = [status EXCEPT ![batch[1]] = AfterFailure(attempts[batch[1]] + 1)]
        <4>1. attempts'[r] = attempts[r] + 1 /\ status'[r] = AfterFailure(attempts[r] + 1)
          BY <2>2, <3>2, <3>4
        <4> QED
          BY <1>4, <2>1, <3>1, <4>1 DEF AfterFailure
      <3> QED
        BY <1>4, <3>3, <3>4
    <2>3. CASE r # batch[1]
      BY <1>4, <2>1, <2>3 DEF Inv, TypeOK, Counted, Underway
    <2> QED
      BY <2>2, <2>3
  <1> QED
    BY <1>5, <1>6, <1>7 DEF Inv

LEMMA UpsetStep == ASSUME Inv, StoreError \/ Restart PROVE Inv'
  <1>1. /\ batch' = <<>> /\ outcome' = "none"
        /\ UNCHANGED <<dueAt, attempts, clock, sends>>
        /\ crashes' \in 0..MaxCrashes /\ storeErrors' \in 0..MaxStoreErrors
    BY ReminderAssumption DEF StoreError, Restart, Inv, TypeOK, rows
  <1>2. \/ crashes' = crashes + 1 /\ storeErrors' \in {storeErrors, storeErrors + 1}
        \/ crashes' = crashes /\ storeErrors' = storeErrors + 1
    BY DEF StoreError, Restart, rows
  <1>3. status' \in {status, Reset}
    BY DEF StoreError, Restart, rows
  <1>4. TypeOK'
    BY <1>1, <1>3 DEF Inv, TypeOK, Reset, Statuses
  <1>5. BatchHeld'
    BY <1>1 DEF BatchHeld
  <1>6. Counted'
    <2> SUFFICES ASSUME NEW r \in Reminders
                 PROVE  /\ status'[r] = "none" => sends'[r] = 0
                        /\ status'[r] \in {"none", "pending", "sending", "sent"} => attempts'[r] < MaxAttempts
                        /\ sends'[r] <= attempts'[r] + crashes' + storeErrors'
                                        + (IF status'[r] = "sent" THEN 1 ELSE 0)
      BY <1>1 DEF Counted, Underway
    <2>1. /\ sends[r] \in Nat /\ attempts[r] \in Nat /\ crashes \in Nat /\ storeErrors \in Nat
          /\ crashes' \in Nat /\ storeErrors' \in Nat /\ MaxAttempts \in Nat
      BY <1>1, ReminderAssumption DEF Inv, TypeOK
    <2>2. status'[r] = status[r] \/ (status[r] = "sending" /\ status'[r] = "pending")
      BY <1>3 DEF Reset
    <2>3. sends[r] <= attempts[r] + crashes + storeErrors + 1
      BY <2>1 DEF Inv, Counted
    <2>4. /\ status[r] = "none" => sends[r] = 0
          /\ status[r] \in {"none", "pending", "sending", "sent"} => attempts[r] < MaxAttempts
      BY DEF Inv, Counted
    <2>5. sends'[r] = sends[r] /\ attempts'[r] = attempts[r]
      BY <1>1
    <2>6. CASE crashes' = crashes + 1 /\ storeErrors' \in {storeErrors, storeErrors + 1}
      <3>1. sends[r] <= attempts[r] + crashes' + storeErrors'
        BY <2>1, <2>3, <2>6
      <3> QED
        BY <2>1, <2>2, <2>4, <2>5, <3>1
    <2>7. CASE crashes' = crashes /\ storeErrors' = storeErrors + 1
      <3>1. sends[r] <= attempts[r] + crashes' + storeErrors'
        BY <2>1, <2>3, <2>7
      <3> QED
        BY <2>1, <2>2, <2>4, <2>5, <3>1
    <2> QED
      BY <1>2, <2>6, <2>7
  <1> QED
    BY <1>4, <1>5, <1>6 DEF Inv

LEMMA TickStep == ASSUME Inv, Tick \/ UNCHANGED vars PROVE Inv'
  <1>1. TypeOK'
    BY ReminderAssumption DEF Inv, TypeOK, Tick, vars, rows
  <1>2. BatchHeld'
    BY DEF Inv, BatchHeld, Tick, vars, rows
  <1>3. Counted'
    BY DEF Inv, Counted, Underway, Tick, vars, rows
  <1> QED
    BY <1>1, <1>2, <1>3 DEF Inv

THEOREM InvHolds == Spec => []Inv
  <1>1. Inv /\ [Next]_vars => Inv'
    BY OwnerStep, ClaimStep, SendStep, MarkStep, UpsetStep, TickStep DEF Next
  <1> QED
    BY InitHolds, <1>1, PTL DEF Spec

\* The table and the scheduler (reminder_service.py) stay well typed.
THEOREM TypeCorrect == Spec => []TypeOK
  BY InvHolds, PTL DEF Inv

\* A claimed row (claim_due) belongs to the scheduler until it is marked.
THEOREM BatchIsHeld == Spec => []BatchHeld
  BY InvHolds, PTL DEF Inv

\* mark_attempt_failed bounds the messages of a reminder by MAX_ATTEMPTS and
\* the upsets.
THEOREM BoundedRetries == Spec => []RetriesBounded
  <1>1. Inv => RetriesBounded
    <2> SUFFICES ASSUME Inv, NEW r \in Reminders
                 PROVE  sends[r] <= MaxAttempts + crashes + storeErrors
      BY DEF RetriesBounded
    <2>1. /\ sends[r] \in Nat /\ attempts[r] \in 0..MaxAttempts
          /\ crashes \in Nat /\ storeErrors \in Nat /\ MaxAttempts \in Nat
      BY ReminderAssumption DEF Inv, TypeOK
    <2>2. CASE status[r] = "sent"
      BY <2>1, <2>2 DEF Inv, Counted
    <2>3. CASE Underway(r)
      <3>1. status[r] = "sending"
        BY <2>3, HeadOfBatch DEF Underway, Inv, TypeOK
      <3> QED
        BY <2>1, <3>1 DEF Inv, Counted
    <2>4. CASE ~(status[r] = "sent" \/ Underway(r))
      BY <2>1, <2>4 DEF Inv, Counted
    <2> QED
      BY <2>2, <2>3, <2>4
  <1> QED
    BY <1>1, InvHolds, PTL

\* run_once sends only what claim_due marked, and nothing marks an ended row.
THEOREM EndedStaysSilent == Spec => EndedIsSilent
  <1>1. ASSUME Inv, [Next]_vars, NEW r \in Reminders, status[r] \in {"sent", "failed", "cancelled"}
        PROVE  sends'[r] = sends[r]
    <2>1. CASE Send
      <3>1. Head(batch) = batch[1] /\ status[batch[1]] = "sending"
        BY <1>1, <2>1, HeadOfBatch DEF Send
      <3> QED
        BY <1>1, <2>1, <3>1 DEF Send, Inv, TypeOK
    <2>2. CASE ~Send
      BY <1>1, <2>2
      DEF Next, Create, Cancel, ClaimDue, MarkSent, MarkAttemptFailed, StoreError, Restart, Tick, vars
    <2> QED
      BY <2>1, <2>2
  <1>2. Inv /\ [Next]_vars => [\A r \in Reminders :
          status[r] \in {"sent", "failed", "cancelled"} => sends'[r] = sends[r]]_vars
    BY <1>1
  <1> QED
    BY <1>2, InvHolds, PTL DEF Spec, EndedIsSilent

-----------------------------------------------------------------------------
(* The named schedules, beside the reminders.                         *)

\* A step of the services is a step of the schedules or leaves them alone.
LEMMA OneAtATime ==
  ASSUME [AllNext]_allVars
  PROVE  [Plan!Next]_schedules
  BY DEF AllNext, allVars, OnlyReminders, OnlySchedules, OnlyDownloads

\* Nothing but the owner's "run it now" and retries opens an execution beside an
\* open one: a promotion opens one of a schedule that has none.
LEMMA TasksStep ==
  ASSUME tasks \in [Plan!TaskKeys -> Plan!TaskStatuses], [Plan!Next]_schedules
  PROVE  /\ tasks' \in [Plan!TaskKeys -> Plan!TaskStatuses]
         /\ \A j \in Plan!Jobs : Plan!Overlapping(j)' /\ ~Plan!Overlapping(j)
                              => Plan!Serving("insert") \/ \E k \in Plan!TaskKeys : Plan!RetryTask(k)
  <1>1. CASE UNCHANGED tasks
    BY <1>1 DEF Plan!Overlapping
  <1>2. CASE Plan!InsertNow
    BY <1>2 DEF Plan!InsertNow, Plan!TaskStatuses, Plan!OpenStatuses
  <1>3. CASE Plan!PromoteDue
    <2>1. PICK handled, planned : tasks' = [k \in Plan!TaskKeys |->
             IF k[1] \in handled /\ k[2] = planned[k[1]] /\ ~Plan!HasOpenTask(k[1]) THEN "open" ELSE tasks[k]]
      <3> DEFINE planned == [j \in DOMAIN plans |-> plans[j].next]
      <3>1. Plan!Due(Plan!Asked.at) \subseteq DOMAIN plans
        BY DEF Plan!Due
      <3>2. \A k \in Plan!TaskKeys : k[1] \in Plan!Due(Plan!Asked.at) => plans[k[1]].next = planned[k[1]]
        BY <3>1
      <3>3. tasks' = [k \in Plan!TaskKeys |->
               IF k[1] \in Plan!Due(Plan!Asked.at) /\ k[2] = plans[k[1]].next /\ ~Plan!HasOpenTask(k[1])
                 THEN "open" ELSE tasks[k]]
        BY <1>3 DEF Plan!PromoteDue
      <3>4. tasks' = [k \in Plan!TaskKeys |->
               IF k[1] \in Plan!Due(Plan!Asked.at) /\ k[2] = planned[k[1]] /\ ~Plan!HasOpenTask(k[1])
                 THEN "open" ELSE tasks[k]]
        BY <3>2, <3>3
      <3> QED BY <3>4
    <2>2. tasks' \in [Plan!TaskKeys -> Plan!TaskStatuses]
      BY <2>1 DEF Plan!TaskStatuses, Plan!OpenStatuses
    <2>3. ASSUME NEW j \in Plan!Jobs, Plan!Overlapping(j)' PROVE Plan!Overlapping(j)
      <3>1. PICK t \in Plan!Times \cup {Plan!Null}, u \in Plan!Times \cup {Plan!Null} :
              t # u /\ tasks'[<<j, t>>] \in Plan!OpenStatuses /\ tasks'[<<j, u>>] \in Plan!OpenStatuses
        BY <2>3 DEF Plan!Overlapping
      <3>2. <<j, t>> \in Plan!TaskKeys /\ <<j, u>> \in Plan!TaskKeys
        BY DEF Plan!TaskKeys
      <3>3. \A s \in {t, u} : tasks[<<j, s>>] \in Plan!OpenStatuses \/ (s = planned[j] /\ ~Plan!HasOpenTask(j))
        BY <2>1, <3>1, <3>2
      <3>4. \A s \in {t, u} : tasks[<<j, s>>] \in Plan!OpenStatuses => Plan!HasOpenTask(j)
        BY DEF Plan!HasOpenTask
      <3> QED BY <3>1, <3>3, <3>4 DEF Plan!Overlapping
    <2> QED BY <2>2, <2>3
  <1>4. ASSUME NEW k \in Plan!TaskKeys, Plan!TaskRuns(k) \/ Plan!DeleteTask(k)
        PROVE  /\ tasks' \in [Plan!TaskKeys -> Plan!TaskStatuses]
               /\ \A i \in Plan!TaskKeys : tasks'[i] \in Plan!OpenStatuses => tasks[i] \in Plan!OpenStatuses
    BY <1>4 DEF Plan!TaskRuns, Plan!DeleteTask, Plan!TaskMoves, Plan!TaskStatuses, Plan!OpenStatuses
  <1>5. CASE \E k \in Plan!TaskKeys : Plan!TaskRuns(k) \/ Plan!DeleteTask(k)
    BY <1>4, <1>5 DEF Plan!Overlapping, Plan!TaskKeys
  <1>6. CASE \E k \in Plan!TaskKeys : Plan!RetryTask(k)
    BY <1>6 DEF Plan!RetryTask, Plan!TaskMoves, Plan!TaskStatuses, Plan!OpenStatuses
  <1>7. Plan!InsertNow => Plan!Serving("insert")
    BY DEF Plan!InsertNow
  <1>8. \/ UNCHANGED tasks \/ Plan!InsertNow \/ Plan!PromoteDue
        \/ \E k \in Plan!TaskKeys : Plan!TaskRuns(k) \/ Plan!DeleteTask(k)
        \/ \E k \in Plan!TaskKeys : Plan!RetryTask(k)
    BY DEF Plan!Next, schedules, Plan!OwnerAsks, Plan!AskCreate, Plan!AskRename, Plan!AskDelete, Plan!AskEdit, Plan!AskButton,
           Plan!AskPromotion, Plan!Join, Plan!Serve, Plan!Find, Plan!Look, Plan!Create, Plan!Rename, Plan!Delete, Plan!WriteTiming, Plan!WriteEnabled, Plan!Tick, Plan!Restart
  <1> QED BY <1>1, <1>2, <1>3, <1>5, <1>6, <1>7, <1>8

\* A schedule's executions overlap only by the owner's doing.
THEOREM OnlyTheOwnerOverlaps == AllSpec => OverlapOnlyByOwner
  <1>1. AllInit => tasks \in [Plan!TaskKeys -> Plan!TaskStatuses]
    BY DEF AllInit, Plan!Init, Plan!TaskStatuses, Plan!OpenStatuses
  <1>2. tasks \in [Plan!TaskKeys -> Plan!TaskStatuses] /\ [AllNext]_allVars
          => (tasks \in [Plan!TaskKeys -> Plan!TaskStatuses])'
    BY OneAtATime, TasksStep
  <1>3. tasks \in [Plan!TaskKeys -> Plan!TaskStatuses] /\ [AllNext]_allVars
          => [\A j \in Plan!Jobs : Plan!Overlapping(j)' /\ ~Plan!Overlapping(j)
                => Plan!Serving("insert") \/ \E k \in Plan!TaskKeys : Plan!RetryTask(k)]_schedules
    BY OneAtATime, TasksStep
  <1> QED BY <1>1, <1>2, <1>3, PTL DEF AllSpec, OverlapOnlyByOwner, Plan!OverlapOnlyByOwner, Plan!vars, schedules

-----------------------------------------------------------------------------
(* Downloads.                                                              *)

Shape ==
    /\ file \in [Slots -> {"none", "part", "final"}]
    /\ index \subseteq Slots
    /\ lock \in Store!Actors \cup {"free"}
    /\ pc \in [Store!Actors -> Store!Points]
    /\ snap \in [Store!Actors -> SUBSET Slots] /\ doomed \in [Store!Actors -> SUBSET Slots]
    /\ fetch \in [slot : SUBSET Slots, media : BOOLEAN]

OwnersAlone == {"waiting", "open", "streaming", "placed", "delete", "deleted"}

Fresh   == \A a \in Store!Actors : pc[a] \in {"placed", "chosen", "delete"} => snap[a] = index
Dropped == \A a \in Store!Actors : pc[a] \in {"dropped", "deleted"} => doomed[a] \cap index = {}
Apart   ==
    /\ \A a \in Store!Actors : pc[a] \in OwnersAlone => a = "owner"
    /\ pc["owner"] \in {"waiting", "open", "streaming", "placed"} => fetch.slot \cap index = {}
    /\ pc["owner"] = "placed" => \A d \in fetch.slot : file[d] = "final"

StoreInv == Shape /\ Store!LockHeld /\ Fresh /\ Dropped /\ Apart /\ Store!IndexHasFiles

USE DEF Store!Actors, Store!Points, Store!Inside, OwnersAlone

LEMMA StoreStarts == Store!Init => StoreInv
  BY DEF Store!Init, StoreInv, Shape, Store!LockHeld, Fresh, Dropped, Apart, Store!IndexHasFiles, Store!NoFetch

-----------------------------------------------------------------------------
(* Steps that leave the index and the files alone.                         *)

\* An actor that leaves its operation takes its lock and its plans with it.
LEMMA LeavesInv ==
  ASSUME StoreInv, NEW a \in Store!Actors, Store!Leaves(a), UNCHANGED index,
         file' \in [Slots -> {"none", "part", "final"}],
         \A d \in index : file'[d] = file[d],
         \A d \in Slots : file'[d] # file[d] => a = "owner"
  PROVE  StoreInv'
  <1>1. /\ pc' = [pc EXCEPT ![a] = "idle"]
        /\ snap' = [snap EXCEPT ![a] = {}] /\ doomed' = [doomed EXCEPT ![a] = {}]
        /\ lock' = IF lock = a THEN "free" ELSE lock
        /\ fetch' = IF a = "owner" THEN Store!NoFetch ELSE fetch
    BY DEF Store!Leaves, Store!Goes, Store!Release
  <1>2. Shape'
    BY <1>1 DEF StoreInv, Shape, Store!NoFetch
  <1>3. Store!LockHeld'
    BY <1>1 DEF StoreInv, Shape, Store!LockHeld
  <1>4. Fresh' /\ Dropped'
    BY <1>1 DEF StoreInv, Shape, Fresh, Dropped
  <1>5. Apart'
    <2>1. CASE a = "owner"
      BY <1>1, <2>1 DEF StoreInv, Shape, Apart
    <2>2. CASE a # "owner"
      BY <1>1, <2>2 DEF StoreInv, Shape, Apart
    <2> QED BY <2>1, <2>2
  <1>6. Store!IndexHasFiles'
    BY DEF StoreInv, Store!IndexHasFiles
  <1> QED BY <1>2, <1>3, <1>4, <1>5, <1>6 DEF StoreInv

LEMMA TransferInv ==
  ASSUME StoreInv, NEW d \in Slots, (\E media \in BOOLEAN : Store!AskFetch(d, media)) \/ Store!Transfer(d)
  PROVE  StoreInv'
  <1>1. CASE \E media \in BOOLEAN : Store!AskFetch(d, media)
    BY <1>1 DEF Store!AskFetch, Store!Fetching, Store!Goes, Store!disk, StoreInv, Shape, Store!LockHeld, Fresh, Dropped, Apart, Store!IndexHasFiles
  <1>2. CASE Store!StartTransfer(d)
    BY <1>2 DEF Store!StartTransfer, Store!Fetching, Store!Goes, StoreInv, Shape, Store!LockHeld, Fresh, Dropped, Apart, Store!IndexHasFiles
  <1>3. CASE Store!Chunk(d)
    BY <1>3 DEF Store!Chunk, Store!Fetching, Store!local, StoreInv, Shape, Store!LockHeld, Fresh, Dropped, Apart, Store!IndexHasFiles
  <1>4. CASE Store!TransferFails(d) \/ Store!RecordFails(d)
    <2>1. /\ Store!Leaves("owner") /\ UNCHANGED index /\ d \notin index
          /\ file' = [file EXCEPT ![d] = "none"]
      BY <1>4 DEF Store!TransferFails, Store!RecordFails, Store!RemoveFile, Store!Fetching, StoreInv, Shape, Apart
    <2> QED BY <2>1, LeavesInv DEF StoreInv, Shape
  <1>5. CASE Store!Place(d)
    BY <1>5 DEF Store!Place, Store!Fetching, Store!Goes, StoreInv, Shape, Store!LockHeld, Fresh, Dropped, Apart, Store!IndexHasFiles
  <1>6. CASE Store!Record(d)
    <2>1. /\ index' = index \cup {d} /\ file[d] = "final" /\ UNCHANGED file
          /\ lock = "owner" /\ lock' = "free"
          /\ pc' = [pc EXCEPT !["owner"] = "idle"]
          /\ snap' = [snap EXCEPT !["owner"] = {}] /\ doomed' = [doomed EXCEPT !["owner"] = {}]
          /\ fetch' = Store!NoFetch
      BY <1>6 DEF Store!Record, Store!Fetching, Store!Leaves, Store!Goes, Store!Release, Store!disk, StoreInv, Shape, Store!LockHeld, Fresh, Apart
    <2>2. \A a \in Store!Actors \ {"owner"} : pc[a] \notin Store!Inside
      BY <2>1 DEF StoreInv, Store!LockHeld
    <2>3. Shape' /\ Store!LockHeld' /\ Fresh' /\ Dropped' /\ Apart'
      BY <2>1, <2>2 DEF StoreInv, Shape, Store!LockHeld, Fresh, Dropped, Apart, Store!NoFetch
    <2>4. Store!IndexHasFiles'
      BY <2>1 DEF StoreInv, Store!IndexHasFiles
    <2> QED BY <2>3, <2>4 DEF StoreInv
  <1> QED BY <1>1, <1>2, <1>3, <1>4, <1>5, <1>6 DEF Store!Transfer

LEMMA WaitInv == ASSUME StoreInv, Store!TakeLock \/ Store!GiveUpLock \/ Store!Refuse PROVE StoreInv'
  <1>1. CASE Store!TakeLock
    BY <1>1 DEF Store!TakeLock, Store!Fetching, Store!Goes, Store!disk, StoreInv, Shape, Store!LockHeld, Fresh, Dropped, Apart, Store!IndexHasFiles
  <1>2. CASE Store!GiveUpLock \/ Store!Refuse
    BY <1>2, LeavesInv DEF Store!GiveUpLock, Store!Refuse, Store!disk, StoreInv, Shape
  <1> QED BY <1>1, <1>2

-----------------------------------------------------------------------------
(* Removal.                                                                *)

LEMMA DeleteInv == ASSUME StoreInv, NEW d \in Slots, Store!Delete(d) PROVE StoreInv'
  BY DEF Store!Delete, Store!Fetching, Store!Goes, Store!disk, StoreInv, Shape, Store!LockHeld, Fresh, Dropped, Apart, Store!IndexHasFiles

LEMMA GateInv == ASSUME StoreInv, NEW a \in Store!Actors, Store!Gate(a) PROVE StoreInv'
  <1>1. UNCHANGED <<file, index>>
    BY DEF Store!Gate, Store!disk
  <1>2. CASE Store!Leaves(a)
    BY <1>1, <1>2, LeavesInv DEF StoreInv, Shape
  <1>3. CASE Store!Goes(a, "gated") /\ UNCHANGED <<lock, snap, doomed, fetch>>
    BY <1>1, <1>3 DEF Store!Goes, StoreInv, Shape, Store!LockHeld, Fresh, Dropped, Apart, Store!IndexHasFiles
  <1> QED BY <1>2, <1>3 DEF Store!Gate

LEMMA WriteInv == ASSUME StoreInv, NEW a \in Store!Actors, Store!WriteIndex(a) PROVE StoreInv'
  <1>1. /\ pc[a] \in {"chosen", "delete"} /\ lock = a /\ snap[a] = index
        /\ pc[a] = "delete" => a = "owner"
    BY DEF Store!WriteIndex, Store!Chosen, StoreInv, Store!LockHeld, Fresh, Apart
  <1>2. /\ index' = index \ doomed[a]
        /\ pc' = [pc EXCEPT ![a] = IF pc[a] = "delete" THEN "deleted" ELSE "dropped"]
        /\ UNCHANGED <<file, lock, snap, doomed, fetch>>
    BY <1>1 DEF Store!WriteIndex, Store!Goes, Store!disk
  <1>3. \A b \in Store!Actors \ {a} : pc[b] \notin Store!Inside
    BY <1>1 DEF StoreInv, Store!LockHeld
  <1>4. Shape' /\ Store!LockHeld' /\ Store!IndexHasFiles'
    BY <1>1, <1>2 DEF StoreInv, Shape, Store!LockHeld, Store!IndexHasFiles
  <1>5. Fresh' /\ Dropped'
    BY <1>1, <1>2, <1>3 DEF StoreInv, Shape, Fresh, Dropped
  <1>6. Apart'
    BY <1>1, <1>2, <1>3 DEF StoreInv, Shape, Apart
  <1> QED BY <1>4, <1>5, <1>6 DEF StoreInv

LEMMA UnlinkInv == ASSUME StoreInv, NEW a \in Store!Actors, NEW d \in Slots, Store!Unlink(a, d) PROVE StoreInv'
  <1>1. /\ pc[a] \in {"dropped", "deleted"} /\ lock = a /\ d \notin index
        /\ UNCHANGED <<index, fetch>>
        /\ file' = file \/ file' = [file EXCEPT ![d] = "none"]
        /\ doomed' = [doomed EXCEPT ![a] = doomed[a] \ {d}]
        /\ pc["owner"] = "placed" => a = "owner"
    BY DEF Store!Unlink, Store!RemoveFile, Store!disk, StoreInv, Store!LockHeld, Dropped
  <1>2. \/ /\ pc' = [pc EXCEPT ![a] = "idle"] /\ lock' = "free"
           /\ snap' = [snap EXCEPT ![a] = {}]
        \/ UNCHANGED <<pc, lock, snap>>
    BY <1>1 DEF Store!Unlink, Store!Goes, Store!Release
  <1>3. Shape' /\ Store!LockHeld'
    BY <1>1, <1>2 DEF StoreInv, Shape, Store!LockHeld
  <1>4. Fresh' /\ Dropped'
    BY <1>1, <1>2 DEF StoreInv, Shape, Fresh, Dropped
  <1>5. Apart'
    BY <1>1, <1>2 DEF StoreInv, Shape, Apart
  <1>6. Store!IndexHasFiles'
    BY <1>1 DEF StoreInv, Shape, Store!IndexHasFiles
  <1> QED BY <1>3, <1>4, <1>5, <1>6 DEF StoreInv

LEMMA CleanInv == ASSUME StoreInv, NEW a \in Store!Actors, Store!Clean(a) PROVE StoreInv'
  <1>1. CASE Store!Choose(a)
    <2>1. Store!Retired(a) \subseteq Slots
      BY DEF Store!Retired, StoreInv, Shape
    <2> QED
      BY <1>1, <2>1
         DEF Store!Choose, Store!Goes, Store!disk, StoreInv, Shape, Store!LockHeld, Fresh, Dropped, Apart, Store!IndexHasFiles
  <1>2. CASE Store!NothingDue(a)
    BY <1>2 DEF Store!NothingDue, Store!Goes, Store!disk, StoreInv, Shape, Store!LockHeld, Fresh, Dropped, Apart, Store!IndexHasFiles
  <1>3. CASE Store!CleanFails(a) \/ Store!WriteFails(a)
    BY <1>3, LeavesInv DEF Store!CleanFails, Store!WriteFails, Store!disk, StoreInv, Shape
  <1> QED BY <1>1, <1>2, <1>3, WriteInv, UnlinkInv DEF Store!Clean

-----------------------------------------------------------------------------
(* Time and deaths.                                                        *)

LEMMA DiesInv == ASSUME StoreInv, NEW actors \in SUBSET Store!Actors, Store!Dies(actors) PROVE StoreInv'
  <1>1. Shape'
    BY DEF Store!Dies, Store!disk, StoreInv, Shape, Store!NoFetch
  <1>2. Store!LockHeld' /\ Fresh' /\ Dropped' /\ Store!IndexHasFiles'
    BY DEF Store!Dies, Store!disk, StoreInv, Shape, Store!LockHeld, Fresh, Dropped, Store!IndexHasFiles
  <1>3. Apart'
    BY DEF Store!Dies, Store!disk, StoreInv, Shape, Apart
  <1> QED BY <1>1, <1>2, <1>3 DEF StoreInv

LEMMA StepInv == StoreInv /\ [Store!Next]_downloads => StoreInv'
  <1> SUFFICES ASSUME StoreInv, [Store!Next]_downloads PROVE StoreInv'
    OBVIOUS
  <1>1. CASE Store!Tick \/ Store!QueueChanges \/ UNCHANGED downloads
    BY <1>1 DEF Store!Tick, Store!QueueChanges, downloads, Store!disk, Store!local, StoreInv, Shape,
                Store!LockHeld, Fresh, Dropped, Apart, Store!IndexHasFiles
  <1>2. CASE Store!BotDies \/ Store!TimerDies
    BY <1>2, DiesInv DEF Store!BotDies, Store!TimerDies, Store!InBot
  <1>3. CASE \E a \in Store!Actors : Store!Gate(a) \/ Store!Clean(a)
    BY <1>3, GateInv, CleanInv
  <1>4. CASE \E d \in Slots : (\E media \in BOOLEAN : Store!AskFetch(d, media)) \/ Store!Transfer(d)
    BY <1>4, TransferInv
  <1>5. CASE \E d \in Slots : Store!Delete(d)
    BY <1>5, DeleteInv
  <1>6. CASE Store!TakeLock \/ Store!GiveUpLock \/ Store!Refuse
    BY <1>6, WaitInv
  <1> QED
    BY <1>1, <1>2, <1>3, <1>4, <1>5, <1>6 DEF Store!Next

-----------------------------------------------------------------------------
(* The bytes of a set of files: what Bytes gives for any sizes.            *)

Total(sz, ds) == Cardinality(UNION {{d} \X (1..sz[d]) : d \in ds})
Sizes == [Slots -> 0..(MaxFile + 1)]

LEMMA BytesAreTotal == ASSUME NEW ds PROVE Store!Bytes(ds) = Total(size, ds)
  BY DEF Store!Bytes, Total, Store!Cardinality, Cardinality

\* A file's chunks are as many as its size says.
LEMMA OneFile ==
  ASSUME NEW n \in Nat, NEW d
  PROVE  IsFiniteSet({d} \X (1..n)) /\ Cardinality({d} \X (1..n)) = n
  <1> DEFINE f == [k \in 1..n |-> <<d, k>>]
  <1>1. f \in Bijection(1..n, {d} \X (1..n))
    <2>1. f \in [1..n -> {d} \X (1..n)]
      OBVIOUS
    <2>2. \A k, l \in 1..n : f[k] = f[l] => k = l
      OBVIOUS
    <2>3. \A p \in {d} \X (1..n) : p[2] \in 1..n /\ f[p[2]] = p
      OBVIOUS
    <2> HIDE DEF f
    <2> QED BY <2>1, <2>2, <2>3 DEF Bijection, Injection, Surjection, IsInjective
  <1>2. ExistsBijection(1..n, {d} \X (1..n))
    BY <1>1 DEF ExistsBijection
  <1>3. IsFiniteSet(1..n) /\ Cardinality(1..n) = n
    BY FS_Interval
  <1> QED BY <1>2, <1>3, FS_Bijection

LEMMA TotalFinite ==
  ASSUME NEW sz \in Sizes, NEW ds \in SUBSET Slots
  PROVE  IsFiniteSet(UNION {{d} \X (1..sz[d]) : d \in ds}) /\ Total(sz, ds) \in Nat
  <1>1. IsFiniteSet(Slots) /\ IsFiniteSet(1..(MaxFile + 1))
    BY StoreAssumption, FS_Interval
  <1>2. IsFiniteSet(Slots \X (1..(MaxFile + 1)))
    BY <1>1, FS_Product
  <1>3. UNION {{d} \X (1..sz[d]) : d \in ds} \subseteq Slots \X (1..(MaxFile + 1))
    BY StoreAssumption DEF Sizes
  <1>4. IsFiniteSet(UNION {{d} \X (1..sz[d]) : d \in ds})
    BY <1>2, <1>3, FS_Subset
  <1> QED BY <1>4, FS_CardinalityType DEF Total

\* Fewer files, or smaller ones, are no more bytes.
LEMMA TotalMonotone ==
  ASSUME NEW sz \in Sizes, NEW ds \in SUBSET Slots,
         NEW tz \in Sizes, NEW es \in SUBSET ds, \A d \in es : tz[d] <= sz[d]
  PROVE  Total(tz, es) <= Total(sz, ds)
  <1>1. UNION {{d} \X (1..tz[d]) : d \in es} \subseteq UNION {{d} \X (1..sz[d]) : d \in ds}
    BY StoreAssumption DEF Sizes
  <1> QED BY <1>1, TotalFinite, FS_Subset DEF Total

\* One more file is at most its size more.
LEMMA TotalOneMore ==
  ASSUME NEW sz \in Sizes, NEW ds \in SUBSET Slots, NEW d \in Slots
  PROVE  Total(sz, ds \cup {d}) <= Total(sz, ds) + sz[d]
  <1> DEFINE A == UNION {{e} \X (1..sz[e]) : e \in ds}
             B == {d} \X (1..sz[d])
  <1>1. UNION {{e} \X (1..sz[e]) : e \in ds \cup {d}} = A \cup B
    OBVIOUS
  <1>2. sz[d] \in Nat
    BY StoreAssumption DEF Sizes
  <1>3. IsFiniteSet(A) /\ IsFiniteSet(B) /\ Cardinality(B) = sz[d] /\ Cardinality(A) \in Nat
    BY <1>2, OneFile, TotalFinite, FS_CardinalityType
  <1>4. IsFiniteSet(A \cap B)
    BY <1>3, FS_Intersection
  <1>5. Cardinality(A \cap B) \in Nat
    BY <1>4, FS_CardinalityType
  <1>6. Cardinality(A \cup B) = Cardinality(A) + Cardinality(B) - Cardinality(A \cap B)
    BY <1>3, FS_Union
  <1> HIDE DEF A, B
  <1>7. Cardinality(A \cup B) <= Cardinality(A) + sz[d]
    BY <1>2, <1>3, <1>5, <1>6
  <1> QED BY <1>1, <1>7 DEF Total, A

-----------------------------------------------------------------------------
(* The quota: what is recorded, or was and is not unlinked yet, keeps to   *)
(* it, and a transfer was promised no more than the rest.                  *)

Sized ==
    /\ size \in Sizes
    /\ \A d \in Slots : file[d] = "none" => size[d] = 0

Planned ==
    /\ \A a \in Store!Actors :
          pc[a] \notin {"chosen", "dropped", "delete", "deleted"} => doomed[a] = {}
    /\ IF pc["owner"] \in {"waiting", "open", "streaming", "placed"}
         THEN \E d \in Slots : /\ fetch.slot = {d}
                               /\ pc["owner"] \in {"waiting", "open"} => file[d] = "none"
                               /\ pc["owner"] = "streaming" => file[d] = "part"
         ELSE fetch.slot = {}

Within == \A a \in Store!Actors : Total(size, index \cup doomed[a]) <= MaxTotal

Promised ==
    /\ budget \in 0..MaxFile
    /\ pc["owner"] \in {"streaming", "placed"} =>
          /\ Total(size, index) + budget <= MaxTotal
          /\ (pc["owner"] = "streaming" /\ fetch.media) \/ \A d \in fetch.slot : size[d] <= budget

QuotaInv == Sized /\ Planned /\ Within /\ Promised

\* While a transfer is under way nobody retires anything.
LEMMA TransferAlone ==
  ASSUME StoreInv, QuotaInv, pc["owner"] \in {"open", "streaming", "placed"}
  PROVE  \A a \in Store!Actors : doomed[a] = {}
  BY DEF StoreInv, Shape, Store!LockHeld, QuotaInv, Planned

\* With the invariant, what is stored and not astray keeps to the quota.
LEMMA QuotaSuffices == StoreInv /\ QuotaInv => Store!BudgetKept
  <1> DEFINE K == {d \in Slots : file[d] # "none"} \ Store!Strays
  <1> SUFFICES ASSUME StoreInv, QuotaInv, pc["owner"] = "streaming" => ~fetch.media
               PROVE  Total(size, K) <= MaxTotal
    BY Zenon, BytesAreTotal DEF Store!BudgetKept
  <1>0. /\ size \in Sizes /\ index \subseteq Slots /\ K \subseteq Slots
        /\ \A a \in Store!Actors : doomed[a] \subseteq Slots
        /\ MaxTotal \in Nat
    BY StoreAssumption DEF StoreInv, Shape, QuotaInv, Sized
  <1>1. \A d \in K : d \in index \/ d \in fetch.slot \/ \E a \in Store!Actors : d \in doomed[a]
    BY DEF Store!Strays
  <1>2. CASE pc["owner"] \in {"streaming", "placed"}
    <2>1. PICK d \in Slots : fetch.slot = {d}
      BY <1>2 DEF QuotaInv, Planned
    <2>2. K \subseteq index \cup {d}
      BY <1>1, <1>2, <2>1, TransferAlone
    <2>3. Total(size, K) <= Total(size, index \cup {d})
      BY <1>0, <2>2, TotalMonotone DEF Sizes
    <2>4. Total(size, index \cup {d}) <= Total(size, index) + size[d]
      BY <1>0, TotalOneMore
    <2>5. Total(size, index) + budget <= MaxTotal /\ size[d] <= budget
      BY <1>2, <2>1 DEF QuotaInv, Promised
    <2>6. /\ Total(size, K) \in Nat /\ Total(size, index \cup {d}) \in Nat
          /\ Total(size, index) \in Nat
      <3>1. index \cup {d} \subseteq Slots
        BY <1>0
      <3> HIDE DEF K
      <3> QED BY <1>0, <3>1, TotalFinite
    <2>7. size[d] \in Nat /\ budget \in Nat
      BY <1>0, StoreAssumption DEF Sizes, QuotaInv, Promised
    <2> HIDE DEF K
    <2> QED BY <1>0, <2>3, <2>4, <2>5, <2>6, <2>7
  <1>3. CASE pc["owner"] \notin {"streaming", "placed"}
    <2>1. \A d \in K : d \notin fetch.slot
      BY <1>3 DEF QuotaInv, Planned
    <2>2. \E a \in Store!Actors : \A b \in Store!Actors : a = b \/ doomed[b] = {}
      BY DEF StoreInv, Store!LockHeld, QuotaInv, Planned
    <2>3. PICK a \in Store!Actors : K \subseteq index \cup doomed[a]
      BY <1>1, <2>1, <2>2
    <2>4. Total(size, K) <= Total(size, index \cup doomed[a])
      BY <1>0, <2>3, TotalMonotone DEF Sizes
    <2>5. Total(size, index \cup doomed[a]) <= MaxTotal
      BY DEF QuotaInv, Within
    <2>6. Total(size, K) \in Nat /\ Total(size, index \cup doomed[a]) \in Nat
      BY <1>0, TotalFinite
    <2> HIDE DEF K
    <2> QED BY <1>0, <2>4, <2>5, <2>6
  <1> QED BY <1>2, <1>3

LEMMA QuotaStarts == Store!Init => QuotaInv
  <1> SUFFICES ASSUME Store!Init PROVE QuotaInv
    OBVIOUS
  <1>1. /\ size = [d \in Slots |-> 0] /\ index = {} /\ fetch.slot = {} /\ budget = 0
        /\ \A a \in Store!Actors : doomed[a] = {} /\ pc[a] = "idle"
    BY DEF Store!Init, Store!NoFetch
  <1>2. Sized
    BY <1>1, StoreAssumption DEF Sized, Sizes
  <1>3. Planned /\ Promised
    BY <1>1, StoreAssumption DEF Planned, Promised
  <1>4. Total(size, {}) = 0
    BY FS_EmptySet DEF Total
  <1>5. Within
    BY <1>1, <1>4, StoreAssumption DEF Within
  <1> QED BY <1>2, <1>3, <1>5 DEF QuotaInv

\* An actor that leaves its operation gives up what it would retire and what it
\* was promised.
LEMMA LeavesQuota ==
  ASSUME StoreInv, QuotaInv, NEW a \in Store!Actors, Store!Leaves(a), UNCHANGED index, Sized',
         \A d \in Slots : size'[d] <= size[d],
         \A d \in Slots : file'[d] = "none" \/ file'[d] = file[d],
         a # "owner" => UNCHANGED <<file, size>>
  PROVE  QuotaInv'
  <1>1. /\ pc' = [pc EXCEPT ![a] = "idle"] /\ doomed' = [doomed EXCEPT ![a] = {}]
        /\ fetch' = IF a = "owner" THEN Store!NoFetch ELSE fetch
        /\ budget' = IF a = "owner" THEN 0 ELSE budget
        /\ pc \in [Store!Actors -> Store!Points] /\ doomed \in [Store!Actors -> SUBSET Slots]
        /\ index \subseteq Slots
    BY DEF Store!Leaves, Store!Goes, StoreInv, Shape
  <1>2. Planned'
    <2>1. CASE a = "owner"
      BY <1>1, <2>1 DEF QuotaInv, Planned, Store!NoFetch
    <2>2. CASE a # "owner"
      BY <1>1, <2>2 DEF QuotaInv, Planned
    <2> QED BY <2>1, <2>2
  <1>3. Within'
    <2> SUFFICES ASSUME NEW b \in Store!Actors PROVE Total(size', index' \cup doomed'[b]) <= MaxTotal
      BY DEF Within
    <2>1. index' \cup doomed'[b] \subseteq index \cup doomed[b] /\ index \cup doomed[b] \subseteq Slots
      BY <1>1
    <2>2. Total(size', index' \cup doomed'[b]) <= Total(size, index \cup doomed[b])
      BY <2>1, TotalMonotone DEF QuotaInv, Sized
    <2>3. Total(size, index \cup doomed[b]) <= MaxTotal
      BY DEF QuotaInv, Within
    <2>4. /\ Total(size', index' \cup doomed'[b]) \in Nat /\ Total(size, index \cup doomed[b]) \in Nat
          /\ MaxTotal \in Nat
      BY <2>1, TotalFinite, StoreAssumption DEF QuotaInv, Sized
    <2> QED BY <2>2, <2>3, <2>4
  <1>4. Promised'
    <2>1. CASE a = "owner"
      BY <1>1, <2>1, StoreAssumption DEF Promised
    <2>2. CASE a # "owner"
      BY <1>1, <2>2 DEF QuotaInv, Promised
    <2> QED BY <2>1, <2>2
  <1> QED BY <1>2, <1>3, <1>4 DEF QuotaInv

\* A file removed has no size.
LEMMA RemovedSized ==
  ASSUME Shape, Sized, NEW d \in Slots, Store!RemoveFile(d)
  PROVE  /\ Sized'
         /\ \A e \in Slots : size'[e] <= size[e] /\ (file'[e] = "none" \/ file'[e] = file[e])
         /\ file' = [file EXCEPT ![d] = "none"] /\ size' = [size EXCEPT ![d] = 0]
  BY StoreAssumption DEF Shape, Sized, Sizes, Store!RemoveFile

-----------------------------------------------------------------------------
(* The steps of a transfer.                                                *)

LEMMA AskQuota ==
  ASSUME StoreInv, QuotaInv,
         \/ \E d \in Slots, media \in BOOLEAN : Store!AskFetch(d, media)
         \/ Store!TakeLock \/ Store!GiveUpLock \/ Store!Refuse
  PROVE  QuotaInv'
  <1>1. CASE \E d \in Slots, media \in BOOLEAN : Store!AskFetch(d, media)
    <2>1. PICK d \in Slots : /\ file[d] = "none" /\ fetch'.slot = {d} /\ pc["owner"] = "idle"
                             /\ pc' = [pc EXCEPT !["owner"] = "waiting"]
                             /\ UNCHANGED <<file, size, index, doomed, budget>>
      BY <1>1 DEF Store!AskFetch, Store!Fetching, Store!Goes, Store!disk
    <2>2. Planned' /\ Promised'
      BY <2>1 DEF StoreInv, Shape, QuotaInv, Planned, Promised
    <2> QED BY <2>1, <2>2 DEF QuotaInv, Sized, Within
  <1>2. CASE Store!TakeLock
    BY <1>2 DEF Store!TakeLock, Store!Fetching, Store!Goes, Store!disk, StoreInv, Shape,
                QuotaInv, Sized, Planned, Within, Promised
  <1>3. CASE Store!GiveUpLock \/ Store!Refuse
    <2>1. Store!Leaves("owner") /\ UNCHANGED <<file, size, index>>
      BY <1>3 DEF Store!GiveUpLock, Store!Refuse, Store!disk
    <2>2. Sized' /\ \A d \in Slots : size'[d] <= size[d]
      BY <2>1, StoreAssumption DEF QuotaInv, Sized, Sizes
    <2> QED BY <2>1, <2>2, LeavesQuota
  <1> QED BY <1>1, <1>2, <1>3

\* A transfer is promised at most the rest of the quota.
LEMMA StartQuota == ASSUME StoreInv, QuotaInv, NEW d \in Slots, Store!StartTransfer(d) PROVE QuotaInv'
  <1>1. /\ fetch.slot = {d} /\ pc["owner"] = "open" /\ file[d] = "none"
        /\ budget' = Store!Budget /\ Store!Budget > 0
        /\ file' = [file EXCEPT ![d] = "part"]
        /\ pc' = [pc EXCEPT !["owner"] = "streaming"]
        /\ UNCHANGED <<size, index, doomed, fetch>>
    BY DEF Store!StartTransfer, Store!Fetching, Store!Goes, QuotaInv, Planned
  <1>2. /\ Store!Bytes(index) = Total(size, index) /\ Total(size, index) \in Nat
        /\ MaxFile \in Nat /\ MaxTotal \in Nat
    BY BytesAreTotal, TotalFinite, StoreAssumption DEF StoreInv, Shape, QuotaInv, Sized
  <1>3. budget' \in 0..MaxFile /\ Total(size, index) + budget' <= MaxTotal
    BY <1>1, <1>2 DEF Store!Budget
  <1>4. size[d] = 0
    BY <1>1 DEF QuotaInv, Sized
  <1>5. Promised'
    BY <1>1, <1>3, <1>4 DEF Promised
  <1>6. Sized' /\ Planned'
    BY <1>1 DEF StoreInv, Shape, QuotaInv, Sized, Planned
  <1> QED BY <1>1, <1>5, <1>6 DEF QuotaInv, Within

LEMMA ChunkQuota == ASSUME StoreInv, QuotaInv, NEW d \in Slots, Store!Chunk(d) PROVE QuotaInv'
  <1>1. /\ fetch.slot = {d} /\ pc["owner"] = "streaming" /\ d \notin index
        /\ size[d] < budget + (IF fetch.media THEN 1 ELSE 0)
        /\ size' = [size EXCEPT ![d] = size[d] + 1]
        /\ UNCHANGED <<file, index, pc, doomed, fetch, budget>>
    BY DEF Store!Chunk, Store!Fetching, Store!local, StoreInv, Apart
  <1>2. /\ budget \in 0..MaxFile /\ MaxFile \in Nat /\ size[d] \in Nat /\ size \in Sizes
        /\ index \subseteq Slots /\ fetch.media \in BOOLEAN
    BY StoreAssumption DEF StoreInv, Shape, QuotaInv, Sized, Sizes, Promised
  <1>3. size[d] + 1 \in 0..(MaxFile + 1) /\ (~fetch.media => size[d] + 1 <= budget)
    BY <1>1, <1>2
  <1>4. size' \in Sizes
    BY <1>1, <1>2, <1>3 DEF Sizes
  <1>5. file[d] # "none"
    BY <1>1 DEF QuotaInv, Planned
  <1>6. Sized'
    BY <1>1, <1>2, <1>4, <1>5 DEF QuotaInv, Sized, Sizes
  <1>7. \A a \in Store!Actors : doomed[a] = {}
    BY <1>1, TransferAlone
  <1>8. Total(size', index) <= Total(size, index)
    <2>1. \A e \in index : size'[e] <= size[e]
      BY <1>1, <1>2, StoreAssumption DEF Sizes
    <2> QED BY <1>2, <1>4, <2>1, TotalMonotone
  <1>9. Total(size', index) \in Nat /\ Total(size, index) \in Nat /\ MaxTotal \in Nat
    BY <1>2, <1>4, TotalFinite, StoreAssumption
  <1>10. Total(size, index) + budget <= MaxTotal
    BY <1>1 DEF QuotaInv, Promised
  <1>11. Total(size', index) + budget <= MaxTotal /\ Total(size', index) <= MaxTotal
    BY <1>2, <1>8, <1>9, <1>10
  <1>12. Within'
    BY <1>1, <1>7, <1>11 DEF Within
  <1>13. Promised'
    BY <1>1, <1>2, <1>3, <1>11 DEF QuotaInv, Promised, Sizes
  <1>14. Planned'
    BY <1>1 DEF QuotaInv, Planned
  <1> QED BY <1>6, <1>12, <1>13, <1>14 DEF QuotaInv

LEMMA FailQuota ==
  ASSUME StoreInv, QuotaInv, NEW d \in Slots, Store!TransferFails(d) \/ Store!RecordFails(d)
  PROVE  QuotaInv'
  <1>1. Store!RemoveFile(d) /\ Store!Leaves("owner") /\ UNCHANGED index
    BY DEF Store!TransferFails, Store!RecordFails
  <1>2. Shape /\ Sized
    BY DEF StoreInv, QuotaInv
  <1> QED BY <1>1, <1>2, RemovedSized, LeavesQuota

LEMMA PlaceQuota == ASSUME StoreInv, QuotaInv, NEW d \in Slots, Store!Place(d) PROVE QuotaInv'
  <1>1. /\ fetch.slot = {d} /\ pc["owner"] = "streaming" /\ size[d] <= budget
        /\ file' = [file EXCEPT ![d] = "final"]
        /\ pc' = [pc EXCEPT !["owner"] = "placed"]
        /\ UNCHANGED <<size, index, doomed, fetch, budget>>
    BY DEF Store!Place, Store!Fetching, Store!Goes
  <1>2. Sized' /\ Planned' /\ Promised'
    BY <1>1 DEF StoreInv, Shape, QuotaInv, Sized, Planned, Promised
  <1> QED BY <1>1, <1>2 DEF QuotaInv, Within

\* What is recorded is no more than what was promised.
LEMMA RecordQuota == ASSUME StoreInv, QuotaInv, NEW d \in Slots, Store!Record(d) PROVE QuotaInv'
  <1>1. /\ fetch.slot = {d} /\ pc["owner"] = "placed" /\ index' = index \cup {d}
        /\ pc' = [pc EXCEPT !["owner"] = "idle"] /\ doomed' = [doomed EXCEPT !["owner"] = {}]
        /\ fetch' = Store!NoFetch /\ budget' = 0
        /\ UNCHANGED <<file, size>>
    BY DEF Store!Record, Store!Fetching, Store!Leaves, Store!Goes, Store!disk, StoreInv, Fresh
  <1>2. \A a \in Store!Actors : doomed[a] = {}
    BY <1>1, TransferAlone
  <1>3. \A a \in Store!Actors : doomed'[a] = {}
    BY <1>1, <1>2 DEF StoreInv, Shape
  <1>4. Total(size, index) + budget <= MaxTotal /\ size[d] <= budget
    BY <1>1 DEF QuotaInv, Promised
  <1>5. Total(size, index \cup {d}) <= Total(size, index) + size[d]
    BY TotalOneMore DEF StoreInv, Shape, QuotaInv, Sized
  <1>6. /\ Total(size, index \cup {d}) \in Nat /\ Total(size, index) \in Nat
        /\ size[d] \in Nat /\ budget \in Nat /\ MaxTotal \in Nat
    <2>1. index \subseteq Slots /\ index \cup {d} \subseteq Slots /\ size \in Sizes
      BY DEF StoreInv, Shape, QuotaInv, Sized
    <2>2. size[d] \in Nat /\ budget \in Nat /\ MaxTotal \in Nat
      BY <2>1, StoreAssumption DEF Sizes, QuotaInv, Promised
    <2> QED BY <2>1, <2>2, TotalFinite
  <1>7. Total(size, index \cup {d}) <= MaxTotal
    BY <1>4, <1>5, <1>6
  <1>8. Within'
    BY <1>1, <1>3, <1>7 DEF Within
  <1>9. Sized' /\ Planned' /\ Promised'
    BY <1>1, <1>3, StoreAssumption
       DEF StoreInv, Shape, QuotaInv, Sized, Planned, Promised, Store!NoFetch
  <1> QED BY <1>8, <1>9 DEF QuotaInv

-----------------------------------------------------------------------------
(* The steps of a removal.                                                 *)

\* Who begins to retire files retires recorded ones.
LEMMA RetireQuota ==
  ASSUME StoreInv, QuotaInv, NEW a \in Store!Actors,
         (\E d \in Slots : a = "owner" /\ Store!Delete(d)) \/ Store!Choose(a)
  PROVE  QuotaInv'
  <1>1. PICK ds \in SUBSET index : doomed' = [doomed EXCEPT ![a] = ds]
    BY DEF Store!Delete, Store!Choose, Store!Retired
  <1>2. /\ pc' = [pc EXCEPT ![a] = IF pc[a] = "gated" THEN "chosen" ELSE "delete"]
        /\ pc[a] = "gated" \/ (a = "owner" /\ pc[a] = "idle")
        /\ UNCHANGED <<file, size, index, fetch, budget>>
    BY DEF Store!Delete, Store!Choose, Store!Fetching, Store!Goes, Store!disk
  <1>3. \A b \in Store!Actors : index' \cup doomed'[b] = index \/ doomed'[b] = doomed[b]
    BY <1>1, <1>2 DEF StoreInv, Shape
  <1>4. doomed[a] = {}
    BY <1>2 DEF QuotaInv, Planned
  <1>5. Total(size, index) <= MaxTotal
    <2>1. index \cup doomed[a] = index
      BY <1>4
    <2> QED BY <2>1 DEF QuotaInv, Within
  <1>6. Within'
    BY <1>2, <1>3, <1>5 DEF QuotaInv, Within
  <1>7. Planned'
    BY <1>1, <1>2 DEF StoreInv, Shape, QuotaInv, Planned
  <1>8. Sized' /\ Promised'
    BY <1>2 DEF StoreInv, Shape, QuotaInv, Sized, Promised
  <1> QED BY <1>6, <1>7, <1>8 DEF QuotaInv

LEMMA GateQuota ==
  ASSUME StoreInv, QuotaInv, NEW a \in Store!Actors,
         Store!Gate(a) \/ Store!NothingDue(a) \/ Store!CleanFails(a) \/ Store!WriteFails(a)
  PROVE  QuotaInv'
  <1>1. UNCHANGED <<file, size, index>>
    BY DEF Store!Gate, Store!NothingDue, Store!CleanFails, Store!WriteFails, Store!disk
  <1>2. CASE Store!Leaves(a)
    <2>1. Sized' /\ \A d \in Slots : size'[d] <= size[d]
      BY <1>1, StoreAssumption DEF QuotaInv, Sized, Sizes
    <2> QED BY <1>1, <1>2, <2>1, LeavesQuota
  <1>3. CASE /\ pc[a] \in {"idle", "gated"} /\ pc' = [pc EXCEPT ![a] = pc'[a]]
             /\ pc'[a] \in {"idle", "gated"} /\ UNCHANGED <<doomed, fetch, budget>>
    BY <1>1, <1>3 DEF StoreInv, Shape, QuotaInv, Sized, Planned, Within, Promised
  <1>4. pc \in [Store!Actors -> Store!Points]
    BY DEF StoreInv, Shape
  <1> QED
    BY <1>2, <1>3, <1>4 DEF Store!Gate, Store!NothingDue, Store!CleanFails, Store!WriteFails, Store!Goes

\* What the index loses is still to be unlinked.
LEMMA WriteQuota == ASSUME StoreInv, QuotaInv, NEW a \in Store!Actors, Store!WriteIndex(a) PROVE QuotaInv'
  <1>1. /\ pc[a] \in {"chosen", "delete"} /\ snap[a] = index /\ lock = a
    BY DEF Store!WriteIndex, Store!Chosen, StoreInv, Store!LockHeld, Fresh
  <1>2. /\ index' = index \ doomed[a]
        /\ pc' = [pc EXCEPT ![a] = IF pc[a] = "delete" THEN "deleted" ELSE "dropped"]
        /\ UNCHANGED <<file, size, doomed, fetch, budget>>
    BY <1>1 DEF Store!WriteIndex, Store!Goes, Store!disk
  <1>3. pc["owner"] \notin {"streaming", "placed"}
    BY <1>1 DEF StoreInv, Store!LockHeld
  <1>4. Within'
    <2> SUFFICES ASSUME NEW b \in Store!Actors PROVE Total(size, index' \cup doomed[b]) <= MaxTotal
      BY <1>2 DEF Within
    <2>1. index' \cup doomed[b] \subseteq index \cup doomed[b] /\ index \cup doomed[b] \subseteq Slots
      BY <1>2 DEF StoreInv, Shape
    <2>2. size \in Sizes /\ \A d \in Slots : size[d] <= size[d]
      BY StoreAssumption DEF QuotaInv, Sized, Sizes
    <2>3. Total(size, index' \cup doomed[b]) <= Total(size, index \cup doomed[b])
      BY <2>1, <2>2, TotalMonotone
    <2>4. Total(size, index \cup doomed[b]) <= MaxTotal
      BY DEF QuotaInv, Within
    <2>5. /\ Total(size, index' \cup doomed[b]) \in Nat /\ Total(size, index \cup doomed[b]) \in Nat
          /\ MaxTotal \in Nat
      BY <2>1, <2>2, TotalFinite, StoreAssumption
    <2> QED BY <2>3, <2>4, <2>5
  <1>5. Sized' /\ Planned' /\ Promised'
    BY <1>1, <1>2, <1>3 DEF StoreInv, Shape, QuotaInv, Sized, Planned, Promised
  <1> QED BY <1>4, <1>5 DEF QuotaInv

LEMMA UnlinkQuota ==
  ASSUME StoreInv, QuotaInv, NEW a \in Store!Actors, NEW e \in Slots, Store!Unlink(a, e)
  PROVE  QuotaInv'
  <1>1. /\ pc[a] \in {"dropped", "deleted"} /\ lock = a
        /\ UNCHANGED <<index, fetch, budget>>
        /\ Store!RemoveFile(e) \/ UNCHANGED <<file, size>>
        /\ doomed' = [doomed EXCEPT ![a] = doomed[a] \ {e}]
        /\ \/ UNCHANGED pc
           \/ pc' = [pc EXCEPT ![a] = "idle"] /\ doomed[a] \ {e} = {}
    BY DEF Store!Unlink, Store!disk, Store!Goes, StoreInv, Store!LockHeld
  <1>2. Shape /\ Sized
    BY DEF StoreInv, QuotaInv
  <1>3. /\ Sized' /\ \A d \in Slots : size'[d] <= size[d]
        /\ \A d \in Slots : file'[d] = "none" \/ file'[d] = file[d]
    <2>1. CASE Store!RemoveFile(e)
      BY <1>2, <2>1, RemovedSized
    <2>2. CASE UNCHANGED <<file, size>>
      BY <1>2, <2>2, StoreAssumption DEF Sized, Sizes
    <2> QED BY <1>1, <2>1, <2>2
  <1>4. pc["owner"] \notin {"open", "streaming", "placed"} /\ pc'["owner"] \notin {"open", "streaming", "placed"}
    BY <1>1 DEF StoreInv, Shape, Store!LockHeld
  <1>5. Promised'
    BY <1>1, <1>4 DEF QuotaInv, Promised
  <1>6. Planned'
    <2>1. \A b \in Store!Actors :
            pc'[b] \notin {"chosen", "dropped", "delete", "deleted"} => doomed'[b] = {}
      BY <1>1, <1>2 DEF Shape, QuotaInv, Planned
    <2>2. pc'["owner"] = "waiting" <=> pc["owner"] = "waiting"
      BY <1>1, <1>2 DEF Shape
    <2>3. CASE pc["owner"] = "waiting"
      <3>1. PICK d \in Slots : fetch.slot = {d} /\ file[d] = "none"
        BY <2>3 DEF QuotaInv, Planned
      <3>2. fetch'.slot = {d} /\ file'[d] = "none"
        BY <1>1, <1>3, <3>1
      <3> QED BY <2>1, <2>2, <2>3, <3>2 DEF Planned
    <2>4. CASE pc["owner"] # "waiting"
      <3>1. fetch'.slot = {}
        BY <1>1, <1>4, <2>4 DEF QuotaInv, Planned
      <3> QED BY <1>4, <2>1, <2>2, <2>4, <3>1 DEF Planned
    <2> QED BY <2>3, <2>4
  <1>7. Within'
    <2> SUFFICES ASSUME NEW b \in Store!Actors PROVE Total(size', index' \cup doomed'[b]) <= MaxTotal
      BY DEF Within
    <2>1. index' \cup doomed'[b] \subseteq index \cup doomed[b] /\ index \cup doomed[b] \subseteq Slots
      BY <1>1, <1>2 DEF Shape
    <2>2. Total(size', index' \cup doomed'[b]) <= Total(size, index \cup doomed[b])
      BY <1>2, <1>3, <2>1, TotalMonotone DEF Sized
    <2>3. Total(size, index \cup doomed[b]) <= MaxTotal
      BY DEF QuotaInv, Within
    <2>4. /\ Total(size', index' \cup doomed'[b]) \in Nat /\ Total(size, index \cup doomed[b]) \in Nat
          /\ MaxTotal \in Nat
      BY <1>2, <1>3, <2>1, TotalFinite, StoreAssumption DEF Sized
    <2> QED BY <2>2, <2>3, <2>4
  <1> QED BY <1>3, <1>5, <1>6, <1>7 DEF QuotaInv

\* A death leaves on disk what is recorded, and strays.
LEMMA DiesQuota == ASSUME StoreInv, QuotaInv, NEW actors \in SUBSET Store!Actors, Store!Dies(actors) PROVE QuotaInv'
  <1>1. /\ pc' = [a \in Store!Actors |-> IF a \in actors THEN "idle" ELSE pc[a]]
        /\ doomed' = [a \in Store!Actors |-> IF a \in actors THEN {} ELSE doomed[a]]
        /\ fetch' = IF "owner" \in actors THEN Store!NoFetch ELSE fetch
        /\ budget' = IF "owner" \in actors THEN 0 ELSE budget
        /\ UNCHANGED <<file, size, index>>
    BY DEF Store!Dies, Store!disk
  <1>2. Sized' /\ Promised'
    BY <1>1, StoreAssumption DEF QuotaInv, Sized, Promised
  <1>3. Planned'
    BY <1>1 DEF QuotaInv, Planned, Store!NoFetch
  <1>4. Within'
    <2> SUFFICES ASSUME NEW b \in Store!Actors PROVE Total(size, index \cup doomed'[b]) <= MaxTotal
      BY <1>1 DEF Within
    <2>1. CASE b \notin actors
      BY <1>1, <2>1 DEF QuotaInv, Within
    <2>2. CASE b \in actors
      <3>1. index \cup doomed'[b] \subseteq index \cup doomed[b] /\ index \cup doomed[b] \subseteq Slots
        BY <1>1, <2>2 DEF StoreInv, Shape
      <3>2. size \in Sizes /\ \A d \in Slots : size[d] <= size[d]
        BY StoreAssumption DEF QuotaInv, Sized, Sizes
      <3>3. Total(size, index \cup doomed'[b]) <= Total(size, index \cup doomed[b])
        BY <3>1, <3>2, TotalMonotone
      <3>4. Total(size, index \cup doomed[b]) <= MaxTotal
        BY DEF QuotaInv, Within
      <3>5. /\ Total(size, index \cup doomed'[b]) \in Nat /\ Total(size, index \cup doomed[b]) \in Nat
            /\ MaxTotal \in Nat
        BY <3>1, <3>2, TotalFinite, StoreAssumption
      <3> QED BY <3>3, <3>4, <3>5
    <2> QED BY <2>1, <2>2
  <1> QED BY <1>2, <1>3, <1>4 DEF QuotaInv

LEMMA QuotaStep == StoreInv /\ QuotaInv /\ [Store!Next]_downloads => QuotaInv'
  <1> SUFFICES ASSUME StoreInv, QuotaInv, [Store!Next]_downloads PROVE QuotaInv'
    OBVIOUS
  <1>1. CASE Store!Tick \/ Store!QueueChanges \/ UNCHANGED downloads
    <2>1. UNCHANGED <<file, size, index, pc, doomed, fetch, budget>>
      BY <1>1 DEF Store!Tick, Store!QueueChanges, downloads, Store!disk, Store!local
    <2> QED BY <2>1 DEF QuotaInv, Sized, Planned, Within, Promised
  <1>2. CASE Store!BotDies \/ Store!TimerDies
    BY <1>2, DiesQuota DEF Store!BotDies, Store!TimerDies, Store!InBot
  <1>3. CASE \E a \in Store!Actors : Store!Gate(a) \/ Store!Clean(a)
    BY <1>3, GateQuota, RetireQuota, WriteQuota, UnlinkQuota DEF Store!Clean
  <1>4. CASE \E d \in Slots : Store!Transfer(d)
    BY <1>4, StartQuota, ChunkQuota, FailQuota, PlaceQuota, RecordQuota DEF Store!Transfer
  <1>5. CASE \E d \in Slots : Store!Delete(d)
    BY <1>5, RetireQuota
  <1>6. CASE \/ \E d \in Slots, media \in BOOLEAN : Store!AskFetch(d, media)
             \/ Store!TakeLock \/ Store!GiveUpLock \/ Store!Refuse
    BY <1>6, AskQuota
  <1> QED
    BY <1>1, <1>2, <1>3, <1>4, <1>5, <1>6 DEF Store!Next

-----------------------------------------------------------------------------
(* The theorems.                                                           *)

\* Reminders and schedules leave the downloads alone.
LEMMA DownloadsAlone == ASSUME [AllNext]_allVars PROVE [Store!Next]_downloads
  BY DEF AllNext, allVars, OnlyReminders, OnlySchedules, OnlyDownloads

\* The inductive invariants hold in every reachable state.
THEOREM StoreInvariant == AllSpec => [](StoreInv /\ QuotaInv)
  <1>1. AllInit => StoreInv /\ QuotaInv
    BY StoreStarts, QuotaStarts DEF AllInit
  <1>2. StoreInv /\ QuotaInv /\ [AllNext]_allVars => (StoreInv /\ QuotaInv)'
    BY DownloadsAlone, StepInv, QuotaStep
  <1> QED BY <1>1, <1>2, PTL DEF AllSpec

\* Only the holder of the storage lock is between taking it and releasing it:
\* the bot's handler and clean-ups, the timer's process, also after deaths.
THEOREM StorageExclusive == AllSpec => []Store!LockHeld
  <1>1. StoreInv => Store!LockHeld
    BY DEF StoreInv
  <1> QED BY <1>1, StoreInvariant, PTL

\* Every record of index.json has its file at every instant: no order of a
\* fetch, a delete, clean-ups and deaths makes _read_index refuse the index for
\* a missing file.
THEOREM RecordsHaveFiles == AllSpec => []Store!IndexHasFiles
  <1>1. StoreInv => Store!IndexHasFiles
    BY DEF StoreInv
  <1> QED BY <1>1, StoreInvariant, PTL

\* Every record has its file; and what is stored keeps to max_total_bytes, while others
\* retire files and while a transfer is under way.
THEOREM StoreIsKept == AllSpec => []StoreKept
  <1>1. StoreInv /\ QuotaInv => StoreKept
    BY QuotaSuffices DEF StoreInv, StoreKept, Store!StoreKept
  <1> QED BY <1>1, StoreInvariant, PTL

=============================================================================
