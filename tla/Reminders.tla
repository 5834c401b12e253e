------------------------------ MODULE Reminders ------------------------------
(***************************************************************************)
(* Reminders (bridge/services/reminder_service.py, reminder_plugin.py,     *)
(* bridge/telegram/commands/reminders.py): a table of one-off reminders    *)
(* and the one scheduler coroutine that claims the due ones in a batch and *)
(* delivers them one after the other.                                      *)
(*                                                                         *)
(* A store operation is one transaction, so one action.  Between two of    *)
(* them the scheduler is inside send_message, and the owner's commands run *)
(* in the meantime.                                                        *)
(***************************************************************************)
EXTENDS Integers, Sequences, FiniteSets

CONSTANTS
    Reminders,      \* ids, in the order of their creation
    MaxClock,       \* bound on the clock; a reminder is due at 1..MaxClock
    MaxAttempts,    \* MAX_ATTEMPTS
    BatchLimit,     \* limit of claim_due
    MaxCrashes,     \* bound on crashes of the bot
    MaxStoreErrors, \* bound on transactions that raise
    AnswersMayBeLost \* whether send_message may raise after Telegram delivered

ASSUME ReminderAssumption ==
    /\ Reminders \subseteq Nat
    /\ MaxClock \in Nat /\ MaxAttempts \in Nat \ {0} /\ BatchLimit \in Nat \ {0}
    /\ MaxCrashes \in Nat /\ MaxStoreErrors \in Nat /\ AnswersMayBeLost \in BOOLEAN

Statuses == {"none", "pending", "sending", "sent", "failed", "cancelled"}

VARIABLES
    status,    \* reminders.status; "none" before the row exists
    dueAt,     \* reminders.remind_at
    attempts,  \* reminders.attempts
    clock,
    batch,     \* run_once: the claimed reminders still to deliver
    outcome,   \* run_once: "none", or what send did with Head(batch)
    sends,     \* messages handed to Telegram for a reminder (for the properties)
    crashes, storeErrors

rows == <<status, dueAt, attempts>>
vars == <<rows, clock, batch, outcome, sends, crashes, storeErrors>>

Init ==
    /\ status = [r \in Reminders |-> "none"]
    /\ dueAt = [r \in Reminders |-> 0]
    /\ attempts = [r \in Reminders |-> 0]
    /\ clock = 0
    /\ batch = <<>> /\ outcome = "none"
    /\ sends = [r \in Reminders |-> 0]
    /\ crashes = 0 /\ storeErrors = 0

-----------------------------------------------------------------------------
(* The owner's commands *)

\* Whatever its form, a parsed time lies ahead; a horizon of a year bounds it
Ahead(at) == at > clock

\* /remind
Create(r, at) ==
    /\ status[r] = "none" /\ \A q \in Reminders : q < r => status[q] # "none"
    /\ Ahead(at)
    /\ status' = [status EXCEPT ![r] = "pending"]
    /\ dueAt' = [dueAt EXCEPT ![r] = at]
    /\ UNCHANGED <<attempts, clock, batch, outcome, sends, crashes, storeErrors>>

\* /remindcancel reaches only a pending reminder
Cancellable(r) == status[r] = "pending"

Cancel(r) ==
    /\ Cancellable(r)
    /\ status' = [status EXCEPT ![r] = "cancelled"]
    /\ UNCHANGED <<dueAt, attempts, clock, batch, outcome, sends, crashes, storeErrors>>

-----------------------------------------------------------------------------
(* The scheduler *)

Due == {r \in Reminders : status[r] = "pending" /\ dueAt[r] <= clock}

Earlier(r, q) == dueAt[r] < dueAt[q] \/ (dueAt[r] = dueAt[q] /\ r < q)

\* The first BatchLimit due reminders, by time and then by id
IsDueBatch(s) ==
    /\ Len(s) = IF Cardinality(Due) < BatchLimit THEN Cardinality(Due) ELSE BatchLimit
    /\ \A i \in 1..Len(s) : s[i] \in Due
    /\ \A i, j \in 1..Len(s) : i < j => Earlier(s[i], s[j])
    /\ \A r \in Due : (\E i \in 1..Len(s) : s[i] = r) \/ \A i \in 1..Len(s) : Earlier(s[i], r)

Batches == UNION {[1..n -> Due] : n \in 1..BatchLimit}

Claimed(s) == [r \in Reminders |-> IF \E i \in 1..Len(s) : s[i] = r THEN "sending" ELSE status[r]]

ClaimDue ==
    /\ batch = <<>>
    /\ \E s \in Batches :
        /\ IsDueBatch(s)
        /\ batch' = s
        /\ status' = Claimed(s)
    /\ UNCHANGED <<dueAt, attempts, clock, outcome, sends, crashes, storeErrors>>

\* send_message returns, raises before Telegram took the message, or raises
\* although it did (a timeout of the answer)
Send ==
    /\ batch # <<>> /\ outcome = "none"
    /\ \E o \in {"delivered", "refused"} \cup (IF AnswersMayBeLost THEN {"lost"} ELSE {}) :
        /\ outcome' = IF o = "delivered" THEN "delivered" ELSE "raised"
        /\ sends' = [sends EXCEPT ![Head(batch)] = IF o = "refused" THEN @ ELSE @ + 1]
    /\ UNCHANGED <<rows, clock, batch, crashes, storeErrors>>

NextOfBatch == batch' = Tail(batch) /\ outcome' = "none"

MarkSent ==
    /\ outcome = "delivered"
    /\ LET r == Head(batch) IN
       status' = IF status[r] = "sending" THEN [status EXCEPT ![r] = "sent"] ELSE status
    /\ NextOfBatch
    /\ UNCHANGED <<dueAt, attempts, clock, sends, crashes, storeErrors>>

\* Fault: one attempt too many.
AfterFailureLate(n) == IF n <= MaxAttempts THEN "pending" ELSE "failed"

AfterFailure(n) == IF n < MaxAttempts THEN "pending" ELSE "failed"

MarkAttemptFailed ==
    /\ outcome = "raised"
    /\ LET r == Head(batch) IN
       IF status[r] = "sending"
       THEN /\ attempts' = [attempts EXCEPT ![r] = @ + 1]
            /\ status' = [status EXCEPT ![r] = AfterFailure(attempts[r] + 1)]
       ELSE UNCHANGED <<attempts, status>>
    /\ NextOfBatch
    /\ UNCHANGED <<dueAt, clock, sends, crashes, storeErrors>>

\* mark_sent or mark_attempt_failed raises: run_once is abandoned with the
\* rest of its batch, and _run only logs it
StoreError ==
    /\ storeErrors < MaxStoreErrors
    /\ outcome # "none"
    /\ storeErrors' = storeErrors + 1
    /\ batch' = <<>> /\ outcome' = "none"
    /\ UNCHANGED <<rows, clock, sends, crashes>>

-----------------------------------------------------------------------------

\* Fault: interrupted deliveries are not reset.
ResetNothing == status

\* A new process resets interrupted deliveries; install goes on when that fails
Reset == [r \in Reminders |-> IF status[r] = "sending" THEN "pending" ELSE status[r]]

Restart ==
    /\ crashes < MaxCrashes
    /\ crashes' = crashes + 1
    /\ batch' = <<>> /\ outcome' = "none"
    /\ \/ status' = Reset /\ UNCHANGED storeErrors
       \/ /\ storeErrors < MaxStoreErrors /\ storeErrors' = storeErrors + 1
          /\ UNCHANGED status
    /\ UNCHANGED <<dueAt, attempts, clock, sends>>

Tick ==
    /\ clock < MaxClock
    /\ clock' = clock + 1
    /\ UNCHANGED <<rows, batch, outcome, sends, crashes, storeErrors>>

Next ==
    \/ \E r \in Reminders : (\E at \in 1..MaxClock : Create(r, at)) \/ Cancel(r)
    \/ ClaimDue \/ Send \/ MarkSent \/ MarkAttemptFailed
    \/ StoreError \/ Restart \/ Tick

Spec == Init /\ [][Next]_vars

\* The scheduler polls for ever, send_message has a timeout, and time passes
FairSpec ==
    /\ Spec
    /\ WF_vars(ClaimDue) /\ WF_vars(Send) /\ WF_vars(MarkSent) /\ WF_vars(MarkAttemptFailed)
    /\ WF_vars(Tick)

-----------------------------------------------------------------------------
(* Properties *)

\* Rows, clock and scheduler are well typed, and the reminder being delivered
\* is one of the table.
TypeOK ==
    /\ status \in [Reminders -> Statuses]
    /\ dueAt \in [Reminders -> 0..MaxClock]
    /\ attempts \in [Reminders -> 0..MaxAttempts]
    /\ clock \in 0..MaxClock
    /\ batch \in Seq(Reminders)
    /\ outcome \in {"none", "delivered", "raised"} /\ (batch = <<>> => outcome = "none")
    /\ sends \in [Reminders -> Nat]
    /\ crashes \in 0..MaxCrashes /\ storeErrors \in 0..MaxStoreErrors

\* The rows of the batch are the scheduler's own: claim_due marked them, and
\* neither the owner nor another claim can touch them until it is done with
\* them.
BatchHeld ==
    /\ \A i \in 1..Len(batch) : status[batch[i]] = "sending"
    /\ \A i, j \in 1..Len(batch) : batch[i] = batch[j] => i = j

\* A reminder that was reported cancelled, or that is sent or has failed, is
\* never handed to Telegram again.
EndedIsSilent ==
    [][\A r \in Reminders :
         status[r] \in {"sent", "failed", "cancelled"} => sends'[r] = sends[r]]_vars

\* A reminder is handed to Telegram at most MAX_ATTEMPTS times, lost answers
\* included, and once more for every crash or store error.
RetriesBounded == \A r \in Reminders : sends[r] <= MaxAttempts + crashes + storeErrors

\* A reminder whose time has come is sent, given up after its attempts, or
\* cancelled, over a crash in the middle of a batch as well.  Only a store error
\* can leave it 'sending' for ever: nothing but a restart looks at it then.
Settles ==
    \A r \in Reminders :
        status[r] = "pending" ~>
            \/ status[r] \in {"sent", "failed", "cancelled"}
            \/ status[r] = "sending" /\ storeErrors > 0
==============================================================================
