------------------------------ MODULE TaskFiles ------------------------------
(***************************************************************************)
(* The files of one task: what the owner sent with it, fetched from        *)
(* Telegram (attachments.py), the scratch directory it works in, and what  *)
(* the agent leaves to be sent.  The row's life is TaskPool's; here it is  *)
(* as much of it as the files depend on, with an executor that may still   *)
(* be leaving when the next takes the row up, and a cancellation in steps  *)
(* (task_service.py) beside both.                                          *)
(***************************************************************************)
EXTENDS Naturals, FiniteSets

CONSTANTS
    Executors,
    Written,     \* names of what the agent may leave, in their order
    MaxSent,     \* max_files of one collection
    MaxMishaps   \* bound on failed transfers, lost requests and restarts

VARIABLES
    recorded,  \* the task keeps its row when it ends (a daily one)
    fetch,     \* how the file is being fetched, if it is
    input,     \* the file: none, part of it, or the whole
    row,       \* the row's status; "unsent" before, "gone" after it is deleted
    resumable, \* the row has a checkpoint
    work,      \* the scratch directory exists
    at,        \* where each executor is
    left, todo, sent,  \* files in the output directory, to be sent, sent
    stop,      \* the owner's cancellation: where it is and the status it saw
    told,      \* the last result was delivered as complete
    forgiven, stray, missed,  \* ghosts: retried by the owner; files left by ...; not sent for ...
    mishaps

outputs == <<left, todo, sent, told, missed>>
ghosts  == <<forgiven, stray>>
vars == <<recorded, fetch, input, row, resumable, work, at, outputs, stop, ghosts, mishaps>>

MayRun  == {"queued", "leased", "running", "retrying"}
Stopped == row \in {"cancelled", "gone"}
Quiet   == [at |-> "idle", saw |-> "none"]
Mishap  == mishaps < MaxMishaps /\ mishaps' = mishaps + 1

\* An executor that cleans up when it leaves.
Cleans(e) == at[e] \in {"prepare", "refuse", "turn", "sending", "leaving"}
Attended  == \E e \in Executors : Cleans(e)

Init ==
    /\ recorded \in BOOLEAN /\ fetch = "idle" /\ input = "none" /\ row = "unsent"
    /\ resumable = FALSE /\ work = FALSE /\ at = [e \in Executors |-> "idle"]
    /\ left = {} /\ todo = {} /\ sent = {} /\ told = FALSE /\ missed = FALSE
    /\ stop = Quiet /\ forgiven = FALSE /\ stray = FALSE /\ mishaps = 0

Goes(e, to) == at' = [at EXCEPT ![e] = to]
-----------------------------------------------------------------------------
(* The file arrives and the task is made.                                  *)

\* download_from_message: copied from a local server's directory, read from its
\* endpoint, or downloaded.
Fetch(how) ==
    /\ row = "unsent" /\ fetch = "idle" /\ input = "none"
    /\ fetch' = how /\ input' = "part"
    /\ UNCHANGED <<recorded, row, resumable, work, at, outputs, stop, ghosts, mishaps>>

Fetched ==
    /\ fetch # "idle" /\ fetch' = "idle" /\ input' = "whole"
    /\ UNCHANGED <<recorded, row, resumable, work, at, outputs, stop, ghosts, mishaps>>

\* What turns out too large is deleted however it came.
TooLarge ==
    /\ fetch # "idle" /\ fetch' = "idle" /\ input' = "none"
    /\ UNCHANGED <<recorded, row, resumable, work, at, outputs, stop, ghosts, mishaps>>

\* A transfer that breaks off is deleted where it was read from the endpoint only.
BreaksOff ==
    /\ fetch # "idle" /\ Mishap /\ fetch' = "idle"
    /\ input' = IF fetch = "endpoint" THEN "none" ELSE "part"
    /\ stray' = (fetch # "endpoint")
    /\ UNCHANGED <<recorded, row, resumable, work, at, outputs, stop, forgiven>>

Enqueue ==
    /\ row = "unsent" /\ input = "whole"
    /\ row' = "queued"
    /\ UNCHANGED <<recorded, fetch, input, resumable, work, at, outputs, stop, ghosts, mishaps>>

-----------------------------------------------------------------------------
(* An execution.                                                           *)

Claim(e) ==
    /\ row \in {"queued", "retrying"} /\ at[e] = "idle"
    /\ row' = "leased" /\ Goes(e, "claimed")
    /\ UNCHANGED <<recorded, fetch, input, resumable, work, outputs, stop, ghosts, mishaps>>

MarkRunning(e) ==
    /\ at[e] = "claimed"
    /\ IF row = "leased" THEN row' = "running" /\ Goes(e, "begin")
                         ELSE Goes(e, "idle") /\ UNCHANGED row
    /\ UNCHANGED <<recorded, fetch, input, resumable, work, outputs, stop, ghosts, mishaps>>

\* execute returns at once, with nothing cleaned, from a row that was cancelled.
Begin(e) ==
    /\ at[e] = "begin"
    /\ Goes(e, IF Stopped THEN "idle" ELSE "prepare")
    /\ UNCHANGED <<recorded, fetch, input, row, resumable, work, outputs, stop, ghosts, mishaps>>

\* validate_input_records, the directories, and the checkpoint.
Prepare(e) ==
    /\ at[e] = "prepare"
    /\ IF input = "whole"
         THEN work' = TRUE /\ resumable' = (resumable \/ ~Stopped) /\ Goes(e, "turn")
         ELSE Goes(e, "refuse") /\ UNCHANGED <<work, resumable>>
    /\ UNCHANGED <<recorded, fetch, input, row, outputs, stop, ghosts, mishaps>>

AgentLeaves(e, name) ==
    /\ at[e] = "turn" /\ left' = left \cup {name}
    /\ UNCHANGED <<recorded, fetch, input, row, resumable, work, at, todo, sent, told, missed,
                   stop, ghosts, mishaps>>

Finish(e, status) ==
    /\ row' = IF Stopped THEN row ELSE IF recorded THEN status ELSE "gone"
    /\ Goes(e, "leaving")

\* retry_or_dead_letter; a day that ended without the task being complete, too.
Defer(e) ==
    /\ at[e] \in {"turn", "sending"} /\ (at[e] = "sending" => todo = {} /\ recorded)
    /\ row' = (IF Stopped THEN row ELSE "retrying")
    /\ Goes(e, "leaving")
    /\ UNCHANGED <<recorded, fetch, input, resumable, work, outputs, stop, ghosts, mishaps>>

Fail(e) ==
    /\ at[e] \in {"refuse", "turn"} /\ Finish(e, "failed")
    /\ UNCHANGED <<recorded, fetch, input, resumable, work, outputs, stop, ghosts, mishaps>>

FirstOf(names) == {n \in names : Cardinality({k \in names : k < n}) < MaxSent}

\* The turn is answered: what is in the directory now, up to max_files by name.
Collect(e) ==
    /\ at[e] = "turn"
    /\ IF Stopped THEN Goes(e, "leaving") /\ UNCHANGED <<todo, missed>>
       ELSE /\ Goes(e, "sending") /\ todo' = FirstOf(left)
            /\ missed' = (FirstOf(left) # left)
    /\ UNCHANGED <<recorded, fetch, input, row, resumable, work, left, sent, told, stop, ghosts,
                   mishaps>>

\* send_outputs: as a document, in parts, or by a mirror; else it is passed over.
Send(e, name) ==
    /\ at[e] = "sending" /\ name \in todo /\ todo' = todo \ {name}
    /\ \/ sent' = sent \cup {name} /\ UNCHANGED <<missed, mishaps>>
       \/ Mishap /\ missed' = TRUE /\ UNCHANGED sent
    /\ UNCHANGED <<recorded, fetch, input, row, resumable, work, at, left, told, stop, ghosts>>

Complete(e) ==
    /\ at[e] = "sending" /\ todo = {}
    /\ Finish(e, "completed") /\ told' = ~Stopped
    /\ UNCHANGED <<recorded, fetch, input, resumable, work, left, todo, sent, missed, stop,
                   ghosts, mishaps>>

\* Fault: a task that waits for its retry does not keep its files.
LeaveUnlessActive(e) ==
    /\ at[e] = "leaving" /\ Goes(e, "idle")
    /\ IF row \in MayRun \ {"retrying"} THEN UNCHANGED <<input, work>>
                                        ELSE input' = "none" /\ work' = FALSE
    /\ UNCHANGED <<recorded, fetch, row, resumable, outputs, stop, ghosts, mishaps>>

\* The executor's finally.
Leave(e) ==
    /\ at[e] = "leaving" /\ Goes(e, "idle")
    /\ IF row \in MayRun THEN UNCHANGED <<input, work>> ELSE input' = "none" /\ work' = FALSE
    /\ UNCHANGED <<recorded, fetch, row, resumable, outputs, stop, ghosts, mishaps>>

-----------------------------------------------------------------------------
(* The owner.                                                              *)

Ended == IF recorded THEN "cancelled" ELSE "gone"

\* cancel, cancel_current read the task first ...
Look ==
    /\ stop = Quiet /\ row \in MayRun
    /\ stop' = [at |-> "looked", saw |-> row]
    /\ UNCHANGED <<recorded, fetch, input, row, resumable, work, at, outputs, ghosts, mishaps>>

\* ... then _cancel_target cancels what the row has become ...
CancelRow ==
    /\ stop.at = "looked"
    /\ IF row \in MayRun
         THEN /\ row' = Ended /\ stop' = [stop EXCEPT !.at = "clean"]
              /\ stray' = (stray \/ (stop.saw = "running" /\ ~Attended))
         ELSE stop' = Quiet /\ UNCHANGED <<row, stray>>
    /\ UNCHANGED <<recorded, fetch, input, resumable, work, at, outputs, forgiven, mishaps>>

\* ... and deletes the files, when it had not seen the task running: then its
\* executor is to do so.
CleanUp ==
    /\ stop.at = "clean" /\ stop' = Quiet
    /\ input' = IF stop.saw = "running" THEN input ELSE "none"
    /\ UNCHANGED <<recorded, fetch, row, resumable, work, at, outputs, ghosts, mishaps>>

\* The request to abort the session comes before that and may fail.
AbortLost ==
    /\ stop.at = "clean" /\ stop.saw \in {"leased", "retrying", "running"} /\ Mishap
    /\ stop' = Quiet /\ stray' = TRUE
    /\ UNCHANGED <<recorded, fetch, input, row, resumable, work, at, outputs, forgiven>>

\* abort_running
AbortRunning ==
    /\ stop = Quiet /\ row = "running"
    /\ row' = Ended /\ stray' = (stray \/ ~Attended)
    /\ UNCHANGED <<recorded, fetch, input, resumable, work, at, outputs, stop, forgiven, mishaps>>

\* clear_waiting, remove
Remove ==
    /\ stop = Quiet /\ row \in {"queued", "retrying", "cancelled", "completed", "failed"}
    /\ row' = "gone" /\ stop' = [at |-> "clean", saw |-> "none"]
    /\ UNCHANGED <<recorded, fetch, input, resumable, work, at, outputs, ghosts, mishaps>>

RetryFailed ==
    /\ row = "failed" /\ row' = "queued" /\ forgiven' = TRUE
    /\ UNCHANGED <<recorded, fetch, input, resumable, work, at, outputs, stop, stray, mishaps>>

\* The bridge stops and starts: recover_interrupted.
Restart ==
    /\ Mishap
    /\ row' = CASE row = "leased"  -> "queued"
                [] row = "running" -> IF recorded \/ resumable THEN "queued" ELSE "gone"
                [] OTHER           -> row
    /\ stray' = (stray \/ fetch # "idle" \/ stop # Quiet
                   \/ (row' \notin MayRun /\ \E e \in Executors : at[e] # "idle"))
    /\ fetch' = "idle" /\ stop' = Quiet /\ at' = [e \in Executors |-> "idle"] /\ todo' = {}
    /\ UNCHANGED <<recorded, input, resumable, work, left, sent, told, missed, forgiven>>

Next ==
    \/ \E how \in {"copy", "endpoint", "cloud"} : Fetch(how)
    \/ Fetched \/ TooLarge \/ BreaksOff \/ Enqueue
    \/ \E e \in Executors :
          \/ Claim(e) \/ MarkRunning(e) \/ Begin(e) \/ Prepare(e)
          \/ Defer(e) \/ Fail(e) \/ Collect(e) \/ Complete(e) \/ Leave(e)
          \/ \E name \in Written : AgentLeaves(e, name) \/ Send(e, name)
    \/ Look \/ CancelRow \/ CleanUp \/ AbortLost \/ AbortRunning \/ Remove \/ RetryFailed
    \/ Restart

Spec == Init /\ [][Next]_vars
-----------------------------------------------------------------------------
\* docs/durable-task-resume.md:28: inputs are retained while the work is active or
\* deferred.  Only a failed task that the owner retries may have lost them.
InputsKept == row \in MayRun /\ ~forgiven => input = "whole"

\* Once the task has ended and nobody is at it, its files are gone, unless a
\* transfer broke off, a request or the bridge failed in between, or a running
\* task was cancelled when no executor was there that would clean up.
InputsGo ==
    row \in {"cancelled", "completed", "failed", "gone"} /\ stop = Quiet
        /\ (\A e \in Executors : at[e] = "idle") /\ ~stray => input = "none"

\* What the agent left in any turn, also one that was interrupted, has been sent
\* when the task is told complete, unless there was more than one collection
\* takes or a file could not be sent.
OutputsSent == told /\ ~missed => left \subseteq sent

FilesFollowTask == InputsKept /\ InputsGo /\ OutputsSent
=============================================================================
