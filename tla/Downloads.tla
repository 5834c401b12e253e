------------------------------ MODULE Downloads ------------------------------
(***************************************************************************)
(* The managed downloads: the index, the files under the managed root, the *)
(* storage lock that processes share, and the clean-ups at midnight UTC    *)
(* and on request (download_service.py, cache_retention.py).               *)
(*                                                                         *)
(* Three actors: "owner", the bot's handler, which serves one command at a *)
(* time; "task", the bot's midnight task; "timer", the clean-up process    *)
(* systemd may start at midnight.  What the code does between two awaits   *)
(* of the bot is still cut into steps, because the other process runs      *)
(* beside it and either may die anywhere.                                  *)
(***************************************************************************)
EXTENDS Naturals, FiniteSets

CONSTANTS
    Slots,       \* what tells downloads apart (id and path); free ones are reused
    MaxFile,     \* max_file_bytes, in chunks
    MaxTotal,    \* max_total_bytes, in chunks
    MaxCrashes   \* bound on deaths of either process

Actors == {"owner", "task", "timer"}
InBot  == {"owner", "task"}

\* Where an actor is in its operation.  A fetch waits for the lock, opens the
\* request, streams, and has its file placed; a clean-up passes the gates, has
\* chosen what to retire, and has dropped it from the index; a delete has chosen
\* and dropped one record.
Points == {"idle", "waiting", "open", "streaming", "placed",
           "gated", "chosen", "dropped", "delete", "deleted"}

Day == 2    \* ticks in 24 hours: one from midnight, one from noon

VARIABLES
    night,    \* in the quarter of an hour after midnight UTC
    file,     \* under its slot's path: "none", "part" (.part, .working) or "final"
    size,     \* chunks in the file
    index,    \* index.json: slots that have a record
    age,      \* ticks since created_at, at most Day
    lock,     \* holder of the flock, or "free"
    pc,
    snap,     \* the index an actor read and is about to write back
    doomed,   \* what a clean-up or a delete retires
    fetch,    \* the transfer: its slot, and whether yt-dlp does it
    budget,   \* the chunks it may write, computed when it started
    busy,     \* unfinished agent tasks, or the emergency stop
    due,      \* whose midnight clean-up has still to begin
    missed,   \* its latest clean-up was skipped or failed
    crashes

disk  == <<file, size>>
local == <<pc, snap, doomed, fetch, budget>>
vars  == <<night, disk, index, age, lock, local, busy, due, missed, crashes>>

NoFetch == [slot |-> {}, media |-> FALSE]

\* used_bytes: the chunks of these files together.
Bytes(ds) == Cardinality(UNION {{d} \X (1..size[d]) : d \in ds})

\* _read_index refuses an index with an entry whose file is gone or empty.
Readable == \A d \in index : file[d] = "final" /\ size[d] > 0

\* _transfer_budget.  Little free disk only makes a transfer fail earlier.
Budget == IF Bytes(index) >= MaxTotal THEN 0
          ELSE LET quota == MaxTotal - Bytes(index) IN IF quota < MaxFile THEN quota ELSE MaxFile

Init ==
    /\ night = FALSE
    /\ file = [d \in Slots |-> "none"] /\ size = [d \in Slots |-> 0]
    /\ index = {} /\ age = [d \in Slots |-> 0]
    /\ lock = "free"
    /\ pc = [a \in Actors |-> "idle"]
    /\ snap = [a \in Actors |-> {}] /\ doomed = [a \in Actors |-> {}]
    /\ fetch = NoFetch /\ budget = 0
    /\ busy = FALSE /\ due = {} /\ missed = FALSE /\ crashes = 0

Goes(a, point) == pc' = [pc EXCEPT ![a] = point]

\* The storage guard's exit: the file descriptor is closed on every path.
Release(a) == lock' = IF lock = a THEN "free" ELSE lock

\* An actor leaves its operation.
Leaves(a) ==
    /\ Goes(a, "idle") /\ Release(a)
    /\ snap' = [snap EXCEPT ![a] = {}] /\ doomed' = [doomed EXCEPT ![a] = {}]
    /\ fetch' = IF a = "owner" THEN NoFetch ELSE fetch
    /\ budget' = IF a = "owner" THEN 0 ELSE budget
    /\ missed' = IF a = "task" THEN TRUE ELSE missed

\* The event loop runs the owner's handler or the midnight task, never both, and
\* neither yields inside the sections that touch the index.  Only the clean-up
\* the owner asks for runs in a thread beside it.
LoopIsOwners == pc["task"] = "idle"
LoopIsTasks  == pc["owner"] \notin {"placed", "delete", "deleted"}

-----------------------------------------------------------------------------
(* A transfer.                                                             *)

Fetching(point) == LoopIsOwners /\ pc["owner"] = point

AskFetch(d, media) ==
    /\ Fetching("idle")
    /\ file[d] = "none" /\ d \notin index
    /\ Goes("owner", "waiting")
    /\ fetch' = [slot |-> {d}, media |-> media]
    /\ UNCHANGED <<night, disk, index, age, lock, snap, doomed, budget, busy, due, missed, crashes>>

TakeLock ==
    /\ Fetching("waiting") /\ lock = "free"
    /\ lock' = "owner" /\ Goes("owner", "open")
    /\ UNCHANGED <<night, disk, index, age, snap, doomed, fetch, budget, busy, due, missed, crashes>>

\* The hundredth attempt finds another process in the store.
GiveUpLock ==
    /\ Fetching("waiting") /\ lock # "free"
    /\ Leaves("owner")
    /\ UNCHANGED <<night, disk, index, age, busy, due, crashes>>

\* A URL, a status, a declared length or the quota is refused.
Refuse ==
    /\ Fetching("open")
    /\ Leaves("owner")
    /\ UNCHANGED <<night, disk, index, age, busy, due, crashes>>

StartTransfer(d) ==
    /\ Fetching("open") /\ fetch.slot = {d}
    /\ Readable /\ Budget > 0
    /\ budget' = Budget
    /\ file' = [file EXCEPT ![d] = "part"]
    /\ Goes("owner", "streaming")
    /\ UNCHANGED <<night, size, index, age, lock, snap, doomed, fetch, busy, due, missed, crashes>>

\* HTTP counts a chunk before it writes it; yt-dlp is measured every two seconds
\* and may be over the budget by then.
Chunk(d) ==
    /\ Fetching("streaming") /\ fetch.slot = {d}
    /\ size[d] < budget + (IF fetch.media THEN 1 ELSE 0)
    /\ size' = [size EXCEPT ![d] = @ + 1]
    /\ UNCHANGED <<night, file, index, age, lock, local, busy, due, missed, crashes>>

RemoveFile(d) == file' = [file EXCEPT ![d] = "none"] /\ size' = [size EXCEPT ![d] = 0]

\* An error, a cancellation, a deadline or the budget ends the transfer.
TransferFails(d) ==
    /\ Fetching("streaming") /\ fetch.slot = {d}
    /\ RemoveFile(d) /\ Leaves("owner")
    /\ UNCHANGED <<night, index, age, busy, due, crashes>>

\* The transfer is over: the file gets its final name and the index is read
\* again.  A media file is measured; an HTTP body may be empty.
Place(d) ==
    /\ Fetching("streaming") /\ fetch.slot = {d}
    /\ size[d] <= budget /\ (fetch.media => size[d] > 0)
    /\ Readable
    /\ file' = [file EXCEPT ![d] = "final"]
    /\ snap' = [snap EXCEPT !["owner"] = index]
    /\ Goes("owner", "placed")
    /\ UNCHANGED <<night, size, index, age, lock, doomed, fetch, budget, busy, due, missed, crashes>>

Record(d) ==
    /\ Fetching("placed") /\ fetch.slot = {d}
    /\ index' = snap["owner"] \cup {d}
    /\ age' = [age EXCEPT ![d] = 0]
    /\ Leaves("owner")
    /\ UNCHANGED <<night, disk, busy, due, crashes>>

\* The index cannot be written: the placed file is removed.
RecordFails(d) ==
    /\ Fetching("placed") /\ fetch.slot = {d}
    /\ RemoveFile(d) /\ Leaves("owner")
    /\ UNCHANGED <<night, index, age, busy, due, crashes>>

-----------------------------------------------------------------------------
(* Removal.                                                                *)

\* The owner deletes a file.  A taken lock or an unreadable index is an error.
Delete(d) ==
    /\ Fetching("idle") /\ lock = "free" /\ Readable /\ d \in index
    /\ lock' = "owner" /\ Goes("owner", "delete")
    /\ snap' = [snap EXCEPT !["owner"] = index]
    /\ doomed' = [doomed EXCEPT !["owner"] = {d}]
    /\ UNCHANGED <<night, disk, index, age, fetch, budget, busy, due, missed, crashes>>

\* When an actor comes to clean up: the task and the timer's process once each
\* midnight, the owner's thread whenever it is asked for.
MayClean(a) ==
    CASE a = "task"  -> a \in due /\ LoopIsTasks
      [] a = "timer" -> a \in due
      [] a = "owner" -> LoopIsOwners

\* _guarded_cleanup looks for transfers and unfinished tasks before it has the
\* lock; it does not look again.
Gate(a) ==
    /\ pc[a] = "idle" /\ MayClean(a)
    /\ due' = due \ {a}
    /\ IF busy \/ \E d \in Slots : file[d] = "part"
         THEN Leaves(a)
         ELSE Goes(a, "gated") /\ UNCHANGED <<lock, snap, doomed, fetch, budget, missed>>
    /\ UNCHANGED <<night, disk, index, age, busy, crashes>>

\* TTL, and at midnight everything recorded before it.
Retired(a) == {d \in index : age[d] >= Day \/ (a # "owner" /\ age[d] > 0)}

\* Fault: the files go before the index is written.
ChooseAndRemove(a) ==
    /\ pc[a] = "gated" /\ lock = "free" /\ Readable /\ Retired(a) # {}
    /\ Goes(a, "chosen") /\ lock' = a
    /\ file' = [d \in Slots |-> IF d \in Retired(a) THEN "none" ELSE file[d]]
    /\ snap' = [snap EXCEPT ![a] = index] /\ doomed' = [doomed EXCEPT ![a] = Retired(a)]
    /\ UNCHANGED <<night, size, index, age, fetch, budget, busy, due, missed, crashes>>

Choose(a) ==
    /\ pc[a] = "gated" /\ lock = "free" /\ Readable /\ Retired(a) # {}
    /\ Goes(a, "chosen") /\ lock' = a
    /\ snap' = [snap EXCEPT ![a] = index] /\ doomed' = [doomed EXCEPT ![a] = Retired(a)]
    /\ UNCHANGED <<night, disk, index, age, fetch, budget, busy, due, missed, crashes>>

\* Nothing to retire: the clean-up is complete.
NothingDue(a) ==
    /\ pc[a] = "gated" /\ lock = "free" /\ Readable /\ Retired(a) = {}
    /\ Goes(a, "idle")
    /\ missed' = (missed /\ a # "task")
    /\ UNCHANGED <<night, disk, index, age, lock, snap, doomed, fetch, budget, busy, due, crashes>>

\* DownloadBusy, or an index that cannot be read.
CleanFails(a) ==
    /\ pc[a] = "gated" /\ (lock # "free" \/ ~Readable)
    /\ Leaves(a)
    /\ UNCHANGED <<night, disk, index, age, busy, due, crashes>>

Chosen(a) == pc[a] \in {"chosen", "delete"}

\* The new index is written before any file goes.
WriteIndex(a) ==
    /\ Chosen(a)
    /\ index' = snap[a] \ doomed[a]
    /\ age' = [d \in Slots |-> IF d \in doomed[a] THEN 0 ELSE age[d]]
    /\ Goes(a, IF pc[a] = "delete" THEN "deleted" ELSE "dropped")
    /\ UNCHANGED <<night, disk, lock, snap, doomed, fetch, budget, busy, due, missed, crashes>>

WriteFails(a) ==
    /\ Chosen(a)
    /\ Leaves(a)
    /\ UNCHANGED <<night, disk, index, age, busy, due, crashes>>

\* One file goes, or cannot be removed, which is not an error; after the last
\* one the lock is released and the clean-up is complete.
Unlink(a, d) ==
    /\ pc[a] \in {"dropped", "deleted"} /\ d \in doomed[a]
    /\ RemoveFile(d) \/ UNCHANGED disk
    /\ IF doomed[a] = {d}
         THEN /\ Goes(a, "idle") /\ Release(a)
              /\ snap' = [snap EXCEPT ![a] = {}]
              /\ missed' = (missed /\ a # "task")
         ELSE UNCHANGED <<pc, lock, snap, missed>>
    /\ doomed' = [doomed EXCEPT ![a] = @ \ {d}]
    /\ UNCHANGED <<night, index, age, fetch, budget, busy, due, crashes>>

-----------------------------------------------------------------------------
(* Time and failures.                                                      *)

\* Fault: the bot does not start its midnight task.
WakesTimerOnly == IF night THEN {} ELSE {"timer"}

\* The task sleeps until the next midnight, the timer runs at 00:00 UTC.
Wakes == IF night THEN {} ELSE {"task", "timer"}

\* Half a day passes; clean-ups take seconds.  The timer need not be installed.
Tick ==
    /\ "task" \notin due
    /\ \A a \in Actors : pc[a] \in {"idle", "waiting", "open", "streaming"}
    /\ night' = ~night
    /\ due' = Wakes
    /\ age' = [d \in Slots |-> IF d \in index /\ age[d] < Day THEN age[d] + 1 ELSE age[d]]
    /\ UNCHANGED <<disk, index, lock, local, busy, missed, crashes>>

QueueChanges ==
    /\ busy' = ~busy
    /\ UNCHANGED <<night, disk, index, age, lock, local, due, missed, crashes>>

\* A process dies: the system releases its lock, its next midnight is tomorrow's,
\* and whatever is on disk stays.
Dies(actors) ==
    /\ crashes < MaxCrashes /\ crashes' = crashes + 1
    /\ lock' = IF lock \in actors THEN "free" ELSE lock
    /\ pc' = [a \in Actors |-> IF a \in actors THEN "idle" ELSE pc[a]]
    /\ snap' = [a \in Actors |-> IF a \in actors THEN {} ELSE snap[a]]
    /\ doomed' = [a \in Actors |-> IF a \in actors THEN {} ELSE doomed[a]]
    /\ fetch' = IF "owner" \in actors THEN NoFetch ELSE fetch
    /\ budget' = IF "owner" \in actors THEN 0 ELSE budget
    /\ due' = due \ actors
    /\ UNCHANGED <<night, disk, index, age, busy, missed>>

BotDies   == Dies(InBot)
TimerDies == pc["timer"] # "idle" /\ Dies({"timer"})

Transfer(d) ==
    \/ StartTransfer(d) \/ Chunk(d) \/ TransferFails(d) \/ Place(d)
    \/ Record(d) \/ RecordFails(d)

Clean(a) ==
    \/ Choose(a) \/ NothingDue(a) \/ CleanFails(a)
    \/ WriteIndex(a) \/ WriteFails(a) \/ \E d \in Slots : Unlink(a, d)

Next ==
    \/ \E d \in Slots : (\E media \in BOOLEAN : AskFetch(d, media)) \/ Transfer(d) \/ Delete(d)
    \/ TakeLock \/ GiveUpLock \/ Refuse
    \/ \E a \in Actors : Gate(a) \/ Clean(a)
    \/ Tick \/ QueueChanges \/ BotDies \/ TimerDies

Spec == Init /\ [][Next]_vars

\* The event loop runs what can run, reads of a response have a time limit, and
\* time passes.  The owner, the timer and the queue do as they like, also again
\* and again: midnight and the task that wakes then come all the same, whatever
\* short section is under way (strong fairness).
FairSpec ==
    /\ Spec /\ SF_vars(Tick) /\ SF_vars(Gate("task"))
    /\ WF_vars(TakeLock \/ GiveUpLock) /\ WF_vars(Refuse)
    /\ WF_vars(\E d \in Slots : Transfer(d))
    /\ \A a \in Actors : WF_vars(Clean(a))
-----------------------------------------------------------------------------
(* Properties.                                                             *)

\* The variables hold what they can hold, and only who holds the lock is inside
\* the store.
TypeOK ==
    /\ night \in BOOLEAN /\ busy \in BOOLEAN /\ missed \in BOOLEAN
    /\ due \subseteq {"task", "timer"}
    /\ file \in [Slots -> {"none", "part", "final"}]
    /\ size \in [Slots -> 0..(MaxFile + 1)]
    /\ index \subseteq Slots
    /\ age \in [Slots -> 0..Day]
    /\ lock \in Actors \cup {"free"}
    /\ pc \in [Actors -> Points]
    /\ snap \in [Actors -> SUBSET Slots] /\ doomed \in [Actors -> SUBSET Slots]
    /\ fetch \in [slot : SUBSET Slots, media : BOOLEAN] /\ budget \in 0..MaxFile
    /\ crashes \in 0..MaxCrashes

Inside == {"open", "streaming", "placed", "chosen", "dropped", "delete", "deleted"}

\* What is inside the store holds its lock, whatever died meanwhile.
LockHeld == \A a \in Actors : pc[a] \in Inside => lock = a

\* Every record has its file, at every instant of every fetch, delete and
\* clean-up and after the death of any of them: else _read_index refuses the
\* whole index from then on.
IndexHasFiles == \A d \in index : file[d] = "final"

\* Files nothing knows of any more.
Strays ==
    {d \in Slots : /\ file[d] # "none" /\ d \notin index
                   /\ \A a \in Actors : d \notin doomed[a]
                   /\ d \notin fetch.slot}

\* All that is stored and not astray keeps to max_total_bytes, also while a
\* transfer is under way and while others delete or clean up; a media transfer
\* is only measured now and then.
BudgetKept ==
    (pc["owner"] = "streaming" => ~fetch.media)
        => Bytes({d \in Slots : file[d] # "none"} \ Strays) <= MaxTotal

StoreKept == IndexHasFiles /\ BudgetKept

\* A recorded file goes in the end, unless the midnight clean-up is kept from
\* its work or the index became unreadable.
Expires == \A d \in Slots : (d \in index) ~> (d \notin index \/ missed \/ ~Readable)
=============================================================================
