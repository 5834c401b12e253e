------------------------------- MODULE Intake -------------------------------
(***************************************************************************)
(* How messages of the owner become tasks: files that wait for their       *)
(* instruction (media_service.py, attachments.py), albums gathered before  *)
(* they are passed on, texts, /direct, and drafts (draft_intake.py).       *)
(*                                                                         *)
(* Updates are handled one after the other.  An album is passed on by a    *)
(* job of its own, which the next file of the album cancels; expired files *)
(* are purged beside both.  A job gives way to the others only where it    *)
(* waits for the database or for Telegram.                                 *)
(***************************************************************************)
EXTENDS Naturals, FiniteSets

CONSTANTS
    Files,       \* files the owner sends, each once
    Texts,       \* update numbers of the owner's instructions
    MaxFiles,    \* files one task or one waiting batch may have
    MaxUpsets    \* bound on crashes, stops and failed inserts

VARIABLES
    disk,      \* files in the incoming directory
    album,     \* files gathered, and whether one of them had a caption
    pending,   \* the stored batch that waits for an instruction
    job,       \* what the album's job and the update's handler are doing
    draft,     \* the draft being written, and what it has captured
    tasks,     \* tasks made: the update, its files, keyed by the update or not
    last,      \* the number of the instruction handled last
    upsets

vars == <<disk, album, pending, job, draft, tasks, last, upsets>>

NoFiles == [files |-> {}, old |-> FALSE]
NoAlbum == [files |-> {}, caption |-> FALSE]
Resting == [at |-> "idle", by |-> 0, new |-> {}, taken |-> {}]
Jobs    == {"album", "update"}

Init ==
    /\ disk = {} /\ album = NoAlbum /\ pending = NoFiles
    /\ job = [j \in Jobs |-> Resting]
    /\ draft = [open |-> FALSE, texts |-> {}, files |-> {}]
    /\ tasks = {} /\ last = 0 /\ upsets = 0

Sent == disk \cup UNION {t.files : t \in tasks}
\* The job goes on with these files, new and taken.
GoesWith(j, to, new, taken) ==
    job' = [job EXCEPT ![j] = [at |-> to, by |-> @.by, new |-> new, taken |-> taken]]
Goes(j, to)   == GoesWith(j, to, job[j].new, job[j].taken)
Ends(j)       == job' = [job EXCEPT ![j] = Resting]
Upset         == upsets < MaxUpsets /\ upsets' = upsets + 1
Fits(files)   == Cardinality(files) <= MaxFiles
Made(u, files, keyed) == [id |-> Cardinality(tasks) + 1, by |-> u, files |-> files, keyed |-> keyed]
UpdateIsFree  == job["update"] = Resting

-----------------------------------------------------------------------------
(* Files.                                                                  *)

\* Files with a caption are its task's, the others wait for an instruction.
Ingest(files, caption) ==
    [Resting EXCEPT !.at = IF caption THEN "pop" ELSE "stage", !.new = files]

\* handle_attachment, with a caption or without: a file of an open draft is the
\* draft's.
Receive(f, caption) ==
    /\ UpdateIsFree /\ f \notin Sent
    /\ disk' = disk \cup {f}
    /\ IF draft.open
         THEN draft' = [draft EXCEPT !.files = @ \cup {f}] /\ UNCHANGED job
         ELSE job' = [job EXCEPT !["update"] = Ingest({f}, caption)] /\ UNCHANGED draft
    /\ UNCHANGED <<album, pending, tasks, last, upsets>>

\* A file of an album joins what is gathered; the job is cancelled wherever it is
\* and waits anew.
Gather(f, caption) ==
    /\ UpdateIsFree /\ ~draft.open /\ f \notin Sent
    /\ disk' = disk \cup {f}
    /\ album' = [files |-> album.files \cup {f}, caption |-> album.caption \/ caption]
    /\ job' = [job EXCEPT !["album"] = [Resting EXCEPT !.at = "debounce"]]
    /\ UNCHANGED <<pending, draft, tasks, last, upsets>>

\* The album has been still for a while.
Flush ==
    /\ job["album"].at = "debounce"
    /\ job' = [job EXCEPT !["album"] = Ingest(album.files, album.caption)]
    /\ album' = NoAlbum
    /\ UNCHANGED <<disk, pending, draft, tasks, last, upsets>>

\* Fault: what is left of a batch goes when a file more is refused.
StageClearing(j) ==
    LET waiting == IF pending.old THEN {} ELSE pending.files
        merged  == waiting \cup job[j].new
    IN /\ job[j].at = "stage"
       /\ IF Fits(merged)
            THEN pending' = [files |-> merged, old |-> FALSE] /\ disk' = disk \ (pending.files \ waiting)
            ELSE disk' = disk \ merged /\ UNCHANGED pending
       /\ Ends(j)
       /\ UNCHANGED <<album, draft, tasks, last, upsets>>

\* stage_records: the files join those that wait, replacing an expired batch whose
\* files are deleted; what does not fit is refused and only the new files are.
Stage(j) ==
    LET waiting == IF pending.old THEN {} ELSE pending.files
        merged  == waiting \cup job[j].new
    IN /\ job[j].at = "stage"
       /\ IF Fits(merged)
            THEN pending' = [files |-> merged, old |-> FALSE] /\ disk' = disk \ (pending.files \ waiting)
            ELSE disk' = disk \ job[j].new /\ UNCHANGED pending
       /\ Ends(j)
       /\ UNCHANGED <<album, draft, tasks, last, upsets>>

-----------------------------------------------------------------------------
(* Files that have their instruction.                                      *)

\* queue_records: files that wait join the new ones; too many, and the request
\* fails: the new files are deleted, those that waited are nobody's.
Pop(j) ==
    LET taken == IF pending.old THEN {} ELSE pending.files
        gone  == pending.files \ taken
    IN /\ job[j].at = "pop"
       /\ pending' = NoFiles
       /\ IF Fits(job[j].new \cup taken)
            THEN /\ GoesWith(j, "enqueue", job[j].new, taken)
                 /\ disk' = disk \ gone
            ELSE /\ Ends(j)
                 /\ disk' = IF job[j].by > 0 THEN disk \ gone ELSE disk \ (gone \cup job[j].new)
       /\ UNCHANGED <<album, draft, tasks, last, upsets>>

\* The policy refuses the instruction that came with the files.
Refuse(j) ==
    /\ job[j].at = "pop"
    /\ pending' = NoFiles /\ disk' = disk \ (pending.files \cup job[j].new)
    /\ Ends(j)
    /\ UNCHANGED <<album, draft, tasks, last, upsets>>

\* The task is made with all the files.
Enqueue(j) ==
    /\ job[j].at = "enqueue"
    /\ tasks' = tasks \cup {Made(job[j].by, job[j].new \cup job[j].taken, FALSE)}
    /\ Ends(j)
    /\ UNCHANGED <<disk, album, pending, draft, last, upsets>>

\* The insert fails: what had waited will wait again.
EnqueueFails(j) ==
    /\ job[j].at = "enqueue" /\ Upset
    /\ Goes(j, "restore")
    /\ UNCHANGED <<disk, album, pending, draft, tasks, last>>

\* restore_pending, and the adapter deletes what came with the failed request.
Restore(j) ==
    LET waiting == IF pending.old THEN {} ELSE pending.files
        merged  == waiting \cup job[j].taken
    IN /\ job[j].at = "restore"
       /\ pending' = IF job[j].taken # {} /\ Fits(merged) THEN [files |-> merged, old |-> FALSE] ELSE pending
       /\ disk' = IF job[j].by > 0 THEN disk ELSE disk \ job[j].new
       /\ Ends(j)
       /\ UNCHANGED <<album, draft, tasks, last, upsets>>

-----------------------------------------------------------------------------
(* Instructions.                                                           *)

Begin(u, at) ==
    /\ UpdateIsFree
    /\ last' = u
    /\ job' = [job EXCEPT !["update"] = [Resting EXCEPT !.at = at, !.by = u]]

\* An ordinary text or /direct; a text is the draft's while one is open.
Text(u) ==
    /\ Begin(u, "take") /\ ~draft.open
    /\ UNCHANGED <<disk, album, pending, draft, tasks, upsets>>

Direct(u) ==
    /\ Begin(u, "take direct")
    /\ UNCHANGED <<disk, album, pending, draft, tasks, upsets>>

\* A research command takes no files.
Research(u) ==
    /\ Begin(u, "insert")
    /\ UNCHANGED <<disk, album, pending, draft, tasks, upsets>>

\* take_pending for a text: the files that wait are its files.  Expired, they are
\* deleted and the owner is told to send them again; none, and it is a prompt.
Take ==
    /\ job["update"].at = "take"
    /\ pending' = NoFiles
    /\ IF pending.files = {}
         THEN Goes("update", "insert") /\ UNCHANGED disk
         ELSE IF pending.old
           THEN Ends("update") /\ disk' = disk \ pending.files
           ELSE /\ GoesWith("update", "enqueue", job["update"].new, pending.files)
                /\ UNCHANGED disk
    /\ UNCHANGED <<album, draft, tasks, last, upsets>>

\* /direct takes them as its own new files, to which those staged meanwhile will be
\* added; without files it is a prompt even if some had expired.
TakeDirect ==
    /\ job["update"].at = "take direct"
    /\ pending' = NoFiles
    /\ IF pending.files # {} /\ ~pending.old
         THEN /\ GoesWith("update", "pop", pending.files, job["update"].taken)
              /\ UNCHANGED disk
         ELSE Goes("update", "insert") /\ disk' = disk \ pending.files
    /\ UNCHANGED <<album, draft, tasks, last, upsets>>

\* enqueue_once: the update's task, made unless it is there.
WithTask(u) == IF \E t \in tasks : t.keyed /\ t.by = u THEN tasks ELSE tasks \cup {Made(u, {}, TRUE)}

\* The prompt becomes a task, or the owner is told that it did not.
Insert ==
    /\ job["update"].at = "insert"
    /\ \/ tasks' = WithTask(job["update"].by) /\ UNCHANGED upsets
       \/ Upset /\ UNCHANGED tasks
    /\ Ends("update")
    /\ UNCHANGED <<disk, album, pending, draft, last>>

\* The files that wait are deleted with their record.
Forget == disk' = disk \ pending.files /\ pending' = NoFiles

\* /discard.
Discard ==
    /\ UpdateIsFree /\ pending # NoFiles
    /\ Forget
    /\ UNCHANGED <<album, job, draft, tasks, last, upsets>>

-----------------------------------------------------------------------------
(* Drafts.                                                                 *)

\* /draft new; a version more for every text and file, in one transaction each.
NewDraft ==
    /\ UpdateIsFree /\ ~draft.open
    /\ draft' = [draft EXCEPT !.open = TRUE]
    /\ UNCHANGED <<disk, album, pending, job, tasks, last, upsets>>

DraftText(u) ==
    /\ UpdateIsFree /\ draft.open
    /\ draft' = [draft EXCEPT !.texts = @ \cup {u}]
    /\ last' = u
    /\ UNCHANGED <<disk, album, pending, job, tasks, upsets>>

SaveDraft ==
    /\ UpdateIsFree /\ draft.open
    /\ draft' = [draft EXCEPT !.open = FALSE]
    /\ UNCHANGED <<disk, album, pending, job, tasks, last, upsets>>

\* /draft run: its text alone, once for the update.
RunDraft(u) ==
    /\ draft.texts # {} /\ Begin(u, "insert")
    /\ UNCHANGED <<disk, album, pending, draft, tasks, upsets>>

-----------------------------------------------------------------------------
(* Time, stops and crashes.                                                *)

Expire ==
    /\ pending # NoFiles /\ ~pending.old
    /\ pending' = [pending EXCEPT !.old = TRUE]
    /\ UNCHANGED <<disk, album, job, draft, tasks, last, upsets>>

\* cleanup_loop.
Purge ==
    /\ pending.old
    /\ Forget
    /\ UNCHANGED <<album, job, draft, tasks, last, upsets>>

\* What the process held is gone and so is the draft's capture; the handled update
\* may come again.
ProcessEnds ==
    /\ Upset
    /\ album' = NoAlbum /\ job' = [j \in Jobs |-> Resting]
    /\ draft' = [draft EXCEPT !.open = FALSE]
    /\ UNCHANGED <<pending, tasks, last>>

Crash == ProcessEnds /\ UNCHANGED disk

\* post_shutdown: the album's files are deleted, those its job had taken are not.
Shutdown == ProcessEnds /\ UpdateIsFree /\ disk' = disk \ album.files

\* An instruction is new, or the last one delivered again.
MayArrive(u) == u >= last

Next ==
    \/ \E f \in Files, caption \in BOOLEAN : Receive(f, caption) \/ Gather(f, caption)
    \/ Flush \/ \E j \in Jobs : Stage(j) \/ Pop(j) \/ Refuse(j) \/ Enqueue(j) \/ EnqueueFails(j) \/ Restore(j)
    \/ \E u \in Texts : MayArrive(u) /\ (Text(u) \/ Direct(u) \/ Research(u) \/ DraftText(u) \/ RunDraft(u))
    \/ Take \/ TakeDirect \/ Insert \/ Discard
    \/ NewDraft \/ SaveDraft
    \/ Expire \/ Purge \/ Crash \/ Shutdown

Spec == Init /\ [][Next]_vars
-----------------------------------------------------------------------------
(* Properties.                                                             *)

\* The variables hold what they can hold.
TypeOK ==
    /\ disk \subseteq Files /\ album \in [files : SUBSET Files, caption : BOOLEAN]
    /\ pending \in [files : SUBSET Files, old : BOOLEAN]
    /\ \A j \in Jobs : /\ job[j].at \in {"idle", "debounce", "stage", "pop", "enqueue", "restore",
                                         "take", "take direct", "insert"}
                       /\ job[j].new \cup job[j].taken \subseteq Files
    /\ draft \in [open : BOOLEAN, texts : SUBSET Texts, files : SUBSET Files]
    /\ last \in Texts \cup {0} /\ upsets \in 0..MaxUpsets

\* A file belongs to one instruction: the stored batch, a task and the album never
\* share one, and what a batch or a task has is on disk whatever failed on the way.
FilesKept ==
    /\ pending.files \cup UNION {t.files : t \in tasks} \subseteq disk
    /\ \A t \in tasks : t.files \cap (pending.files \cup album.files) = {}
    /\ \A t1, t2 \in tasks : t1 # t2 => t1.files \cap t2.files = {}

\* An instruction delivered again makes no second task of its text.
PromptOnce ==
    \A t1, t2 \in tasks : t1.keyed /\ t2.keyed /\ t1.by = t2.by => t1 = t2

\* Files and instructions meet once.
OneInstruction == FilesKept /\ PromptOnce
=============================================================================
