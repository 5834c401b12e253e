------------------------------ MODULE Progress ------------------------------
(***************************************************************************)
(* One status message for a turn: the executor and the reader of the       *)
(* agent's events both edit it and both add to the task's trail            *)
(* (progress_reporter.py, progress.py, live_output.py), and so do the      *)
(* owner's commands, the one that queued the task and the one that cancels *)
(* it (commands/tasks.py).  The executor cancels the reader in its last    *)
(* steps, after the final answer is out (task_execution_service.py); the   *)
(* stream may have ended by itself, and the reader be about its own last   *)
(* steps, which the cancellation then cuts off.                            *)
(***************************************************************************)
EXTENDS Naturals

CONSTANTS
    Live,        \* whether previews are on (AGENT_LIVE_OUTPUT)
    MaxTrail,    \* bound on the entries of a trail
    MaxRefused   \* bound on messages and edits Telegram refuses

VARIABLES
    turn,        \* where the executor is
    shown,       \* what the status message says
    target,      \* whether the reporter knows its message
    reader,      \* the reader of the events
    editing,     \* the reader's edit that is under way
    buffer,      \* whether text waits for its preview
    previewing,  \* whether a preview was shown: _live_message_text
    recent,      \* whether the last rendering is recent
    trail,       \* entries recorded
    saved,       \* entries persisted
    answered,    \* history: entries when the final answer went out
    resting,     \* whether the last persistence is recent
    place,       \* the command that queued the task: it looks for the task's
                 \* place in the queue, then edits the message, then is over
    cancelled,   \* whether the owner's cancellation was said
    refused

commands == <<answered, place, cancelled>>
vars == <<turn, shown, target, reader, editing, buffer, previewing, recent, trail, saved, resting,
          answered, place, cancelled, refused>>

Init ==
    /\ turn = "begin" /\ shown = "nothing" /\ target = FALSE
    /\ reader = "off" /\ editing = "no" /\ buffer = FALSE /\ previewing = FALSE /\ recent = FALSE
    /\ trail = 0 /\ saved = 0 /\ resting = FALSE /\ answered = 0
    /\ place = "look" /\ cancelled = FALSE /\ refused = 0

Refused == refused < MaxRefused /\ refused' = refused + 1

\* _persist: a burst is written once, and at once when it is forced.
Persist(entries, force) ==
    IF force \/ ~resting THEN saved' = entries /\ resting' = TRUE ELSE UNCHANGED <<saved, resting>>

-----------------------------------------------------------------------------
(* The executor.                                                           *)

\* start: the queue's own message is edited, or one is sent.
Start ==
    /\ turn = "begin" /\ turn' = "working"
    /\ trail' = 1 /\ Persist(1, TRUE)
    /\ \/ target' = TRUE /\ shown' = "progress" /\ recent' = TRUE /\ UNCHANGED refused
       \/ target' \in BOOLEAN /\ Refused /\ UNCHANGED <<shown, recent>>
    /\ UNCHANGED <<reader, editing, buffer, previewing, commands>>

\* A milestone of the executor's own; the last before the answer is forced.
Milestone(force) ==
    /\ turn = "working" /\ trail < MaxTrail
    /\ trail' = trail + 1 /\ Persist(trail + 1, FALSE)
    /\ IF target /\ ~previewing /\ (force \/ ~recent)
         THEN \/ shown' = "progress" /\ recent' = TRUE /\ UNCHANGED refused
              \/ Refused /\ UNCHANGED <<shown, recent>>
         ELSE UNCHANGED <<shown, recent, refused>>
    /\ UNCHANGED <<turn, target, reader, editing, buffer, previewing, commands>>

Listen ==
    /\ turn = "working" /\ reader = "off"
    /\ reader' = "reading"
    /\ UNCHANGED <<turn, shown, target, editing, buffer, previewing, recent, trail, saved, resting, refused, commands>>

\* finalize_text: edited as HTML, edited as plain text, or sent anew.
Finalize ==
    /\ turn = "working" /\ trail < MaxTrail
    /\ turn' = "after"
    /\ trail' = trail + 1 /\ Persist(trail + 1, TRUE) /\ answered' = trail + 1
    /\ \/ shown' = "final" /\ target' = TRUE /\ recent' = TRUE /\ UNCHANGED refused
       \/ Refused /\ UNCHANGED <<shown, target, recent>>
    /\ UNCHANGED <<reader, editing, buffer, previewing, place, cancelled>>

\* A task that is deferred again leaves without a word.
Defer ==
    /\ turn = "working" /\ turn' = "after"
    /\ UNCHANGED <<shown, target, reader, editing, buffer, previewing, recent, trail, saved, resting, refused, commands>>

\* The reader is cancelled in the stream: an edit under way may have been made, and
\* what is buffered is still to be published.
Cancel ==
    /\ turn = "after" /\ turn' = "closing"
    /\ reader # "leaving"
    /\ shown' \in {shown, IF editing = "no" THEN shown ELSE editing}
    /\ editing' = "no"
    /\ reader' = IF reader = "reading" THEN "leaving" ELSE reader
    /\ UNCHANGED <<target, buffer, previewing, recent, trail, saved, resting, refused, commands>>

\* It is cancelled in its own last steps: a CancelledError in the flush passes by the
\* last write, and one that waits for the store's lock writes nothing.
CutOff ==
    /\ turn = "after" /\ turn' = "closing"
    /\ reader = "leaving" /\ reader' = "cut"
    /\ shown' \in {shown, IF buffer /\ target THEN "preview" ELSE shown}
    /\ saved' \in {saved, IF buffer THEN saved ELSE trail}
    /\ UNCHANGED <<target, editing, buffer, previewing, recent, trail, resting, refused, commands>>

Leave ==
    /\ turn = "closing" /\ turn' = "left"
    /\ reader \in {"off", "stopped", "cut"}
    /\ UNCHANGED <<shown, target, reader, editing, buffer, previewing, recent, trail, saved, resting, refused, commands>>

-----------------------------------------------------------------------------
(* The reader of the events.                                               *)

\* An event worth a line: recorded, persisted, and rendered unless the last
\* rendering is recent or a preview stands.
Event ==
    /\ reader = "reading" /\ editing = "no" /\ trail < MaxTrail
    /\ trail' = trail + 1 /\ Persist(trail + 1, FALSE)
    /\ editing' = IF target /\ ~previewing /\ ~recent THEN "progress" ELSE "no"
    /\ UNCHANGED <<turn, shown, target, reader, buffer, previewing, recent, refused, commands>>

\* Text of the assistant: published when the last preview is old enough.
Chunk ==
    /\ Live /\ reader = "reading" /\ editing = "no"
    /\ \/ buffer' = TRUE /\ UNCHANGED editing
       \/ target /\ buffer' = TRUE /\ editing' = "preview"
       \/ ~target /\ buffer' = FALSE /\ UNCHANGED editing
    /\ UNCHANGED <<turn, shown, target, reader, previewing, recent, trail, saved, resting, refused, commands>>

\* The edit is answered.
Edited ==
    /\ editing # "no" /\ editing' = "no"
    /\ \/ /\ shown' = editing /\ recent' = TRUE
          /\ IF editing = "preview" THEN buffer' = FALSE /\ previewing' = TRUE
                                    ELSE UNCHANGED <<buffer, previewing>>
          /\ UNCHANGED refused
       \/ Refused /\ UNCHANGED <<shown, recent, buffer, previewing>>
    /\ UNCHANGED <<turn, target, reader, trail, saved, resting, commands>>

\* The stream has ended or failed for good, or what it brought did.
StreamEnds ==
    /\ reader = "reading" /\ editing = "no"
    /\ reader' = "leaving"
    /\ UNCHANGED <<turn, shown, target, editing, buffer, previewing, recent, trail, saved, resting, refused, commands>>

\* consume_events, finally: what is buffered is published,
Flush ==
    /\ reader = "leaving" /\ editing = "no" /\ buffer
    /\ buffer' = FALSE
    /\ IF target THEN \/ shown' = "preview" /\ previewing' = TRUE /\ recent' = TRUE /\ UNCHANGED refused
                      \/ Refused /\ UNCHANGED <<shown, previewing, recent>>
                 ELSE UNCHANGED <<shown, previewing, recent, refused>>
    /\ UNCHANGED <<turn, target, reader, editing, trail, saved, resting, commands>>

\* Fault: the last write is one that may rest.
StopResting ==
    /\ reader = "leaving" /\ ~buffer
    /\ reader' = "stopped" /\ Persist(trail, FALSE)
    /\ UNCHANGED <<turn, shown, target, editing, buffer, previewing, recent, trail, refused, commands>>

\* and the trail is written once more.
Stop ==
    /\ reader = "leaving" /\ ~buffer
    /\ reader' = "stopped" /\ Persist(trail, TRUE)
    /\ UNCHANGED <<turn, shown, target, editing, buffer, previewing, recent, trail, refused, commands>>

TimePasses ==
    /\ recent \/ resting
    /\ recent' \in {FALSE, recent} /\ resting' \in {FALSE, resting}
    /\ UNCHANGED <<turn, shown, target, reader, editing, buffer, previewing, trail, saved, refused, commands>>

-----------------------------------------------------------------------------
(* The owner's commands.                                                   *)

\* _announce_queued looks at the queue: nothing is said of a task that is taken or
\* comes first.
LookForPlace ==
    /\ place = "look"
    /\ place' \in IF turn = "begin" THEN {"edit", "over"} ELSE {"over"}
    /\ UNCHANGED <<turn, shown, target, reader, editing, buffer, previewing, recent, trail, saved, resting,
                   answered, cancelled, refused>>

\* It edits the message, whoever has edited it since.
TellPlace ==
    /\ place = "edit" /\ place' = "over"
    /\ \/ shown' = "queued" /\ UNCHANGED refused
       \/ Refused /\ UNCHANGED shown
    /\ UNCHANGED <<turn, target, reader, editing, buffer, previewing, recent, trail, saved, resting, answered, cancelled>>

\* /cancel and /abort, once for a task: the reporter is there until the executor
\* leaves, and says its last word for them too.
OwnerCancels ==
    /\ turn \in {"working", "after", "closing"} /\ ~cancelled /\ trail < MaxTrail
    /\ cancelled' = TRUE
    /\ trail' = trail + 1 /\ Persist(trail + 1, TRUE)
    /\ \/ shown' = "final" /\ target' = TRUE /\ recent' = TRUE /\ UNCHANGED refused
       \/ Refused /\ UNCHANGED <<shown, target, recent>>
    /\ UNCHANGED <<turn, reader, editing, buffer, previewing, answered, place>>

Next ==
    \/ Start \/ \E force \in BOOLEAN : Milestone(force)
    \/ Listen \/ Finalize \/ Defer \/ Cancel \/ CutOff \/ Leave
    \/ Event \/ Chunk \/ Edited \/ StreamEnds \/ Flush \/ Stop
    \/ LookForPlace \/ TellPlace \/ OwnerCancels
    \/ TimePasses

Spec == Init /\ [][Next]_vars
-----------------------------------------------------------------------------
(* Properties.                                                             *)

\* The variables hold what they can hold.
TypeOK ==
    /\ turn \in {"begin", "working", "after", "closing", "left"}
    /\ shown \in {"nothing", "queued", "progress", "preview", "final"} /\ target \in BOOLEAN
    /\ reader \in {"off", "reading", "leaving", "stopped", "cut"}
    /\ editing \in {"no", "progress", "preview"}
    /\ {buffer, previewing, recent, resting, cancelled} \subseteq BOOLEAN
    /\ place \in {"look", "edit", "over"}
    /\ trail \in 0..MaxTrail /\ saved \in 0..trail /\ answered \in 0..trail /\ refused \in 0..MaxRefused

\* "a finished task always keeps its full trail" (progress_reporter.py:412), however
\* the executor's, the reader's and the owner's entries were written together, but for
\* one case in which the code does not: the stream had ended by itself and the
\* executor's cancellation cut off the reader's last write.  What was recorded until
\* the answer went out is kept even then.
TrailKept ==
    turn = "left" /\ answered > 0 =>
      /\ saved >= answered
      /\ reader # "cut" => saved = trail

=============================================================================
