------------------------------- MODULE Panel -------------------------------
(***************************************************************************)
(* The button panel of the owner's chat (control_ui.py): inputs asked for  *)
(* by a button and answered by a later message, wizards of several         *)
(* messages, confirmations, and lists whose buttons carry a position.      *)
(*                                                                         *)
(* Telegram delivers presses and messages one at a time; a button of an    *)
(* older page can be pressed at any time, and what the lists hold changes  *)
(* under the panel.  The chat is either an administrator's private one or  *)
(* not (trusted).                                                          *)
(***************************************************************************)
EXTENDS Naturals, Sequences

CONSTANTS
    Lists,      \* the lists addressed by position, a subset of
                \* {"file", "key", "hostkey", "backup"}
    Page,       \* the rows a page shows
    Tasks,      \* the owner's queued tasks
    Jobs,       \* the owner's schedules
    MaxPresses  \* confirmations, and changes made outside the panel

VARIABLES
    trusted,    \* the presses come from an administrator in a private chat
    wait,       \* ui_wait: the input the next message answers
    wizard,     \* ui_wizard: the wizard under way and its step
    confirm,    \* ui_confirm: what was asked to be confirmed
    items,      \* the entries of every list, in its order
    queue,      \* the state of every task
    jobs,       \* the schedules that exist
    done,       \* the operations executed after a confirmation
    asked,      \* the confirmations asked for
    outside     \* changes made outside the panel

vars == <<trusted, wait, wizard, confirm, items, queue, jobs, done, asked, outside>>

NoWait    == [mode |-> "none", on |-> 0]
NoWizard  == [mode |-> "none", step |-> "none"]
NoConfirm == [kind |-> "none", value |-> 0]

\* "sched" stands for sched_edit, sched_time and sched_repeat; "direct" for research
\* and download too.
Edits    == {"task_edit", "sched"}
Plain    == {"direct", "tz_custom", "age_recipient"}
AdminOps == {"key", "hostkey", "backup", "tool", "host"}

Ask(m, t) == [mode |-> m, on |-> t]
-----------------------------------------------------------------------------
Init ==
    /\ trusted \in BOOLEAN
    /\ wait = NoWait /\ wizard = NoWizard /\ confirm = NoConfirm
    /\ items = [l \in Lists |-> <<1, 2>>]
    /\ queue = [t \in Tasks |-> "waiting"]
    /\ jobs = Jobs
    /\ done = 0 /\ asked = 0 /\ outside = 0

\* The rows of a list that get buttons.
Rows(l) == 1..(IF Len(items[l]) < Page THEN Len(items[l]) ELSE Page)

\* Who may ask for an operation of this kind, and be asked to confirm it.
Gate(kind) == kind \in AdminOps => trusted

\* Whose confirmation runs it: an update can be asked for by anybody.
RunGate(kind) == kind \in AdminOps \cup {"update"} => trusted
-----------------------------------------------------------------------------
(* Inputs.                                                                  *)

\* An edit is asked for.  The mode is set before the schedule is looked up:
\* a press on a schedule that is gone is refused, and the input stays asked.
AskEdit ==
    /\ \/ \E t \in Tasks : wait' = Ask("task_edit", t)
       \/ \E j \in Jobs : wait' = Ask("sched", j)
    /\ wizard' = NoWizard
    /\ UNCHANGED <<confirm, items, queue, jobs, done, asked, outside>>

AskPlain ==
    /\ \E m \in Plain : (m = "age_recipient" => trusted) /\ wait' = Ask(m, 0)
    /\ wizard' = NoWizard
    /\ UNCHANGED <<confirm, items, queue, jobs, done, asked, outside>>

\* A mirror's address, a command's options, a research topic: the wizard stays.
AskArguments ==
    /\ trusted
    /\ wait' = Ask("argument", 0)
    /\ UNCHANGED <<wizard, confirm, items, queue, jobs, done, asked, outside>>

AskWizard ==
    /\ \E w \in {[mode |-> "key_add", step |-> "provider"], [mode |-> "schedule", step |-> "name"]} :
           (w.mode = "key_add" => trusted) /\ wizard' = w
    /\ wait' = NoWait
    /\ UNCHANGED <<confirm, items, queue, jobs, done, asked, outside>>

\* A host credential's wizard: an input asked before stays asked.
AskHostWizard ==
    /\ trusted
    /\ \/ wizard' = [mode |-> "host", step |-> "label"]
       \/ /\ "hostkey" \in Lists /\ Rows("hostkey") # {}
          /\ wizard' = [mode |-> "host", step |-> "value"]
    /\ UNCHANGED <<wait, confirm, items, queue, jobs, done, asked, outside>>

\* A label of the fixed keyboard ends what was asked, and may ask for a task.
Menu ==
    /\ wait' \in {NoWait, Ask("direct", 0), Ask("daily", 0)}
    /\ wizard' = NoWizard
    /\ UNCHANGED <<confirm, items, queue, jobs, done, asked, outside>>

StepAfter == [provider |-> "label", label |-> "value", name |-> "timing", timing |-> "prompt"]

\* A wizard takes every message while it lasts: a refused value or a failed save
\* leaves the step as it is, the last step ends it.
AnswerWizard ==
    /\ wizard # NoWizard
    /\ \/ /\ wizard.step \in DOMAIN StepAfter
          /\ wizard' = [wizard EXCEPT !.step =
                 IF wizard = [mode |-> "key_add", step |-> "label"] THEN "secret" ELSE StepAfter[@]]
       \/ wizard.step \in {"value", "secret", "prompt"} /\ wizard' = NoWizard
       \/ wizard' = wizard
    /\ UNCHANGED <<wait, confirm, items, queue, jobs, done, asked, outside>>

\* Whether an edit finds what it is to change.
CanEdit == IF wait.mode = "task_edit" THEN queue[wait.on] = "waiting" ELSE wait.on \in jobs

\* The message answers an edit.  A value that is refused, or a task or schedule
\* that can no longer be edited, leaves the input asked.
AnswerEdit ==
    /\ wizard = NoWizard /\ wait.mode \in Edits
    /\ wait' \in {wait} \cup (IF CanEdit THEN {NoWait} ELSE {})
    /\ UNCHANGED <<wizard, confirm, items, queue, jobs, done, asked, outside>>

\* It answers another input, which is over whatever comes of it; only an unknown
\* time zone is asked for again.
AnswerOther ==
    /\ wizard = NoWizard /\ wait.mode \notin Edits \cup {"none"}
    /\ wait' \in {NoWait} \cup (IF wait.mode = "tz_custom" THEN {wait} ELSE {})
    /\ UNCHANGED <<wizard, confirm, items, queue, jobs, done, asked, outside>>
-----------------------------------------------------------------------------
(* Confirmations.                                                           *)

(* The buttons of every page that ask for a confirmation.  A page stays in  *)
(* the chat: what it offered once can be pressed whatever has happened.     *)

Button(k, v) == [kind |-> k, value |-> v]

\* The agent's page: a new session.
AgentButtons == {Button("new", 0)}

\* The running tasks can be stopped, the waiting ones deleted.
TaskButtons == {Button(k, t) : k \in {"task", "cancel"}, t \in Tasks}

\* The page of a schedule.
ScheduleButtons == {Button("schedule", j) : j \in Jobs}

\* The downloads, the provider keys, the host's credentials and the backups: the
\* button of a row carries the row's position.
ListButtons == {Button(l, i) : l \in Lists, i \in 1..Page}

\* A tool is removed, or all are activated.
ToolButtons == {Button("tool", 0)}

\* A service is restarted, the disk cleaned up, the host rebooted.
HostButtons == {Button("host", 0)}

\* The agent, the system or the bridge is updated.
UpdateButtons == {Button("update", 0)}

Confirmable ==
    AgentButtons \cup TaskButtons \cup ScheduleButtons \cup ListButtons
    \cup ToolButtons \cup HostButtons \cup UpdateButtons

Confirm ==
    /\ asked < MaxPresses
    /\ \E c \in Confirmable : Gate(c.kind) /\ confirm' = c
    /\ asked' = asked + 1
    /\ UNCHANGED <<wait, wizard, items, queue, jobs, done, outside>>

RemoveAt(s, i) == SubSeq(s, 1, i - 1) \o SubSeq(s, i + 1, Len(s))

\* What the operation changes: the row that has the position now.
Effect(c) ==
    /\ items' = IF c.kind \in Lists /\ c.value \in Rows(c.kind)
                THEN [items EXCEPT ![c.kind] = RemoveAt(@, c.value)] ELSE items
    /\ queue' = IF c.kind = "task" /\ queue[c.value] = "waiting" THEN [queue EXCEPT ![c.value] = "gone"]
                ELSE IF c.kind = "cancel" /\ queue[c.value] \in {"waiting", "running"} THEN [queue EXCEPT ![c.value] = "gone"]
                ELSE queue
    /\ jobs' = IF c.kind = "schedule" THEN jobs \ {c.value} ELSE jobs

\* As Execute, the confirmation read and left.
ExecuteKept ==
    /\ \/ \E c \in Confirmable : c = confirm /\ RunGate(c.kind) /\ Effect(c) /\ done' = done + 1
       \/ UNCHANGED <<items, queue, jobs, done>>
    /\ UNCHANGED <<confirm, wait, wizard, asked, outside>>

\* A yes button is pressed, perhaps an old one: the confirmation is taken, and the
\* operation runs only if it was this one.
Execute ==
    /\ \/ \E c \in Confirmable : c = confirm /\ RunGate(c.kind) /\ Effect(c) /\ done' = done + 1
       \/ UNCHANGED <<items, queue, jobs, done>>
    /\ confirm' = NoConfirm
    /\ UNCHANGED <<wait, wizard, asked, outside>>

\* Presses that need no confirmation.  A task is moved, a schedule is switched or
\* retimed: the queue's and the schedules' modules say what these do.

\* A failed task is retried, and can be edited and deleted again.
Retry ==
    /\ \E t \in Tasks : queue[t] = "failed" /\ queue' = [queue EXCEPT ![t] = "waiting"]
    /\ UNCHANGED <<wait, wizard, confirm, items, jobs, done, asked, outside>>

\* A backup is made, a key or a credential is added: an entry is new in its list,
\* and those behind it have other positions.
EntryAdded ==
    /\ \E l \in Lists : \E i \in 1..(Len(items[l]) + 1) :
           /\ Gate(l) /\ \A k \in DOMAIN items[l] : items[l][k] # 3
           /\ items' = [items EXCEPT ![l] = SubSeq(@, 1, i - 1) \o <<3>> \o SubSeq(@, i, Len(@))]
    /\ UNCHANGED <<wait, wizard, confirm, queue, jobs, done, asked, outside>>
-----------------------------------------------------------------------------
(* What changes without the panel.                                          *)

Outside == outside < MaxPresses /\ outside' = outside + 1

TaskMoves ==
    /\ Outside
    /\ \E t \in Tasks :
           \/ queue[t] = "waiting" /\ queue' = [queue EXCEPT ![t] = "running"]
           \/ queue[t] = "running" /\ \E s \in {"failed", "gone"} : queue' = [queue EXCEPT ![t] = s]
    /\ UNCHANGED <<wait, wizard, confirm, items, jobs, done, asked>>

ListChanges ==
    /\ Outside
    /\ \E l \in Lists : \E i \in DOMAIN items[l] : items' = [items EXCEPT ![l] = RemoveAt(@, i)]
    /\ UNCHANGED <<wait, wizard, confirm, queue, jobs, done, asked>>

\* A restart forgets what the chat was asked; the buttons remain.
Restart ==
    /\ Outside
    /\ wait' = NoWait /\ wizard' = NoWizard /\ confirm' = NoConfirm
    /\ UNCHANGED <<items, queue, jobs, done, asked>>
-----------------------------------------------------------------------------
Next ==
    /\ UNCHANGED trusted
    /\ \/ AskEdit \/ AskPlain \/ AskArguments \/ AskWizard \/ AskHostWizard \/ Menu
       \/ AnswerWizard \/ AnswerEdit \/ AnswerOther
       \/ Confirm \/ Execute \/ Retry \/ EntryAdded
       \/ TaskMoves \/ ListChanges \/ Restart

Spec == Init /\ [][Next]_vars
-----------------------------------------------------------------------------
\* An operation behind a confirmation runs at most once for each confirmation
\* asked, however often the yes buttons of old messages are pressed.
ConfirmedOnce == done <= asked - (IF confirm = NoConfirm THEN 0 ELSE 1)

=============================================================================
