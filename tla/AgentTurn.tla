------------------------------ MODULE AgentTurn ------------------------------
(***************************************************************************)
(* One task's conversation with the agent: the executor's turn             *)
(* (task_execution_service.py), the resumable submission                   *)
(* (opencode_client.py, _send_resumable) and, external to the repository,  *)
(* the session of the OpenCode server it talks to.                         *)
(*                                                                         *)
(* TaskPool sees a turn as one step that ends somehow.  Here a turn is its *)
(* HTTP requests, every one of which may fail with or without having had   *)
(* its effect; the message id in the task's checkpoint is what ties the    *)
(* attempts of a task together.                                            *)
(***************************************************************************)
EXTENDS Integers, FiniteSets

CONSTANTS
    MaxMessages,   \* bound on the message ids of the task
    MaxFailures,   \* transient failures that end the task (5 in the code)
    Upsets,        \* what may go wrong: members of Kinds
    MaxUpsets,     \* bound on how often something does
    IdlePolls      \* polls of an idle session that end the turn (3 in the code)

\* Requests that fail (with or without their effect, with a 5xx, 402, 408 or 429,
\* with another 4xx), restarts of the OpenCode server and of the bridge, waits for the provider,
\* and a step of the agent between the two reads of one poll
Faults == {"transport", "unavailable", "rejected"}
Kinds  == Faults \cup {"agent", "bridge", "provider", "between"}

ASSUME TurnAssumption ==
    /\ MaxMessages \in Nat \ {0} /\ MaxFailures \in Nat \ {0}
    /\ Upsets \subseteq Kinds /\ MaxUpsets \in Nat /\ IdlePolls \in Nat \ {0}

Messages == 1..MaxMessages

\* Of a message the server shows how far its turn is and its latest reply: a
\* step in progress, a finished step with more to follow, the finished last
\* step (with or without text), or an error.
Live     == {"accepted", "running", "waiting"}
Progress == {"absent", "ended"} \cup Live
Replies  == {"none", "open", "step", "more", "answer", "blank", "provider", "fatal"}
Complete == {"step", "answer", "blank"}

Stages == {"idle", "lookup", "submit", "post", "watch", "abort", "status", "messages"}

VARIABLES
    row,        \* status of the task: queued, running, deferred or how it ended
    id,         \* checkpoint["message_id"], 0 when it has none
    used,       \* message ids drawn so far
    failures,   \* checkpoint["transient_failures"]
    stage,      \* where the executor is
    seen,       \* the session's state as the executor has read it
    idleSeen,   \* idle_without_reply
    asked,      \* whether the second prompt after an empty reply is under way
    progress, reply, \* of every message, on the server
    ownerAborts, \* a cancellation that has yet to abort the session
    upsets,     \* how often something went wrong
    happened    \* and what did

task   == <<row, id, used, failures>>
exec   == <<stage, seen, idleSeen, asked>>
server == <<progress, reply>>
trouble == <<upsets, happened>>
vars   == <<task, exec, server, ownerAborts, trouble>>

Init ==
    /\ row = "queued" /\ id = 0 /\ used = 0 /\ failures = 0
    /\ stage = "idle" /\ seen = "idle" /\ idleSeen = 0 /\ asked = FALSE
    /\ progress = [m \in Messages |-> "absent"]
    /\ reply = [m \in Messages |-> "none"]
    /\ ownerAborts = FALSE /\ upsets = 0 /\ happened = {}

IsLive(m) == progress[m] \in Live

Upset(kind) ==
    /\ kind \in Upsets /\ upsets < MaxUpsets
    /\ upsets' = upsets + 1 /\ happened' = happened \cup {kind}

Active == row \notin {"cancelled", "done", "failed"}

-----------------------------------------------------------------------------
(* How the executor leaves a turn *)

Leave(status) ==
    /\ row' = status
    /\ stage' = "idle" /\ asked' = FALSE
    /\ UNCHANGED <<seen, idleSeen, used>>

\* A failure the policy retries.  A pending one keeps the message id; one that
\* is not unlimited counts against the budget.
Retried(pending, unlimited) ==
    /\ failures' = IF unlimited THEN 0 ELSE failures + 1
    /\ id' = IF pending THEN id ELSE 0
    /\ Leave(IF unlimited \/ failures + 1 < MaxFailures THEN "deferred" ELSE "failed")

Fails(pending, unlimited) ==
    IF row = "cancelled"
    THEN Leave("cancelled") /\ UNCHANGED <<id, failures>>
    ELSE Retried(pending, unlimited)

FailsForGood ==
    /\ Leave(IF row = "cancelled" THEN "cancelled" ELSE "failed")
    /\ UNCHANGED <<id, failures>>

\* Fault: a transport failure is taken for a confirmed one.
RequestFailsForgetful(kind) == Upset(kind) /\ Fails(FALSE, FALSE)

\* The same message again with another key, variant or model, or without parts
SentAgain == stage' = "lookup" /\ UNCHANGED <<task, seen, idleSeen, asked>>

\* A request times out or loses its connection: pending, unless the server broke
\* off in the middle (RemoteProtocolError), which fails the task.  A 5xx and 408
\* count, 402 and 429 do not, and 429 may be tried with another key first: whichever
\* request they answer, the prompt is taken to be over.  Any other 4xx rejects the
\* prompt, which is sent again in another form or fails the task.
RequestFails(kind) ==
    /\ Upset(kind)
    /\ \/ kind = "transport" /\ (Fails(TRUE, FALSE) \/ FailsForGood)
       \/ kind = "unavailable" /\ \E unlimited \in BOOLEAN : Fails(FALSE, unlimited)
       \/ kind = "rejected" /\ FailsForGood
       \/ kind \in {"unavailable", "rejected"} /\ SentAgain

-----------------------------------------------------------------------------
(* The executor *)

\* A worker takes the task up; the checkpoint keeps or draws the message id
Begin ==
    /\ stage = "idle" /\ row \in {"queued", "deferred"}
    /\ IF id # 0 THEN UNCHANGED <<id, used>>
       ELSE used < MaxMessages /\ used' = used + 1 /\ id' = used + 1
    /\ row' = "running" /\ stage' = "lookup"
    /\ UNCHANGED <<failures, seen, idleSeen, asked, server, ownerAborts, trouble>>

Goes(to) == stage' = to /\ UNCHANGED <<task, seen, asked, ownerAborts, trouble>>

Found == progress[id] # "absent"

Lookup ==
    /\ stage = "lookup"
    /\ UNCHANGED <<server, ownerAborts>>
    /\ \/ Goes(IF Found THEN "watch" ELSE "submit") /\ idleSeen' = 0
       \/ \E kind \in Faults : RequestFails(kind)

Submit ==
    /\ stage = "submit"
    /\ UNCHANGED <<server, ownerAborts, trouble>>
    /\ IF Active THEN Goes("post") /\ UNCHANGED idleSeen
       ELSE Leave(row) /\ UNCHANGED <<id, failures>>

Accept ==
    /\ progress' = [progress EXCEPT ![id] = "accepted"]
    /\ reply' = [reply EXCEPT ![id] = "none"]

Post ==
    /\ stage = "post"
    /\ UNCHANGED ownerAborts
    /\ \/ Accept /\ Goes("watch") /\ idleSeen' = 0
       \/ Accept /\ RequestFails("transport")
       \/ UNCHANGED server /\ \E kind \in Faults : RequestFails(kind)

Watch ==
    /\ stage = "watch"
    /\ Goes(IF Active THEN "status" ELSE "abort")
    /\ UNCHANGED <<idleSeen, server>>

\* Fault: a turn that was cancelled is left to itself.
AbortedNever == UNCHANGED server

\* An abort ends every turn of the session; a step in progress ends in an error
Aborted ==
    /\ progress' = [m \in Messages |-> IF IsLive(m) THEN "ended" ELSE progress[m]]
    /\ reply' = [m \in Messages |->
                   IF IsLive(m) /\ reply[m] \in {"open", "more"} THEN "fatal" ELSE reply[m]]

Abort ==
    /\ stage = "abort"
    /\ UNCHANGED ownerAborts
    /\ \/ Aborted /\ Leave(row) /\ UNCHANGED <<id, failures, trouble>>
       \/ (Aborted \/ UNCHANGED server) /\ RequestFails("transport")
       \/ /\ UNCHANGED server /\ \E kind \in Faults \ {"transport"} : Upset(kind)
          /\ Leave(row) /\ UNCHANGED <<id, failures>>

SessionState ==
    IF \E m \in Messages : progress[m] = "running" THEN "busy"
    ELSE IF \E m \in Messages : progress[m] = "waiting" THEN "retry" ELSE "idle"

Status ==
    /\ stage = "status"
    /\ UNCHANGED <<server, ownerAborts>>
    /\ \/ /\ seen' = SessionState /\ stage' = "messages"
          /\ UNCHANGED <<task, idleSeen, asked, trouble>>
       \/ \E kind \in Faults : RequestFails(kind)

\* Fault: a completed step is taken for the answer in a busy session.
AnswersEarly == reply[id] \in Complete

\* The latest reply is complete and the session idle
Answers == seen = "idle" /\ reply[id] \in Complete

\* An empty reply is followed by one more prompt, under an id of its own
Answered ==
    IF row = "cancelled" THEN Leave(row) /\ UNCHANGED <<id, failures>>
    ELSE IF reply[id] # "blank" THEN Leave("done") /\ UNCHANGED <<id, failures>>
    ELSE IF asked THEN Leave("failed") /\ UNCHANGED <<id, failures>>
    ELSE /\ used < MaxMessages /\ used' = used + 1 /\ id' = used + 1
         /\ stage' = "lookup" /\ asked' = TRUE
         /\ UNCHANGED <<row, failures, seen, idleSeen>>

\* The session has been idle for IdlePolls polls, this one included
Interrupted == seen = "idle" /\ idleSeen + 1 >= IdlePolls

\* Fault: as its name says, the count stops at the first sign of a reply.
IdleCountWithoutReply == IF seen = "idle" /\ reply[id] = "none" THEN idleSeen + 1 ELSE 0

IdleCount == IF seen = "idle" THEN idleSeen + 1 ELSE 0

\* What a poll finds, in the order of the code
Finding ==
    IF reply[id] \in {"provider", "fatal"} THEN reply[id]
    ELSE IF Answers THEN "answer"
    ELSE IF seen = "retry" THEN "waiting"
    ELSE IF Interrupted THEN "interrupted" ELSE "nothing"

\* An error reply is a failure of the provider, with its quota unlimited, or a
\* permanent one.
ReadMessages ==
    /\ stage = "messages"
    /\ UNCHANGED <<server, ownerAborts>>
    /\ \/ \E kind \in Faults : RequestFails(kind)
       \/ /\ UNCHANGED trouble
          /\ \/ Finding = "provider" /\ \E unlimited \in BOOLEAN : Fails(FALSE, unlimited)
             \/ Finding = "waiting" /\ \E unlimited \in BOOLEAN : Fails(TRUE, unlimited)
             \/ Finding = "interrupted" /\ Fails(FALSE, FALSE)
             \/ Finding = "fatal" /\ FailsForGood
             \/ Finding = "answer" /\ Answered
             \/ /\ Finding = "nothing"
                /\ stage' = "watch" /\ idleSeen' = IdleCount
                /\ UNCHANGED <<task, seen, asked>>

-----------------------------------------------------------------------------
(* The owner, and restarts of the bridge *)

\* The row is withdrawn first; the session is aborted in a later request
Cancel ==
    /\ row \in {"queued", "running", "deferred"}
    /\ row' = "cancelled"
    /\ ownerAborts' = (row # "queued")
    /\ UNCHANGED <<id, used, failures, exec, server, trouble>>

OwnerAbort ==
    /\ ownerAborts /\ ownerAborts' = FALSE
    /\ \/ Aborted /\ UNCHANGED trouble
       \/ Upset("transport") /\ (Aborted \/ UNCHANGED server)
       \/ UNCHANGED server /\ \E kind \in Faults \ {"transport"} : Upset(kind)
    /\ UNCHANGED <<task, exec>>

BridgeRestarts ==
    /\ Upset("bridge")
    /\ row' = IF row = "running" THEN "queued" ELSE row
    /\ stage' = "idle" /\ asked' = FALSE
    /\ ownerAborts' = FALSE
    /\ UNCHANGED <<id, used, failures, seen, idleSeen, server>>

-----------------------------------------------------------------------------
(* The session on the OpenCode server (external) *)

Turn(m, to, answer) ==
    /\ progress' = [progress EXCEPT ![m] = to]
    /\ reply' = [reply EXCEPT ![m] = answer]
    /\ UNCHANGED <<task, exec, ownerAborts>>

\* A prompt is taken up before the polls give the session up as idle
Starts(m) == progress[m] = "accepted" /\ Turn(m, "running", "none") /\ UNCHANGED trouble

Works(m) ==
    /\ progress[m] = "running"
    /\ IF stage = "messages" /\ seen = "idle" /\ reply[m] # "none"
       THEN Upset("between") ELSE UNCHANGED trouble
    /\ \/ reply[m] = "none" /\ Turn(m, "running", "open")
       \/ reply[m] = "open" /\ Turn(m, "running", "step")
       \/ reply[m] = "step" /\ Turn(m, "running", "more")
       \/ reply[m] \in {"open", "more"} /\ \E r \in {"answer", "blank"} :
            (r = "blank" => used < MaxMessages) /\ Turn(m, "ended", r)
       \/ reply[m] \in {"none", "open", "more"} /\ \E r \in {"provider", "fatal"} : Turn(m, "ended", r)

\* The provider is unavailable and the server retries by itself
Waits(m) == progress[m] = "running" /\ Upset("provider") /\ Turn(m, "waiting", reply[m])

Recovers(m) == progress[m] = "waiting" /\ Turn(m, "running", reply[m]) /\ UNCHANGED trouble

AgentRestarts ==
    /\ Upset("agent")
    /\ progress' = [m \in Messages |-> IF IsLive(m) THEN "ended" ELSE progress[m]]
    /\ UNCHANGED <<reply, task, exec, ownerAborts>>

\* The server takes a prompt up in time: no third poll finds it untouched
TakenUpInTime == stage = "status" /\ idleSeen + 1 >= IdlePolls => progress[id] # "accepted"

Executor == Begin \/ Lookup \/ Submit \/ Post \/ Watch \/ Abort \/ (TakenUpInTime /\ Status) \/ ReadMessages
Session  == \E m \in Messages : Starts(m) \/ Works(m) \/ Recovers(m)

Next ==
    \/ Executor \/ Session
    \/ Cancel \/ OwnerAbort \/ BridgeRestarts
    \/ AgentRestarts \/ \E m \in Messages : Waits(m)

Spec == Init /\ [][Next]_vars

\* The event loop runs the executor, the server works on what it accepted,
\* and a provider that fails recovers or is given up.
FairSpec == Spec /\ WF_vars(Executor) /\ WF_vars(Session)

-----------------------------------------------------------------------------
(* Properties *)

\* Task, executor and session are well typed; the executor has a message id
\* whenever it is in a turn.
TypeOK ==
    /\ row \in {"queued", "running", "deferred", "cancelled", "done", "failed"}
    /\ id \in 0..used /\ used \in 0..MaxMessages /\ failures \in 0..MaxFailures
    /\ stage \in Stages /\ (stage # "idle" => id # 0)
    /\ seen \in {"idle", "busy", "retry"} /\ idleSeen \in 0..IdlePolls
    /\ asked \in BOOLEAN /\ ownerAborts \in BOOLEAN
    /\ progress \in [Messages -> Progress] /\ reply \in [Messages -> Replies]
    /\ upsets \in 0..MaxUpsets /\ happened \subseteq Upsets

\* A prompt goes out only when every earlier message of the task is over, and
\* over without an answer.  docs/durable-task-resume.md says "It does not send the
\* same prompt again when the message already exists" with no exception; the code
\* sends a second one after the server answered a lookup or a poll with a 5xx,
\* 402, 408 or 429, which it takes for the end of the prompt.
PromptWhenUnanswered ==
    (\E m \in Messages :
        /\ progress[m] = "absent" /\ progress'[m] = "accepted"
        /\ \E e \in 1..m - 1 : IsLive(e) \/ reply[e] = "answer")
    => "unavailable" \in happened

\* A message is submitted once, whatever is lost, restarted or retried.
SubmittedOnce ==
    \A m \in Messages : progress'[m] = "accepted" => progress[m] \in {"absent", "accepted"}

\* The agent is asked once for what it has not answered.
AskedOnce == [][PromptWhenUnanswered /\ SubmittedOnce]_vars

\* What is delivered as the result is the end of the agent's turn, not a step of
\* it, unless the agent restarted or moved on between the two reads of a poll.
DeliveredIsComplete ==
    row = "done" => reply[id] = "answer" \/ {"agent", "between"} \cap happened # {}

\* Once a cancelled task has left its executor and the owner's abort is done,
\* the agent does not work on it any more, unless a request failed or the bridge
\* restarted and never sent the abort.
CancelledMeansStopped ==
    row = "cancelled" /\ stage = "idle" /\ ~ownerAborts /\ happened \cap (Faults \cup {"bridge"}) = {}
        => \A m \in Messages : ~IsLive(m)

\* The executor gets out of every turn: an interrupted session, a provider that
\* waits and a lost answer included.
TurnLeft == (stage # "idle") ~> (stage = "idle")
==============================================================================
