-------------------------- MODULE ConversationProofs --------------------------
(***************************************************************************)
(* For every number of messages, sessions, repositories and upsets: what   *)
(* is delivered, asked and stopped in a turn (AgentTurn), and which        *)
(* session a prompt goes to (Workspaces).                                  *)
(*                                                                         *)
(* The argument for a turn is that only the message in the checkpoint can  *)
(* be at work or answered, until a 5xx, 402, 408 or 429 is taken for its   *)
(* end; for the workspaces, that a session keeps the repository it was     *)
(* made for, and that every place which hands one on (the row, the         *)
(* binding, the checkpoint, the executor) got it from a place that had it  *)
(* right, or lost it to a command that replaced it under the executor.     *)
(***************************************************************************)
EXTENDS Conversation, TLAPS

-----------------------------------------------------------------------------
(* The turn: its inductive invariant.                                      *)

\* A task that is open has failures left to make, and one without an executor
\* is not running; the executor is at work on a running task or a cancelled one.
RowAndStage ==
    /\ row \in {"queued", "running", "deferred"} => failures < MaxFailures
    /\ stage = "idle" => row # "running"
    /\ stage # "idle" => row \in {"running", "cancelled"}
    /\ stage = "abort" \/ ownerAborts => row = "cancelled"
    /\ row = "done" => id # 0

\* The server's record of a message: nothing is known of one not accepted, an
\* accepted one has no reply yet, and one that was answered or failed is over.
Recorded ==
    \A m \in Messages :
        /\ progress[m] \in {"absent", "accepted"} => reply[m] = "none"
        /\ reply[m] \in {"answer", "blank", "provider", "fatal"} => progress[m] = "ended"

\* Unused ids are unknown to the server, and one that is about to be posted is.
Fresh ==
    /\ \A m \in Messages : m > used => progress[m] = "absent"
    /\ stage \in {"submit", "post"} => progress[id] = "absent"

\* While no answer was taken for a confirmed failure, only the message in the
\* checkpoint may be at work or answered.
OthersOver ==
    "unavailable" \notin happened
        => \A m \in Messages : m # id => ~IsLive(m) /\ reply[m] # "answer"

\* A session found idle for the last of the polls has nothing at work.
GivenUpIsOver ==
    stage = "messages" /\ seen = "idle" /\ idleSeen + 1 >= IdlePolls => ~IsLive(id)

Broken == {"agent", "between"} \cap happened # {}

\* A step whose turn is over was cut off: by the agent's restart, if not by an
\* abort.
StepIsCutOff ==
    /\ \A m \in Messages :
          row # "cancelled" /\ progress[m] = "ended" /\ reply[m] = "step" => "agent" \in happened
    /\ row # "cancelled" /\ stage = "messages" /\ seen = "idle" /\ reply[id] = "step" => Broken

Quiet == happened \cap (Faults \cup {"bridge"}) = {}

\* Nothing is at work for a cancelled task, from the owner's abort on, until its
\* executor posts what it was about to and finds it cancelled.
StoppedUnlessWatched ==
    Quiet =>
        /\ row = "queued" => \A m \in Messages : progress[m] = "absent"
        /\ row = "cancelled" /\ ~ownerAborts /\ stage \notin {"watch", "abort"}
             => \A m \in Messages : ~IsLive(m)

TurnInv ==
    /\ TypeOK /\ RowAndStage /\ Recorded /\ Fresh /\ OthersOver /\ GivenUpIsOver
    /\ StepIsCutOff /\ StoppedUnlessWatched /\ DeliveredIsComplete

-----------------------------------------------------------------------------
(* What the pieces of an action do.                                        *)

\* At the start nothing was asked, and nothing is at work.
LEMMA TurnInit == Init => TurnInv
<1> SUFFICES ASSUME Init PROVE TurnInv
  OBVIOUS
<1>1. TypeOK
  <2>1. id \in 0..used /\ used \in 0..MaxMessages /\ failures \in 0..MaxFailures
    BY TurnAssumption DEF Init
  <2>2. idleSeen \in 0..IdlePolls /\ upsets \in 0..MaxUpsets
    BY TurnAssumption DEF Init
  <2>3. asked \in BOOLEAN /\ ownerAborts \in BOOLEAN
    BY DEF Init
  <2> QED BY <2>1, <2>2, <2>3 DEF Init, TypeOK, Stages, Progress, Replies
<1>2. RowAndStage
  BY TurnAssumption DEF Init, RowAndStage
<1>3. Recorded /\ Fresh /\ OthersOver /\ GivenUpIsOver /\ StepIsCutOff /\ StoppedUnlessWatched
  BY DEF Init, Recorded, Fresh, OthersOver, GivenUpIsOver, StepIsCutOff, StoppedUnlessWatched,
         IsLive, Live
<1> QED BY <1>1, <1>2, <1>3 DEF Init, TurnInv, DeliveredIsComplete

\* An upset is counted and remembered.
LEMMA UpsetType ==
    ASSUME TypeOK, NEW kind, Upset(kind)
    PROVE  /\ upsets' \in 0..MaxUpsets /\ happened' \subseteq Upsets
           /\ happened' = happened \cup {kind}
BY TurnAssumption DEF TypeOK, Upset

\* Leaving a turn.
LEMMA FailsType ==
    ASSUME TypeOK, RowAndStage, stage # "idle",
           NEW pending \in BOOLEAN, NEW unlimited \in BOOLEAN, Fails(pending, unlimited)
    PROVE  /\ row' \in {"cancelled", "deferred", "failed"} /\ stage' = "idle" /\ asked' = FALSE
           /\ UNCHANGED <<seen, idleSeen, used>>
           /\ failures' \in 0..MaxFailures
           /\ row' = "deferred" => failures' < MaxFailures
           /\ row' = "cancelled" <=> row = "cancelled"
           /\ id' \in {0, id} /\ (pending \/ row = "cancelled" => id' = id)
<1>1. CASE row = "cancelled"
  BY <1>1 DEF Fails, Leave, TypeOK
<1>2. CASE row # "cancelled"
  BY <1>2, TurnAssumption DEF Fails, Retried, Leave, TypeOK, RowAndStage
<1> QED BY <1>1, <1>2

\* How a failed request leaves the task: as it is, put off, or over; the message
\* is kept unless the answer is taken for its end.
LEMMA RequestFailsFacts ==
    ASSUME TypeOK, RowAndStage, stage # "idle", NEW kind \in Faults, RequestFails(kind)
    PROVE  /\ happened' = happened \cup {kind} /\ upsets' \in 0..MaxUpsets
           /\ happened' \subseteq Upsets
           /\ UNCHANGED <<seen, idleSeen, used>>
           /\ failures' \in 0..MaxFailures
           /\ row' \in {"running", "deferred"} => failures' < MaxFailures
           /\ row' = "cancelled" <=> row = "cancelled"
           /\ \/ stage' = "lookup" /\ UNCHANGED <<row, id, asked>>
              \/ stage' = "idle" /\ asked' = FALSE /\ row' \in {"cancelled", "deferred", "failed"}
           /\ id' \in {0, id} /\ (kind # "unavailable" => id' = id)
<1>1. happened' = happened \cup {kind} /\ upsets' \in 0..MaxUpsets /\ happened' \subseteq Upsets
  BY UpsetType DEF RequestFails
<1>2. CASE SentAgain \/ FailsForGood
  BY <1>1, <1>2 DEF SentAgain, FailsForGood, Leave, task, TypeOK, RowAndStage
<1>3. CASE kind = "transport" /\ Fails(TRUE, FALSE)
  BY <1>1, <1>3, FailsType
<1>4. CASE kind = "unavailable" /\ \E unlimited \in BOOLEAN : Fails(FALSE, unlimited)
  BY <1>1, <1>4, FailsType
<1> QED BY <1>2, <1>3, <1>4 DEF RequestFails

\* In a turn there is a message.
LEMMA IdIsMessage == ASSUME TypeOK, stage # "idle" PROVE id \in Messages
BY TurnAssumption DEF TypeOK, Messages

\* Where an accepted message stands.
LEMMA AcceptFacts ==
    ASSUME TypeOK, stage # "idle", Accept
    PROVE  /\ id \in Messages
           /\ progress' \in [Messages -> Progress] /\ reply' \in [Messages -> Replies]
           /\ progress'[id] = "accepted" /\ reply'[id] = "none"
           /\ \A m \in Messages \ {id} : progress'[m] = progress[m] /\ reply'[m] = reply[m]
BY TurnAssumption DEF TypeOK, Accept, Messages, Progress, Replies, Live

\* An abort ends what is at work, whatever it had come to.
LEMMA AbortedFacts ==
    ASSUME TypeOK, Aborted
    PROVE  /\ progress' \in [Messages -> Progress] /\ reply' \in [Messages -> Replies]
           /\ \A m \in Messages :
                 /\ progress'[m] = IF IsLive(m) THEN "ended" ELSE progress[m]
                 /\ reply'[m] = IF IsLive(m) /\ reply[m] \in {"open", "more"} THEN "fatal"
                                ELSE reply[m]
                 /\ progress'[m] \notin Live
BY DEF TypeOK, Aborted, Progress, Replies, Live, IsLive

\* A message's turn goes on.
LEMMA TurnFacts ==
    ASSUME TypeOK, NEW m \in Messages, NEW to \in Progress, NEW answer \in Replies, Turn(m, to, answer)
    PROVE  /\ progress' \in [Messages -> Progress] /\ reply' \in [Messages -> Replies]
           /\ progress'[m] = to /\ reply'[m] = answer
           /\ \A n \in Messages \ {m} : progress'[n] = progress[n] /\ reply'[n] = reply[n]
           /\ UNCHANGED <<task, exec, ownerAborts>>
BY DEF TypeOK, Turn

-----------------------------------------------------------------------------
(* The executor's actions.                                                 *)

\* A checkpoint without an id is given the next one, which no message has.
LEMMA BeginKeeps == ASSUME TurnInv, Begin PROVE TurnInv'
<1>1. /\ UNCHANGED <<failures, seen, idleSeen, asked, progress, reply, ownerAborts, upsets, happened>>
      /\ row' = "running" /\ stage' = "lookup" /\ stage = "idle" /\ row \in {"queued", "deferred"}
  BY DEF Begin, server, trouble
<1>2. TypeOK /\ RowAndStage
  BY DEF TurnInv
<1>3. /\ id' \in 0..used' /\ used' \in 0..MaxMessages /\ id' # 0 /\ used' >= used
      /\ id' = id \/ id = 0
  BY <1>2, TurnAssumption DEF Begin, TypeOK
<1>4. TypeOK'
  BY <1>1, <1>2, <1>3 DEF TypeOK, Stages
<1>5. RowAndStage'
  BY <1>1, <1>2 DEF RowAndStage
<1>6. Recorded' /\ GivenUpIsOver' /\ StepIsCutOff' /\ StoppedUnlessWatched' /\ DeliveredIsComplete'
  BY <1>1 DEF TurnInv, Recorded, GivenUpIsOver, StepIsCutOff, StoppedUnlessWatched,
              DeliveredIsComplete, Quiet
<1>7. Fresh'
  BY <1>1, <1>2, <1>3 DEF TurnInv, Fresh, Messages, TypeOK
<1>8. OthersOver'
  BY <1>1, <1>2, <1>3 DEF TurnInv, OthersOver, IsLive, Messages, TypeOK
<1> QED BY <1>4, <1>5, <1>6, <1>7, <1>8 DEF TurnInv

\* A request that fails: the message may be at work still, unless a transport
\* failure left it in the checkpoint, or the answer is taken for its end.
LEMMA RequestFailsKeeps ==
    ASSUME TurnInv, stage # "idle", NEW kind \in Faults, RequestFails(kind), ownerAborts' = ownerAborts,
           \/ UNCHANGED server
           \/ stage = "post" /\ kind = "transport" /\ Accept
           \/ stage = "abort" /\ kind = "transport" /\ Aborted
    PROVE  TurnInv'
<1>1. TypeOK /\ RowAndStage
  BY DEF TurnInv
<1>2. /\ happened' = happened \cup {kind} /\ upsets' \in 0..MaxUpsets
      /\ happened' \subseteq Upsets
      /\ UNCHANGED <<seen, idleSeen, used>>
      /\ failures' \in 0..MaxFailures
      /\ row' \in {"running", "deferred"} => failures' < MaxFailures
      /\ row' = "cancelled" <=> row = "cancelled"
      /\ \/ stage' = "lookup" /\ UNCHANGED <<row, id, asked>>
         \/ stage' = "idle" /\ asked' = FALSE /\ row' \in {"cancelled", "deferred", "failed"}
      /\ id' \in {0, id} /\ (kind # "unavailable" => id' = id)
  BY <1>1, RequestFailsFacts
<1>3. /\ progress' \in [Messages -> Progress] /\ reply' \in [Messages -> Replies]
      /\ \A m \in Messages \ {id} :
           \/ progress'[m] = progress[m] /\ reply'[m] = reply[m]
           \/ progress'[m] \notin Live /\ (reply'[m] = reply[m] \/ reply'[m] = "fatal")
  BY <1>1, AcceptFacts, AbortedFacts DEF TypeOK, server
<1>4. TypeOK'
  <2>1. row' \in {"running", "cancelled", "deferred", "failed"} /\ stage' \in Stages
        /\ (stage' # "idle" => id' # 0) /\ id' \in 0..used'
    BY <1>1, <1>2 DEF TypeOK, RowAndStage, Stages
  <2>2. asked' \in BOOLEAN /\ ownerAborts' \in BOOLEAN
    BY <1>1, <1>2 DEF TypeOK
  <2> QED BY <1>1, <1>2, <1>3, <2>1, <2>2 DEF TypeOK
<1>5. RowAndStage'
  BY <1>1, <1>2 DEF RowAndStage
<1>6. Recorded'
  <2>1. CASE UNCHANGED server
    BY <2>1 DEF TurnInv, Recorded, server
  <2>2. CASE Accept
    BY <1>1, <2>2, AcceptFacts DEF TurnInv, Recorded
  <2>3. CASE Aborted
    BY <1>1, <2>3, AbortedFacts DEF TurnInv, Recorded, IsLive, Live
  <2> QED BY <2>1, <2>2, <2>3
<1>7. Fresh'
  <2>1. stage' \notin {"submit", "post"}
    BY <1>2
  <2>2. CASE UNCHANGED server
    BY <1>2, <2>1, <2>2 DEF TurnInv, Fresh, server
  <2>3. CASE Accept
    BY <1>1, <1>2, <2>1, <2>3, AcceptFacts DEF TurnInv, Fresh, TypeOK, Messages
  <2>4. CASE Aborted
    BY <1>1, <1>2, <2>1, <2>4, AbortedFacts DEF TurnInv, Fresh, IsLive, Live
  <2> QED BY <2>2, <2>3, <2>4
<1>8. OthersOver'
  <2>1. CASE kind = "unavailable"
    BY <1>2, <2>1 DEF OthersOver
  <2>2. CASE kind # "unavailable"
    BY <1>2, <1>3, <2>2 DEF TurnInv, OthersOver, IsLive
  <2> QED BY <2>1, <2>2
<1>9. GivenUpIsOver' /\ StoppedUnlessWatched' /\ DeliveredIsComplete'
  BY <1>1, <1>2
     DEF GivenUpIsOver, StoppedUnlessWatched, Quiet, DeliveredIsComplete, RowAndStage
<1>10. StepIsCutOff'
  <2>1. stage' # "messages"
    BY <1>2
  <2>2. CASE Aborted /\ stage = "abort"
    BY <1>1, <1>2, <2>1, <2>2 DEF StepIsCutOff, RowAndStage
  <2>3. CASE UNCHANGED server
    BY <1>2, <2>1, <2>3 DEF TurnInv, StepIsCutOff, server
  <2>4. CASE Accept
    BY <1>1, <1>2, <2>1, <2>4, AcceptFacts DEF TurnInv, StepIsCutOff
  <2> QED BY <2>2, <2>3, <2>4
<1> QED BY <1>4, <1>5, <1>6, <1>7, <1>8, <1>9, <1>10 DEF TurnInv

\* Going on with the turn as the server is.
LEMMA GoesKeeps ==
    ASSUME TurnInv, stage # "idle", NEW to \in Stages \ {"idle", "abort"}, Goes(to), UNCHANGED server,
           idleSeen' \in 0..IdlePolls,
           to = "submit" => ~Found, to = "post" => stage = "submit", to # "messages",
           stage \in {"watch", "abort"} => row # "cancelled"
    PROVE  TurnInv'
<1>1. TypeOK /\ RowAndStage
  BY DEF TurnInv
<1>2. /\ UNCHANGED <<row, id, used, failures, seen, asked, progress, reply, ownerAborts, upsets, happened>>
      /\ stage' = to
  BY DEF Goes, task, server, trouble
<1>3. TypeOK' /\ RowAndStage'
  BY <1>1, <1>2 DEF TypeOK, RowAndStage
<1>4. Recorded' /\ OthersOver' /\ GivenUpIsOver' /\ StepIsCutOff' /\ DeliveredIsComplete'
  BY <1>2 DEF TurnInv, Recorded, OthersOver, IsLive, GivenUpIsOver, StepIsCutOff, DeliveredIsComplete
<1>5. Fresh'
  BY <1>2 DEF TurnInv, Fresh, Found
<1>6. StoppedUnlessWatched'
  BY <1>2 DEF TurnInv, StoppedUnlessWatched, Quiet, IsLive
<1> QED BY <1>3, <1>4, <1>5, <1>6 DEF TurnInv

\* Leaving without a fault, as the row has it.
LEMMA LeaveKeeps ==
    ASSUME TurnInv, stage # "idle", NEW outcome \in {"cancelled", "failed", "done"}, Leave(outcome),
           outcome = "cancelled" <=> row = "cancelled",
           stage \in {"watch", "abort"} => outcome # "cancelled",
           outcome = "done" => reply[id] \in {"answer", "step"} /\ seen = "idle" /\ stage = "messages",
           UNCHANGED <<id, failures, progress, reply, ownerAborts, upsets, happened>>
    PROVE  TurnInv'
<1>1. TypeOK /\ RowAndStage
  BY DEF TurnInv
<1>2. UNCHANGED <<used, seen, idleSeen>> /\ row' = outcome /\ stage' = "idle" /\ asked' = FALSE
  BY DEF Leave
<1>3. TypeOK'
  BY <1>1, <1>2 DEF TypeOK, Stages
<1>4. RowAndStage'
  BY <1>1, <1>2 DEF RowAndStage, TypeOK
<1>5. Recorded' /\ Fresh' /\ OthersOver' /\ GivenUpIsOver' /\ StepIsCutOff'
  BY <1>2 DEF TurnInv, Recorded, Fresh, OthersOver, IsLive, GivenUpIsOver, StepIsCutOff
<1>6. StoppedUnlessWatched'
  BY <1>1, <1>2 DEF TurnInv, RowAndStage, StoppedUnlessWatched, Quiet, IsLive
<1>7. DeliveredIsComplete'
  BY <1>1, <1>2 DEF TurnInv, RowAndStage, StepIsCutOff, DeliveredIsComplete, Broken
<1> QED BY <1>3, <1>4, <1>5, <1>6, <1>7 DEF TurnInv

\* The executor asks the server for the message before it posts it.
LEMMA LookupKeeps == ASSUME TurnInv, Lookup PROVE TurnInv'
<1>1. stage = "lookup" /\ UNCHANGED <<server, ownerAborts>>
  BY DEF Lookup
<1>2. CASE Goes(IF Found THEN "watch" ELSE "submit") /\ idleSeen' = 0
  <2>1. idleSeen' \in 0..IdlePolls
    BY <1>2, TurnAssumption
  <2>2. CASE Found
    BY <1>1, <1>2, <2>1, <2>2, GoesKeeps DEF Stages
  <2>3. CASE ~Found
    BY <1>1, <1>2, <2>1, <2>3, GoesKeeps DEF Stages
  <2> QED BY <2>2, <2>3
<1>3. CASE \E kind \in Faults : RequestFails(kind)
  BY <1>1, <1>3, RequestFailsKeeps
<1> QED BY <1>2, <1>3 DEF Lookup

\* A row that is withdrawn before the prompt goes out ends the turn there.
LEMMA SubmitKeeps == ASSUME TurnInv, Submit PROVE TurnInv'
<1>1. /\ stage = "submit" /\ UNCHANGED <<progress, reply, ownerAborts, upsets, happened>>
      /\ row \in {"running", "cancelled"} /\ ~Found /\ idleSeen \in 0..IdlePolls
  BY DEF Submit, TurnInv, TypeOK, RowAndStage, Fresh, Found, server, trouble
<1>2. CASE Active
  <2>1. Goes("post") /\ UNCHANGED idleSeen
    BY <1>2 DEF Submit
  <2> QED BY <1>1, <2>1, GoesKeeps DEF Stages, server
<1>3. CASE ~Active
  <2>1. Leave(row) /\ row = "cancelled" /\ UNCHANGED <<id, failures>>
    BY <1>1, <1>3 DEF Submit, Active
  <2> QED BY <1>1, <2>1, LeaveKeeps
<1> QED BY <1>2, <1>3

\* An accepted message was unknown before; the others are over.
LEMMA PostKeeps == ASSUME TurnInv, Post PROVE TurnInv'
<1>1. stage = "post" /\ TypeOK /\ RowAndStage /\ ownerAborts' = ownerAborts
  BY DEF Post, TurnInv
<1>2. CASE Accept /\ Goes("watch") /\ idleSeen' = 0
  <2>1. /\ UNCHANGED <<row, id, used, failures, seen, asked, ownerAborts, upsets, happened>>
        /\ stage' = "watch"
    BY <1>2 DEF Goes, task, trouble
  <2>2. TypeOK' /\ RowAndStage'
    BY <1>1, <1>2, <2>1, AcceptFacts, TurnAssumption DEF TypeOK, RowAndStage, Stages
  <2>3. Recorded' /\ Fresh' /\ OthersOver'
    BY <1>1, <1>2, <2>1, AcceptFacts
       DEF TurnInv, Recorded, Fresh, OthersOver, IsLive, TypeOK, Messages
  <2>4. GivenUpIsOver' /\ StepIsCutOff'
    BY <1>1, <1>2, <2>1, AcceptFacts DEF TurnInv, GivenUpIsOver, StepIsCutOff
  <2>5. StoppedUnlessWatched' /\ DeliveredIsComplete'
    BY <1>1, <2>1 DEF RowAndStage, StoppedUnlessWatched, DeliveredIsComplete
  <2> QED BY <2>2, <2>3, <2>4, <2>5 DEF TurnInv
<1>3. CASE Accept /\ RequestFails("transport")
  BY <1>1, <1>3, RequestFailsKeeps DEF Faults
<1>4. CASE UNCHANGED server /\ \E kind \in Faults : RequestFails(kind)
  BY <1>1, <1>4, RequestFailsKeeps
<1> QED BY <1>2, <1>3, <1>4 DEF Post

\* The executor looks at the row before it looks at the session: one that is
\* withdrawn is not watched any longer but aborted.
LEMMA WatchKeeps == ASSUME TurnInv, Watch PROVE TurnInv'
<1>1. /\ stage = "watch" /\ UNCHANGED <<idleSeen, server>> /\ TypeOK /\ RowAndStage
      /\ row \in {"running", "cancelled"} /\ idleSeen \in 0..IdlePolls
  BY DEF Watch, TurnInv, TypeOK, RowAndStage
<1>2. CASE Active
  <2>1. Goes("status") /\ row # "cancelled"
    BY <1>2 DEF Watch, Active
  <2> QED BY <1>1, <2>1, GoesKeeps DEF Stages
<1>3. CASE ~Active
  <2>1. /\ UNCHANGED <<row, id, used, failures, seen, idleSeen, asked, progress, reply, ownerAborts,
                       upsets, happened>>
        /\ stage' = "abort" /\ row = "cancelled"
    BY <1>1, <1>3 DEF Watch, Active, Goes, task, server, trouble
  <2>2. TypeOK' /\ RowAndStage'
    BY <1>1, <2>1 DEF TypeOK, RowAndStage, Stages
  <2>3. Recorded' /\ Fresh' /\ OthersOver' /\ GivenUpIsOver' /\ StepIsCutOff'
        /\ StoppedUnlessWatched' /\ DeliveredIsComplete'
    BY <2>1 DEF TurnInv, Recorded, Fresh, OthersOver, IsLive, GivenUpIsOver, StepIsCutOff,
                StoppedUnlessWatched, Quiet, DeliveredIsComplete
  <2> QED BY <2>2, <2>3 DEF TurnInv
<1> QED BY <1>2, <1>3

\* An abort with no turn under the executor, or none any longer.
LEMMA AbortedKeeps ==
    ASSUME TurnInv, Aborted, row = "cancelled", row' = "cancelled", UNCHANGED <<id, used, failures>>,
           stage' \in {stage, "idle"}, stage' = stage => asked' = asked, asked' \in BOOLEAN,
           UNCHANGED <<seen, idleSeen>>, ownerAborts' \in BOOLEAN,
           happened' \subseteq Upsets, happened \subseteq happened', upsets' \in 0..MaxUpsets
    PROVE  TurnInv'
<1>1. TypeOK /\ RowAndStage
  BY DEF TurnInv
<1>2. TypeOK'
  <2>1. stage' \in Stages /\ (stage' # "idle" => id' # 0)
    BY <1>1 DEF TypeOK, Stages
  <2> QED BY <1>1, <2>1, AbortedFacts DEF TypeOK
<1>3. RowAndStage'
  BY <1>1 DEF RowAndStage
<1>0. \A m \in Messages :
        /\ progress'[m] = IF IsLive(m) THEN "ended" ELSE progress[m]
        /\ reply'[m] = IF IsLive(m) /\ reply[m] \in {"open", "more"} THEN "fatal" ELSE reply[m]
        /\ progress'[m] \notin Live
  BY <1>1, AbortedFacts
<1>4. Recorded'
  BY <1>0 DEF TurnInv, Recorded, IsLive, Live
<1>5. Fresh'
  <2>1. \A m \in Messages : progress[m] = "absent" => progress'[m] = "absent"
    BY <1>0 DEF IsLive, Live
  <2>2. stage # "idle" => id \in Messages
    BY <1>1, IdIsMessage
  <2> QED BY <2>1, <2>2 DEF TurnInv, Fresh
<1>7. OthersOver'
  BY <1>0 DEF TurnInv, OthersOver, IsLive
<1>8. GivenUpIsOver'
  <2>1. stage # "idle" => id \in Messages
    BY <1>1, IdIsMessage
  <2> QED BY <1>0, <2>1 DEF GivenUpIsOver, IsLive
<1>6. StoppedUnlessWatched' /\ StepIsCutOff' /\ DeliveredIsComplete'
  BY <1>0 DEF StoppedUnlessWatched, StepIsCutOff, DeliveredIsComplete, IsLive
<1> QED BY <1>2, <1>3, <1>4, <1>5, <1>6, <1>7, <1>8 DEF TurnInv

\* A cancelled task whose abort was refused goes all the same.
LEMMA LostAbortKeeps ==
    ASSUME TurnInv, row = "cancelled", row' = "cancelled", UNCHANGED <<id, used, failures, server>>,
           stage' \in {stage, "idle"}, asked' \in BOOLEAN, UNCHANGED <<seen, idleSeen>>,
           ownerAborts' \in BOOLEAN, NEW kind \in Faults, Upset(kind)
    PROVE  TurnInv'
<1>1. TypeOK /\ RowAndStage /\ UNCHANGED <<progress, reply>>
  BY DEF TurnInv, server
<1>2. happened' = happened \cup {kind} /\ upsets' \in 0..MaxUpsets /\ happened' \subseteq Upsets
  BY <1>1, UpsetType
<1>3. TypeOK'
  <2>1. stage' \in Stages /\ (stage' # "idle" => id' # 0)
    BY <1>1 DEF TypeOK, Stages
  <2> QED BY <1>1, <1>2, <2>1 DEF TypeOK
<1>4. RowAndStage' /\ Recorded' /\ Fresh'
  BY <1>1 DEF TurnInv, RowAndStage, Recorded, Fresh
<1>5. OthersOver'
  BY <1>1, <1>2 DEF TurnInv, OthersOver, IsLive
<1>6. GivenUpIsOver' /\ StepIsCutOff' /\ DeliveredIsComplete'
  BY <1>1 DEF TurnInv, GivenUpIsOver, StepIsCutOff, DeliveredIsComplete, IsLive
<1>7. StoppedUnlessWatched'
  BY <1>2 DEF StoppedUnlessWatched, Quiet
<1> QED BY <1>3, <1>4, <1>5, <1>6, <1>7 DEF TurnInv

\* The executor of a cancelled task ends its turn, or fails to.
LEMMA AbortKeeps == ASSUME TurnInv, Abort PROVE TurnInv'
<1>1. stage = "abort" /\ row = "cancelled" /\ ownerAborts' = ownerAborts /\ TypeOK
  BY DEF Abort, TurnInv, RowAndStage
<1>2. CASE Aborted /\ Leave(row) /\ UNCHANGED <<id, failures, trouble>>
  <2>1. /\ row' = "cancelled" /\ UNCHANGED <<id, used, failures, seen, idleSeen, upsets, happened>>
        /\ stage' = "idle" /\ asked' = FALSE
    BY <1>1, <1>2 DEF Leave, trouble
  <2>2. asked' \in BOOLEAN /\ ownerAborts' \in BOOLEAN
    BY <1>1, <2>1 DEF TypeOK
  <2>3. happened' \subseteq Upsets /\ happened \subseteq happened' /\ upsets' \in 0..MaxUpsets
    BY <1>1, <2>1 DEF TypeOK
  <2> QED BY <1>1, <1>2, <2>1, <2>2, <2>3, AbortedKeeps
<1>3. CASE (Aborted \/ UNCHANGED server) /\ RequestFails("transport")
  BY <1>1, <1>3, RequestFailsKeeps DEF Faults
<1>4. CASE /\ UNCHANGED server
           /\ \E kind \in Faults \ {"transport"} : Upset(kind)
           /\ Leave(row) /\ UNCHANGED <<id, failures>>
  <2>1. /\ row' = "cancelled" /\ UNCHANGED <<id, used, failures, seen, idleSeen>>
        /\ stage' = "idle" /\ asked' = FALSE
    BY <1>1, <1>4 DEF Leave
  <2>2. asked' \in BOOLEAN /\ ownerAborts' \in BOOLEAN
    BY <1>1, <2>1 DEF TypeOK
  <2> QED BY <1>1, <1>4, <2>1, <2>2, LostAbortKeeps DEF Faults
<1> QED BY <1>2, <1>3, <1>4 DEF Abort

\* A session read as idle has nothing at work; if it is read so for the last
\* time, not even a prompt it has not taken up.
LEMMA StatusKeeps == ASSUME TurnInv, TakenUpInTime, Status PROVE TurnInv'
<1>1. stage = "status" /\ UNCHANGED <<server, ownerAborts>> /\ TypeOK /\ RowAndStage /\ id \in Messages
  BY IdIsMessage DEF Status, TurnInv
<1>2. CASE seen' = SessionState /\ stage' = "messages" /\ UNCHANGED <<task, idleSeen, asked, trouble>>
  <2>1. UNCHANGED <<row, id, used, failures, idleSeen, asked, progress, reply, ownerAborts, upsets, happened>>
    BY <1>1, <1>2 DEF task, server, trouble
  <2>2. seen' \in {"idle", "busy", "retry"}
        /\ (seen' = "idle" => \A m \in Messages : progress[m] \notin {"running", "waiting"})
    BY <1>2 DEF SessionState
  <2>3. TypeOK' /\ RowAndStage'
    BY <1>1, <1>2, <2>1, <2>2 DEF TypeOK, RowAndStage, Stages
  <2>4. Recorded' /\ Fresh' /\ OthersOver' /\ StoppedUnlessWatched' /\ DeliveredIsComplete'
    BY <1>1, <1>2, <2>1
       DEF TurnInv, Recorded, Fresh, OthersOver, IsLive, StoppedUnlessWatched, Quiet, DeliveredIsComplete
  <2>5. GivenUpIsOver'
    BY <1>1, <1>2, <2>1, <2>2 DEF GivenUpIsOver, TakenUpInTime, IsLive, Live
  <2>6. StepIsCutOff'
    <3>1. reply[id] = "step" => progress[id] \in {"running", "waiting", "ended"}
      BY <1>1 DEF TurnInv, Recorded, TypeOK, Progress, Live
    <3> QED BY <1>1, <1>2, <2>1, <2>2, <3>1 DEF TurnInv, StepIsCutOff, Broken
  <2> QED BY <2>3, <2>4, <2>5, <2>6 DEF TurnInv
<1>3. CASE \E kind \in Faults : RequestFails(kind)
  BY <1>1, <1>3, RequestFailsKeeps
<1> QED BY <1>2, <1>3 DEF Status

\* The message leaves the checkpoint only when its turn is over, without an
\* answer.
LEMMA OverKeeps ==
    ASSUME TurnInv, stage = "messages", UNCHANGED <<progress, reply, ownerAborts, upsets, happened>>,
           NEW pending \in BOOLEAN, NEW unlimited \in BOOLEAN, Fails(pending, unlimited),
           pending \/ (~IsLive(id) /\ reply[id] # "answer")
    PROVE  TurnInv'
<1>1. TypeOK /\ RowAndStage
  BY DEF TurnInv
<1>2. /\ row' \in {"cancelled", "deferred", "failed"} /\ stage' = "idle" /\ asked' = FALSE
      /\ UNCHANGED <<seen, idleSeen, used>>
      /\ failures' \in 0..MaxFailures
      /\ row' = "deferred" => failures' < MaxFailures
      /\ row' = "cancelled" <=> row = "cancelled"
      /\ id' \in {0, id} /\ (pending \/ row = "cancelled" => id' = id)
  BY <1>1, FailsType
<1>3. TypeOK'
  <2>1. id' \in 0..used'
    BY <1>1, <1>2 DEF TypeOK
  <2> QED BY <1>1, <1>2, <2>1 DEF TypeOK, Stages
<1>4. RowAndStage'
  BY <1>1, <1>2 DEF RowAndStage
<1>5. Recorded' /\ Fresh' /\ GivenUpIsOver' /\ StepIsCutOff' /\ DeliveredIsComplete'
  BY <1>2 DEF TurnInv, Recorded, Fresh, GivenUpIsOver, StepIsCutOff, DeliveredIsComplete
<1>6. OthersOver'
  BY <1>2 DEF TurnInv, OthersOver, IsLive
<1>7. StoppedUnlessWatched'
  BY <1>2 DEF TurnInv, StoppedUnlessWatched, Quiet, IsLive
<1> QED BY <1>3, <1>4, <1>5, <1>6, <1>7 DEF TurnInv

\* An answer ends the task, unless it is empty and the first of its kind.
LEMMA AnsweredKeeps ==
    ASSUME TurnInv, stage = "messages", UNCHANGED <<progress, reply, ownerAborts, upsets, happened>>,
           Answers, Answered
    PROVE  TurnInv'
<1>1. TypeOK /\ RowAndStage /\ row \in {"running", "cancelled"} /\ seen = "idle"
      /\ reply[id] \in {"answer", "step", "blank"} /\ id \in Messages
  BY IdIsMessage DEF TurnInv, RowAndStage, Answers, Complete
<1>2. CASE row = "cancelled" \/ reply[id] # "blank" \/ asked
  <2>1. PICK outcome \in {"cancelled", "failed", "done"} :
          /\ Leave(outcome) /\ UNCHANGED <<id, failures>>
          /\ outcome = "cancelled" <=> row = "cancelled"
          /\ outcome = "done" => reply[id] # "blank"
    BY <1>1, <1>2 DEF Answered
  <2> QED BY <1>1, <2>1, LeaveKeeps
<1>3. CASE row # "cancelled" /\ reply[id] = "blank" /\ ~asked
  <2>1. /\ used < MaxMessages /\ used' = used + 1 /\ id' = used + 1 /\ stage' = "lookup" /\ asked' = TRUE
        /\ UNCHANGED <<row, failures, seen, idleSeen>>
    BY <1>3 DEF Answered
  <2>2. id' \in 0..used' /\ used' \in 0..MaxMessages /\ id' # 0 /\ id < id'
    BY <1>1, <2>1, TurnAssumption DEF TypeOK
  <2>3. TypeOK' /\ RowAndStage'
    BY <1>1, <2>1, <2>2 DEF TypeOK, RowAndStage, Stages
  <2>4. Recorded' /\ GivenUpIsOver' /\ StepIsCutOff' /\ DeliveredIsComplete'
    BY <1>1, <1>3, <2>1
       DEF TurnInv, Recorded, GivenUpIsOver, StepIsCutOff, DeliveredIsComplete
  <2>5. Fresh'
    BY <1>1, <2>1 DEF TurnInv, Fresh, TypeOK, Messages
  <2>6. OthersOver'
    <3>1. ~IsLive(id) /\ reply[id] # "answer"
      BY <1>1, <1>3 DEF TurnInv, Recorded, IsLive, Live
    <3> QED BY <2>1, <3>1 DEF TurnInv, OthersOver, IsLive
  <2>7. StoppedUnlessWatched'
    BY <1>1, <1>3, <2>1 DEF StoppedUnlessWatched
  <2> QED BY <2>3, <2>4, <2>5, <2>6, <2>7 DEF TurnInv
<1> QED BY <1>2, <1>3

\* What a poll finds decides how the turn goes on.
LEMMA ReadMessagesKeeps == ASSUME TurnInv, ReadMessages PROVE TurnInv'
<1>1. stage = "messages" /\ UNCHANGED <<server, ownerAborts>> /\ TypeOK /\ RowAndStage /\ id \in Messages
      /\ row \in {"running", "cancelled"} /\ seen \in {"idle", "busy", "retry"}
  BY IdIsMessage DEF ReadMessages, TurnInv, RowAndStage, TypeOK
<1>2. CASE \E kind \in Faults : RequestFails(kind)
  BY <1>1, <1>2, RequestFailsKeeps
<1>3. CASE ~\E kind \in Faults : RequestFails(kind)
  <2>1. UNCHANGED <<progress, reply, ownerAborts, upsets, happened>>
    BY <1>1, <1>3 DEF ReadMessages, server, trouble
  <2>2. CASE reply[id] = "provider"
    <3>1. \E unlimited \in BOOLEAN : Fails(FALSE, unlimited)
      BY <1>3, <2>2 DEF ReadMessages, Finding
    <3>2. ~IsLive(id) /\ reply[id] # "answer"
      BY <1>1, <2>2 DEF TurnInv, Recorded, IsLive, Live
    <3> QED BY <1>1, <2>1, <3>1, <3>2, OverKeeps
  <2>3. CASE reply[id] = "fatal"
    <3>1. FailsForGood
      BY <1>3, <2>3 DEF ReadMessages, Finding
    <3>2. PICK outcome \in {"cancelled", "failed"} :
            Leave(outcome) /\ UNCHANGED <<id, failures>> /\ (outcome = "cancelled" <=> row = "cancelled")
      BY <3>1 DEF FailsForGood
    <3> QED BY <1>1, <2>1, <3>2, LeaveKeeps
  <2>4. CASE reply[id] \notin {"provider", "fatal"} /\ Answers
    <3>1. Answered
      BY <1>3, <2>4 DEF ReadMessages, Finding
    <3> QED BY <1>1, <2>1, <2>4, <3>1, AnsweredKeeps
  <2>5. CASE reply[id] \notin {"provider", "fatal"} /\ ~Answers /\ seen = "retry"
    <3>1. \E unlimited \in BOOLEAN : Fails(TRUE, unlimited)
      BY <1>3, <2>5 DEF ReadMessages, Finding
    <3> QED BY <1>1, <2>1, <3>1, OverKeeps
  <2>6. CASE reply[id] \notin {"provider", "fatal"} /\ ~Answers /\ seen # "retry"
    <3>1. IF Interrupted THEN Fails(FALSE, FALSE)
          ELSE stage' = "watch" /\ idleSeen' = IdleCount /\ UNCHANGED <<task, seen, asked>>
      BY <1>3, <2>6 DEF ReadMessages, Finding
    <3>2. CASE Interrupted
      <4>1. ~IsLive(id) /\ reply[id] # "answer"
        BY <1>1, <2>6, <3>2 DEF TurnInv, GivenUpIsOver, Interrupted, Answers, Complete
      <4> QED BY <1>1, <2>1, <3>1, <3>2, <4>1, OverKeeps
    <3>3. CASE ~Interrupted
      <4>1. idleSeen' \in 0..IdlePolls
        <5>1. idleSeen' = IdleCount /\ idleSeen \in Nat
          BY <1>1, <3>1, <3>3 DEF TypeOK
        <5> QED BY <3>3, <5>1, TurnAssumption DEF IdleCount, Interrupted
      <4>2. Goes("watch")
        BY <1>1, <2>1, <3>1, <3>3 DEF Goes, trouble
      <4> QED BY <1>1, <4>1, <4>2, GoesKeeps DEF Stages
    <3> QED BY <3>2, <3>3
  <2> QED BY <1>1, <2>2, <2>3, <2>4, <2>5, <2>6
<1> QED BY <1>2, <1>3

-----------------------------------------------------------------------------
(* The owner, the restarts and the session.                                *)

\* A withdrawn task that was taken up is aborted later; one that was not has
\* nothing at work.
LEMMA CancelKeeps == ASSUME TurnInv, Cancel PROVE TurnInv'
<1>1. /\ row \in {"queued", "running", "deferred"} /\ row' = "cancelled" /\ ownerAborts' = (row # "queued")
      /\ UNCHANGED <<id, used, failures, stage, seen, idleSeen, asked, progress, reply, upsets, happened>>
  BY DEF Cancel, exec, server, trouble
<1>2. TypeOK /\ RowAndStage
  BY DEF TurnInv
<1>3. TypeOK'
  <2>1. ownerAborts' \in BOOLEAN /\ asked' \in BOOLEAN
    BY <1>1, <1>2 DEF TypeOK
  <2> QED BY <1>1, <1>2, <2>1 DEF TypeOK
<1>4. RowAndStage'
  BY <1>1, <1>2 DEF RowAndStage
<1>5. Recorded' /\ Fresh' /\ OthersOver' /\ GivenUpIsOver' /\ StepIsCutOff' /\ DeliveredIsComplete'
  BY <1>1 DEF TurnInv, Recorded, Fresh, OthersOver, IsLive, GivenUpIsOver, StepIsCutOff,
              DeliveredIsComplete
<1>6. StoppedUnlessWatched'
  <2>1. row = "queued" /\ Quiet => \A m \in Messages : ~IsLive(m)
    BY DEF TurnInv, StoppedUnlessWatched, IsLive, Live
  <2>2. row # "queued" => ownerAborts' = TRUE
    BY <1>1
  <2> QED BY <1>1, <2>1, <2>2 DEF StoppedUnlessWatched, Quiet, IsLive
<1> QED BY <1>3, <1>4, <1>5, <1>6 DEF TurnInv

\* The owner's cancellation ends the turn in a request of its own, which may be lost.
LEMMA OwnerAbortKeeps == ASSUME TurnInv, OwnerAbort PROVE TurnInv'
<1>1. /\ row = "cancelled" /\ row' = "cancelled" /\ ownerAborts' = FALSE /\ TypeOK
      /\ UNCHANGED <<id, used, failures, stage, seen, idleSeen, asked>>
  BY DEF OwnerAbort, TurnInv, RowAndStage, task, exec
<1>2. ownerAborts' \in BOOLEAN /\ asked' \in BOOLEAN
  BY <1>1 DEF TypeOK
<1>3. CASE Aborted
  <2>1. CASE UNCHANGED trouble
    <3>1. happened' \subseteq Upsets /\ happened \subseteq happened' /\ upsets' \in 0..MaxUpsets
      BY <1>1, <2>1 DEF TypeOK, trouble
    <3> QED BY <1>1, <1>2, <1>3, <3>1, AbortedKeeps
  <2>2. CASE Upset("transport")
    <3>1. happened' \subseteq Upsets /\ happened \subseteq happened' /\ upsets' \in 0..MaxUpsets
      BY <1>1, <2>2, UpsetType
    <3> QED BY <1>1, <1>2, <1>3, <3>1, AbortedKeeps
  <2>3. CASE \E kind \in Faults : UNCHANGED server /\ Upset(kind)
    BY <1>1, <1>2, <2>3, LostAbortKeeps
  <2> QED BY <2>1, <2>2, <2>3 DEF OwnerAbort, Faults
<1>4. CASE ~Aborted
  <2>1. \E kind \in Faults : UNCHANGED server /\ Upset(kind)
    BY <1>4 DEF OwnerAbort, Faults
  <2> QED BY <1>1, <1>2, <2>1, LostAbortKeeps
<1> QED BY <1>3, <1>4

\* A restart puts a running task back and forgets the owner's abort.
LEMMA BridgeRestartsKeeps == ASSUME TurnInv, BridgeRestarts PROVE TurnInv'
<1>1. /\ row' = (IF row = "running" THEN "queued" ELSE row)
      /\ stage' = "idle" /\ asked' = FALSE /\ ownerAborts' = FALSE
      /\ UNCHANGED <<id, used, failures, seen, idleSeen, progress, reply>>
  BY DEF BridgeRestarts, server
<1>2. TypeOK /\ RowAndStage
  BY DEF TurnInv
<1>3. happened' = happened \cup {"bridge"} /\ upsets' \in 0..MaxUpsets /\ happened' \subseteq Upsets
  BY <1>2, UpsetType DEF BridgeRestarts
<1>4. TypeOK'
  BY <1>1, <1>2, <1>3 DEF TypeOK, Stages
<1>5. RowAndStage'
  BY <1>1, <1>2 DEF RowAndStage
<1>6. Recorded' /\ Fresh' /\ OthersOver' /\ GivenUpIsOver'
  BY <1>1, <1>3 DEF TurnInv, Recorded, Fresh, OthersOver, IsLive, GivenUpIsOver
<1>7. StepIsCutOff' /\ DeliveredIsComplete' /\ StoppedUnlessWatched'
  BY <1>1, <1>3
     DEF TurnInv, StepIsCutOff, DeliveredIsComplete, StoppedUnlessWatched, Quiet
<1> QED BY <1>4, <1>5, <1>6, <1>7 DEF TurnInv

\* What a step of the session does to the message it is about: it was at work,
\* goes on or ends, and goes on beyond an idle reading only as an upset.
LEMMA SessionStepKeeps ==
    ASSUME TurnInv, NEW m \in Messages, IsLive(m), NEW to \in {"running", "waiting", "ended"},
           NEW answer \in Replies, Turn(m, to, answer),
           happened \subseteq happened', happened' \subseteq Upsets, upsets' \in 0..MaxUpsets,
           answer \in {"answer", "blank", "provider", "fatal"} <=> to = "ended",
           answer = "step" /\ reply[m] # "step" /\ stage = "messages" /\ seen = "idle"
               => "between" \in happened'
    PROVE  TurnInv'
<1>1. TypeOK /\ RowAndStage /\ to \in Progress
  BY DEF TurnInv, Progress, Live
<1>2. /\ progress' \in [Messages -> Progress] /\ reply' \in [Messages -> Replies]
      /\ progress'[m] = to /\ reply'[m] = answer
      /\ \A n \in Messages \ {m} : progress'[n] = progress[n] /\ reply'[n] = reply[n]
      /\ UNCHANGED <<row, id, used, failures, stage, seen, idleSeen, asked, ownerAborts>>
  BY <1>1, TurnFacts DEF task, exec
<1>3. TypeOK' /\ RowAndStage'
  BY <1>1, <1>2 DEF TypeOK, RowAndStage
<1>4. Recorded'
  BY <1>2 DEF TurnInv, Recorded
<1>5. Fresh'
  <2>1. stage # "idle" => id \in Messages
    BY <1>1, IdIsMessage
  <2> QED BY <1>2, <2>1 DEF TurnInv, Fresh, IsLive, Live
<1>6. OthersOver'
  BY <1>2 DEF TurnInv, OthersOver, IsLive
<1>7. GivenUpIsOver'
  <2>1. stage # "idle" => id \in Messages
    BY <1>1, IdIsMessage
  <2> QED BY <1>2, <2>1 DEF TurnInv, GivenUpIsOver, IsLive
<1>8. StepIsCutOff'
  <2>1. stage # "idle" => id \in Messages
    BY <1>1, IdIsMessage
  <2> QED BY <1>2, <2>1 DEF TurnInv, StepIsCutOff, Broken
<1>9. StoppedUnlessWatched'
  BY <1>2 DEF TurnInv, StoppedUnlessWatched, Quiet, IsLive, Live
<1>10. DeliveredIsComplete'
  <2>1. m = id => reply[id] # "answer"
    BY DEF TurnInv, Recorded, IsLive, Live
  <2>2. CASE {"agent", "between"} \cap happened # {}
    BY <2>2 DEF DeliveredIsComplete
  <2>3. CASE row = "done" => reply[id] = "answer"
    <3>1. row = "done" => id \in Messages
      BY <1>1, TurnAssumption DEF TypeOK, RowAndStage, Messages
    <3> QED BY <1>2, <2>1, <2>3, <3>1 DEF DeliveredIsComplete
  <2> QED BY <2>2, <2>3 DEF TurnInv, DeliveredIsComplete
<1> QED BY <1>3, <1>4, <1>5, <1>6, <1>7, <1>8, <1>9, <1>10 DEF TurnInv

\* The session starts on a prompt, works, waits and recovers.
LEMMA SessionKeeps ==
    ASSUME TurnInv, NEW m \in Messages, Starts(m) \/ Works(m) \/ Recovers(m) \/ Waits(m)
    PROVE  TurnInv'
<1>1. TypeOK /\ progress[m] \in Progress /\ reply[m] \in Replies
  BY DEF TurnInv, TypeOK
<1>2. progress[m] = "accepted" => reply[m] = "none"
  BY DEF TurnInv, Recorded
<1>3. IsLive(m) => reply[m] \notin {"answer", "blank", "provider", "fatal"}
  BY DEF TurnInv, Recorded, IsLive, Live
<1>4. IsLive(m)
  BY DEF Starts, Works, Recovers, Waits, IsLive, Live
<1>5. UNCHANGED trouble => happened \subseteq happened' /\ happened' \subseteq Upsets /\ upsets' \in 0..MaxUpsets
  BY <1>1 DEF TypeOK, trouble
<1>6. \A kind : Upset(kind) => /\ happened' = happened \cup {kind}
                               /\ happened' \subseteq Upsets /\ upsets' \in 0..MaxUpsets
  BY <1>1, UpsetType
<1>7. CASE Starts(m)
  <2>1. Turn(m, "running", "none") /\ UNCHANGED trouble
    BY <1>7 DEF Starts
  <2> QED BY <1>4, <1>5, <2>1, SessionStepKeeps DEF Replies
<1>8. CASE Recovers(m) \/ Waits(m)
  <2>1. PICK to \in {"running", "waiting"} : Turn(m, to, reply[m])
    BY <1>8 DEF Recovers, Waits
  <2>2. happened \subseteq happened' /\ happened' \subseteq Upsets /\ upsets' \in 0..MaxUpsets
    BY <1>5, <1>6, <1>8 DEF Recovers, Waits
  <2> QED BY <1>1, <1>3, <1>4, <2>1, <2>2, SessionStepKeeps
<1>9. CASE Works(m)
  <2>1. happened \subseteq happened' /\ happened' \subseteq Upsets /\ upsets' \in 0..MaxUpsets
    BY <1>5, <1>6, <1>9 DEF Works
  <2>2. stage = "messages" /\ seen = "idle" /\ reply[m] # "none" => "between" \in happened'
    BY <1>6, <1>9 DEF Works
  <2>3. PICK to \in {"running", "ended"}, answer \in Replies :
          /\ Turn(m, to, answer)
          /\ answer \in {"answer", "blank", "provider", "fatal"} <=> to = "ended"
          /\ answer = "step" => reply[m] = "open"
    BY <1>9 DEF Works, Replies
  <2> QED BY <1>4, <2>1, <2>2, <2>3, SessionStepKeeps
<1> QED BY <1>7, <1>8, <1>9

\* The agent's restart cuts every turn off.
LEMMA AgentRestartsKeeps == ASSUME TurnInv, AgentRestarts PROVE TurnInv'
<1>1. /\ progress' = [m \in Messages |-> IF IsLive(m) THEN "ended" ELSE progress[m]]
      /\ UNCHANGED <<reply, row, id, used, failures, stage, seen, idleSeen, asked, ownerAborts>>
  BY DEF AgentRestarts, task, exec
<1>2. TypeOK /\ RowAndStage
  BY DEF TurnInv
<1>3. happened' = happened \cup {"agent"} /\ upsets' \in 0..MaxUpsets /\ happened' \subseteq Upsets
  BY <1>2, UpsetType DEF AgentRestarts
<1>4. /\ progress' \in [Messages -> Progress]
      /\ \A m \in Messages : progress'[m] = (IF IsLive(m) THEN "ended" ELSE progress[m])
  BY <1>1, <1>2 DEF TypeOK, Progress
<1>0. stage # "idle" => id \in Messages
  BY <1>2, IdIsMessage
<1>5. TypeOK' /\ RowAndStage'
  BY <1>1, <1>2, <1>3, <1>4 DEF TypeOK, RowAndStage
<1>6. Recorded' /\ Fresh'
  BY <1>0, <1>1, <1>4 DEF TurnInv, Recorded, Fresh, IsLive, Live
<1>7. OthersOver' /\ GivenUpIsOver'
  BY <1>0, <1>1, <1>3, <1>4 DEF TurnInv, OthersOver, GivenUpIsOver, IsLive, Live
<1>8. StepIsCutOff' /\ DeliveredIsComplete'
  BY <1>3 DEF StepIsCutOff, DeliveredIsComplete, Broken
<1>9. StoppedUnlessWatched'
  BY <1>1, <1>3, <1>4 DEF TurnInv, StoppedUnlessWatched, Quiet, IsLive, Live
<1> QED BY <1>5, <1>6, <1>7, <1>8, <1>9 DEF TurnInv

\* Every step keeps the turn's invariant.
LEMMA TurnStep == TurnInv /\ [Next]_vars => TurnInv'
<1> SUFFICES ASSUME TurnInv, [Next]_vars PROVE TurnInv'
  OBVIOUS
<1>1. CASE Executor
  BY <1>1, BeginKeeps, LookupKeeps, SubmitKeeps, PostKeeps, WatchKeeps, AbortKeeps, StatusKeeps,
     ReadMessagesKeeps DEF Executor
<1>2. CASE Session \/ \E m \in Messages : Waits(m)
  BY <1>2, SessionKeeps DEF Session
<1>3. CASE Cancel \/ OwnerAbort \/ BridgeRestarts \/ AgentRestarts
  BY <1>3, CancelKeeps, OwnerAbortKeeps, BridgeRestartsKeeps, AgentRestartsKeeps
<1>4. CASE UNCHANGED vars
  BY <1>4 DEF vars, task, exec, server, trouble, TurnInv, TypeOK, RowAndStage, Recorded, Fresh,
              OthersOver, IsLive, GivenUpIsOver, StepIsCutOff, Broken, StoppedUnlessWatched, Quiet,
              DeliveredIsComplete
<1> QED BY <1>1, <1>2, <1>3, <1>4 DEF Next

\* A message is accepted by a post only: the one in the checkpoint, which was
\* unknown, while all others are over.
LEMMA PostsOnce == TurnInv /\ [Next]_vars => [PromptWhenUnanswered /\ SubmittedOnce]_vars
<1> SUFFICES ASSUME TurnInv, [Next]_vars PROVE PromptWhenUnanswered /\ SubmittedOnce
  OBVIOUS
<1>1. TypeOK /\ \A m \in Messages : progress[m] \in Progress
  BY DEF TurnInv, TypeOK
<1>2. \A m \in Messages : progress'[m] = "accepted"
        => progress[m] = "accepted" \/ (Accept /\ m = id /\ progress[m] = "absent")
  <2>1. CASE UNCHANGED progress
    BY <2>1
  <2>2. CASE Accept /\ stage = "post"
    BY <1>1, <2>2, AcceptFacts DEF TurnInv, Fresh
  <2>3. CASE Aborted
    BY <1>1, <2>3, AbortedFacts DEF Live
  <2>4. CASE \E m \in Messages, to \in {"running", "waiting", "ended"}, answer \in Replies : Turn(m, to, answer)
    <3>1. PICK m \in Messages, to \in {"running", "waiting", "ended"}, answer \in Replies : Turn(m, to, answer)
      BY <2>4
    <3>2. to \in Progress
      BY DEF Progress, Live
    <3> QED BY <1>1, <3>1, <3>2, TurnFacts
  <2>5. CASE AgentRestarts
    BY <2>5 DEF AgentRestarts
  <2>0. UNCHANGED server => UNCHANGED progress
    BY DEF server
  <2>6. \/ UNCHANGED progress
        \/ Accept /\ stage = "post"
        \/ Aborted \/ AgentRestarts
        \/ \E m \in Messages, to \in {"running", "waiting", "ended"}, answer \in Replies : Turn(m, to, answer)
    <3>1. CASE Executor
      <4>1. UNCHANGED server \/ (Accept /\ stage = "post") \/ Aborted
        BY <3>1 DEF Executor, Begin, Lookup, Submit, Post, Watch, Abort, Status, ReadMessages
      <4> QED BY <2>0, <4>1
    <3>2. CASE Session \/ \E m \in Messages : Waits(m)
      <4>1. PICK m \in Messages : Starts(m) \/ Works(m) \/ Recovers(m) \/ Waits(m)
        BY <3>2 DEF Session
      <4>2. reply[m] \in Replies
        BY <1>1 DEF TypeOK
      <4> QED BY <4>1, <4>2 DEF Starts, Works, Recovers, Waits, Replies
    <3>3. CASE Cancel \/ OwnerAbort \/ BridgeRestarts
      <4>1. UNCHANGED server \/ Aborted
        BY <3>3 DEF Cancel, OwnerAbort, BridgeRestarts
      <4> QED BY <2>0, <4>1
    <3>4. CASE UNCHANGED vars
      <4>1. UNCHANGED server
        BY <3>4 DEF vars
      <4> QED BY <2>0, <4>1
    <3> QED BY <3>1, <3>2, <3>3, <3>4 DEF Next
  <2> QED BY <2>1, <2>2, <2>3, <2>4, <2>5, <2>6
<1>3. SubmittedOnce
  BY <1>2 DEF SubmittedOnce
<1>4. PromptWhenUnanswered
  <2> SUFFICES ASSUME NEW m \in Messages, progress[m] = "absent", progress'[m] = "accepted",
                      NEW e \in 1..m - 1, IsLive(e) \/ reply[e] = "answer"
               PROVE  "unavailable" \in happened
    BY DEF PromptWhenUnanswered
  <2>1. m = id
    BY <1>2
  <2>2. e \in Messages /\ e # m
    BY TurnAssumption DEF Messages
  <2> QED BY <2>1, <2>2 DEF TurnInv, OthersOver
<1> QED BY <1>3, <1>4

-----------------------------------------------------------------------------
(* The turn in a conversation.                                             *)

\* A step of a conversation is one of its turn or leaves the turn alone.
LEMMA AllTurnStep == [AllNext]_allVars => [Next]_vars
BY DEF AllNext, OnlyTurn, OnlyWorkspaces, allVars

\* The task, its executor and the session are as they can be.
THEOREM TurnIsSound == AllSpec => []TurnInv
<1>1. AllInit => TurnInv
  BY TurnInit DEF AllInit
<1>2. TurnInv /\ [AllNext]_allVars => TurnInv'
  BY TurnStep, AllTurnStep
<1> QED BY <1>1, <1>2, PTL DEF AllSpec

\* The end of the agent's turn is delivered, not a step of it.
THEOREM EndIsDelivered == AllSpec => []DeliveredIsComplete
<1>1. TurnInv => DeliveredIsComplete
  BY DEF TurnInv
<1> QED BY <1>1, TurnIsSound, PTL

\* What the owner cancelled stops, when no request and no restart loses the abort.
THEOREM CancelStops == AllSpec => []CancelledMeansStopped
<1>1. TurnInv => CancelledMeansStopped
  BY DEF TurnInv, StoppedUnlessWatched, Quiet, CancelledMeansStopped
<1> QED BY <1>1, TurnIsSound, PTL

\* No message is submitted twice, and no prompt while an earlier one is at work
\* or was answered, unless an answer 5xx, 402, 408 or 429 was taken for the end of it.
THEOREM AskedOnlyOnce == AllSpec => AskedOnce
<1>1. TurnInv /\ [AllNext]_allVars => [PromptWhenUnanswered /\ SubmittedOnce]_vars
  BY PostsOnce, AllTurnStep
<1> QED BY <1>1, TurnIsSound, PTL DEF AllSpec, AskedOnce

-----------------------------------------------------------------------------
(* The workspaces: the inductive invariant.                                *)

Executing == at["executor"]

\* A session a prompt of the repository may go to.
Fits(r, s) == r # "none" => s # 0 /\ (made[s] = r \/ s \in adrift)

\* The stages of a command and of the executor.
Points ==
    {"idle", "replace", "drop", "ensure", "create", "store", "settled", "refused", "saved", "look", "sent"}

\* Nothing refers to a session that was not made yet.
Made ==
    /\ current \in 0..born /\ binding \in (Repos \cup {"none"}) \X (0..born)
    /\ session \in [Projects!Jobs -> 0..born]
    /\ held \in [Projects!Actors -> 0..born] /\ at \in [Projects!Actors -> Points]

\* The executor is at work on a task that was asked; what was not asked has no
\* checkpoint.
Asking ==
    /\ Executing # "idle" => status[job] = "running"
    /\ \A j \in Projects!Jobs : status[j] = "unasked" => session[j] = 0

\* Checkpoints and bindings are of sessions made for their repository.
Saved ==
    /\ \A j \in Projects!Jobs : session[j] # 0 => Fits(repo[j], session[j])
    /\ Fits(binding[1], binding[2])

\* So is the session the executor has, and, when it is about to go by the row,
\* the row's: one that a command stored just then is the exception.
Having ==
    /\ \A a \in Projects!Actors : at[a] = "store" => held[a] # 0
    /\ Executing \in {"settled", "saved", "sent"} => Fits(repo[job], held["executor"])
    /\ Executing = "store" => made[held["executor"]] = repo[job]
    /\ Executing = "ensure" \/ (Executing = "settled" /\ rebinding)
         => current = 0 \/ Fits(repo[job], current)

WorkspacesInv == Projects!TypeOK /\ Made /\ Asking /\ Saved /\ Having

-----------------------------------------------------------------------------
(* Workspaces: what no step changes, and what a session is good for.       *)

\* At the start there is no session, no binding and no task.
LEMMA WorkspaceStart == Projects!Init => WorkspacesInv
<1> SUFFICES ASSUME Projects!Init PROVE WorkspacesInv
  OBVIOUS
<1>1. Projects!TypeOK
  <2>1. born \in 0..MaxSessions /\ current \in 0..MaxSessions /\ job \in Projects!Jobs
    BY WorkspaceAssumption DEF Projects!Init, Projects!Jobs
  <2>2. session \in [Projects!Jobs -> 0..MaxSessions]
    BY WorkspaceAssumption DEF Projects!Init
  <2>3. rebinding \in BOOLEAN /\ starting \in BOOLEAN
    BY DEF Projects!Init
  <2>4. allowed \subseteq Repos /\ managed \subseteq Repos /\ active \in Repos \cup {Projects!None}
    BY WorkspaceAssumption DEF Projects!Init
  <2> QED BY <2>1, <2>2, <2>3, <2>4 DEF Projects!Init, Projects!TypeOK
<1>2. Made /\ Asking /\ Saved /\ Having
  BY DEF Projects!Init, Made, Points, Asking, Saved, Having, Fits, Executing, Projects!Actors, Projects!None
<1> QED BY <1>1, <1>2 DEF WorkspacesInv

\* Who replaces the owner's session.
LEMMA ActorNames == Projects!Actors = {"command", "executor"}
BY DEF Projects!Actors

\* Sessions are numbered within their bound.
LEMMA BornIsNat == WorkspacesInv => born \in Nat /\ born \in 0..MaxSessions /\ 0 \in 0..MaxSessions
BY WorkspaceAssumption DEF WorkspacesInv, Projects!TypeOK

\* A place of an actor.
LEMMA GoesFacts ==
    ASSUME WorkspacesInv, NEW a \in Projects!Actors, NEW point \in Points, NEW s \in 0..born',
           born' \in Nat, born \in 0..born', Projects!Goes(a, point, s)
    PROVE  /\ held' \in [Projects!Actors -> 0..born'] /\ at' \in [Projects!Actors -> Points]
           /\ at'[a] = point /\ held'[a] = s
           /\ \A b \in Projects!Actors \ {a} : at'[b] = at[b] /\ held'[b] = held[b]
<1>1. held \in [Projects!Actors -> 0..born] /\ at \in [Projects!Actors -> Points]
  BY DEF WorkspacesInv, Made
<1>2. held' = [held EXCEPT ![a] = s] /\ at' = [at EXCEPT ![a] = point]
  BY DEF Projects!Goes
<1>3. held \in [Projects!Actors -> 0..born']
  BY <1>1
<1> QED BY <1>1, <1>2, <1>3

\* What is known of sessions that were made stays true.
LEMMA FitsStays ==
    ASSUME NEW r, NEW s, Fits(r, s), UNCHANGED made, adrift \subseteq adrift'
    PROVE  (r # "none" => s # 0 /\ (made'[s] = r \/ s \in adrift'))
BY DEF Fits

\* Steps that concern neither the executor nor sessions.
LEMMA AsideKeeps ==
    ASSUME WorkspacesInv,
           UNCHANGED <<current, made, born, binding, repo, status, session, job, rebinding, adrift>>,
           at'["executor"] = at["executor"], held'["executor"] = held["executor"], at'["command"] # "store"
    PROVE  Asking' /\ Saved' /\ Having'
<1>1. Asking' /\ Saved'
  BY DEF WorkspacesInv, Asking, Saved, Fits, Executing
<1>2. Having'
  BY ActorNames DEF WorkspacesInv, Having, Fits, Executing
<1> QED BY <1>1, <1>2

\* Reading the row is for the actor alone.
LEMMA ReadOldKeeps ==
    ASSUME WorkspacesInv, NEW a \in Projects!Actors, Projects!ReadOld(a)
    PROVE  WorkspacesInv'
<1>1. /\ UNCHANGED <<allowed, managed, active, current, made, born, binding, repo, status, session, job,
                     rebinding, adrift, starting, commands, deaths>>
      /\ at[a] = "replace" /\ Projects!Goes(a, IF current = 0 THEN "ensure" ELSE "drop", current)
  BY DEF Projects!ReadOld, Projects!lists, Projects!table, Projects!tasks, Projects!rest
<1>2. /\ held' \in [Projects!Actors -> 0..born'] /\ at' \in [Projects!Actors -> Points]
      /\ at'[a] = (IF current = 0 THEN "ensure" ELSE "drop") /\ held'[a] = current
      /\ \A b \in Projects!Actors \ {a} : at'[b] = at[b] /\ held'[b] = held[b]
  <2>1. current \in 0..born' /\ born \in 0..born' /\ born' \in Nat
    BY <1>1, BornIsNat DEF WorkspacesInv, Made
  <2> QED BY <1>1, <2>1, GoesFacts DEF Points
<1>3. Projects!TypeOK' /\ Made'
  BY <1>1, <1>2 DEF WorkspacesInv, Projects!TypeOK, Made
<1>4. Asking' /\ Saved' /\ Having'
  <2>1. CASE a = "command"
    BY <1>1, <1>2, <2>1, ActorNames, AsideKeeps
  <2>2. CASE a = "executor"
    BY <1>1, <1>2, <2>2 DEF WorkspacesInv, Asking, Saved, Having, Fits, Executing
  <2> QED BY <2>1, <2>2, ActorNames
<1> QED BY <1>3, <1>4 DEF WorkspacesInv

\* A row that is dropped refers to no session.
LEMMA DropRowKeeps ==
    ASSUME WorkspacesInv, NEW a \in Projects!Actors, Projects!DropRow(a)
    PROVE  WorkspacesInv'
<1>1. /\ UNCHANGED <<allowed, managed, active, made, born, binding, repo, status, session, job,
                     rebinding, adrift, starting, commands, deaths>>
      /\ at[a] = "drop" /\ current' = 0 /\ Projects!Goes(a, "ensure", 0)
  BY DEF Projects!DropRow, Projects!lists, Projects!tasks, Projects!rest
<1>2. /\ held' \in [Projects!Actors -> 0..born'] /\ at' \in [Projects!Actors -> Points]
      /\ at'[a] = "ensure" /\ held'[a] = 0
      /\ \A b \in Projects!Actors \ {a} : at'[b] = at[b] /\ held'[b] = held[b]
  <2>1. 0 \in 0..born' /\ born \in 0..born' /\ born' \in Nat
    BY <1>1, BornIsNat
  <2> QED BY <1>1, <2>1, GoesFacts DEF Points
<1>3. Projects!TypeOK' /\ Made'
  BY <1>1, <1>2, BornIsNat DEF WorkspacesInv, Projects!TypeOK, Made
<1>4. Asking' /\ Saved' /\ Having'
  BY <1>1, <1>2, ActorNames DEF WorkspacesInv, Asking, Saved, Having, Fits, Executing
<1> QED BY <1>3, <1>4 DEF WorkspacesInv

\* ensure_session hands the row's session over as it is.
LEMMA ReadRowKeeps ==
    ASSUME WorkspacesInv, NEW a \in Projects!Actors, Projects!ReadRow(a)
    PROVE  WorkspacesInv'
<1>1. /\ UNCHANGED <<allowed, managed, active, current, made, born, binding, repo, status, session, job,
                     rebinding, adrift, starting, commands, deaths>>
      /\ at[a] = "ensure" /\ Projects!Goes(a, IF current = 0 THEN "create" ELSE "settled", current)
  BY DEF Projects!ReadRow, Projects!lists, Projects!table, Projects!tasks, Projects!rest
<1>2. /\ held' \in [Projects!Actors -> 0..born'] /\ at' \in [Projects!Actors -> Points]
      /\ at'[a] = (IF current = 0 THEN "create" ELSE "settled") /\ held'[a] = current
      /\ \A b \in Projects!Actors \ {a} : at'[b] = at[b] /\ held'[b] = held[b]
  <2>1. current \in 0..born' /\ born \in 0..born' /\ born' \in Nat
    BY <1>1, BornIsNat DEF WorkspacesInv, Made
  <2> QED BY <1>1, <2>1, GoesFacts DEF Points
<1>3. Projects!TypeOK' /\ Made'
  BY <1>1, <1>2 DEF WorkspacesInv, Projects!TypeOK, Made
<1>4. Asking' /\ Saved' /\ Having'
  <2>1. CASE a = "command"
    BY <1>1, <1>2, <2>1, ActorNames, AsideKeeps
  <2>2. CASE a = "executor"
    BY <1>1, <1>2, <2>2 DEF WorkspacesInv, Asking, Saved, Having, Fits, Executing
  <2> QED BY <2>1, <2>2, ActorNames
<1> QED BY <1>3, <1>4 DEF WorkspacesInv

\* A new session carries a number nothing refers to, and the directory of the
\* executor's task when the executor makes it.
LEMMA CreateSessionKeeps ==
    ASSUME WorkspacesInv, NEW a \in Projects!Actors, Projects!CreateSession(a)
    PROVE  WorkspacesInv'
<1>1. /\ UNCHANGED <<allowed, managed, active, current, binding, repo, status, session, job,
                     rebinding, adrift, starting, commands, deaths>>
      /\ at[a] = "create" /\ born < MaxSessions /\ born' = born + 1
      /\ made' = [made EXCEPT ![born + 1] = Projects!Directory(a)]
      /\ Projects!Goes(a, "store", born + 1)
  BY DEF Projects!CreateSession, Projects!lists, Projects!tasks, Projects!rest
<1>2. born \in Nat /\ born' \in Nat /\ born + 1 \in Projects!Sessions /\ born \in 0..born' /\ born + 1 \in 0..born'
  BY <1>1, WorkspaceAssumption DEF WorkspacesInv, Projects!TypeOK, Projects!Sessions
<1>3. /\ held' \in [Projects!Actors -> 0..born'] /\ at' \in [Projects!Actors -> Points]
      /\ at'[a] = "store" /\ held'[a] = born + 1
      /\ \A b \in Projects!Actors \ {a} : at'[b] = at[b] /\ held'[b] = held[b]
  BY <1>1, <1>2, GoesFacts DEF Points
<1>4. Projects!Directory(a) \in Repos \cup {"none"}
      /\ (a = "executor" => Projects!Directory(a) = repo[job])
  BY ActorNames DEF Projects!Directory, WorkspacesInv, Projects!TypeOK, Projects!None
<1>5. Projects!TypeOK' /\ Made'
  <2>1. made' \in [Projects!Sessions -> Repos \cup {"none"}] /\ born' \in 0..MaxSessions
    BY <1>1, <1>2, <1>4, WorkspaceAssumption DEF WorkspacesInv, Projects!TypeOK, Projects!None
  <2>2. Projects!TypeOK'
    BY <1>1, <2>1 DEF WorkspacesInv, Projects!TypeOK, Projects!None
  <2>3. Made'
    BY <1>1, <1>2, <1>3 DEF WorkspacesInv, Made
  <2> QED BY <2>2, <2>3
<1>6. made'[born + 1] = Projects!Directory(a) /\ \A s \in 1..born : made'[s] = made[s]
  BY <1>1, <1>2 DEF WorkspacesInv, Projects!TypeOK, Projects!Sessions
<1>7. ASSUME NEW r, NEW s \in 0..born, Fits(r, s)
      PROVE  r # "none" => s # 0 /\ (made'[s] = r \/ s \in adrift')
  BY <1>1, <1>2, <1>6, <1>7 DEF Fits
<1>8. Asking'
  BY <1>1, <1>3, ActorNames DEF WorkspacesInv, Asking, Executing
<1>9. Saved'
  BY <1>1, <1>7 DEF WorkspacesInv, Made, Saved, Fits
<1>10. Having'
  <2>1. held["executor"] \in 0..born /\ current \in 0..born
    BY ActorNames DEF WorkspacesInv, Made
  <2>2. CASE a = "executor"
    BY <1>1, <1>2, <1>3, <1>4, <1>6, <1>7, <2>1, <2>2 DEF WorkspacesInv, Having, Fits, Executing
  <2>3. CASE a = "command"
    <3>1. at'["executor"] = at["executor"] /\ held'["executor"] = held["executor"]
      BY <1>3, <2>3, ActorNames
    <3>2. held["executor"] # 0 => made'[held["executor"]] = made[held["executor"]]
      BY <1>2, <1>6, <2>1
    <3>3. at'["command"] = "store" /\ held'["command"] # 0
      BY <1>2, <1>3, <2>3
    <3> QED BY <1>1, <1>7, <2>1, <3>1, <3>2, <3>3, ActorNames
            DEF WorkspacesInv, Having, Fits, Executing
  <2> QED BY <2>2, <2>3, ActorNames
<1> QED BY <1>5, <1>8, <1>9, <1>10 DEF WorkspacesInv

\* The owner's row is replaced; the executor learns of a command's session only
\* as one adrift.
LEMMA StoreSessionKeeps ==
    ASSUME WorkspacesInv, NEW a \in Projects!Actors, Projects!StoreSession(a)
    PROVE  WorkspacesInv'
<1>1. /\ UNCHANGED <<allowed, managed, active, made, born, binding, repo, status, session, job,
                     rebinding, starting, commands, deaths>>
      /\ at[a] = "store" /\ current' = held[a] /\ Projects!Goes(a, "settled", held[a])
      /\ adrift' = IF a = "command" /\ Projects!Exposed THEN adrift \cup {held[a]} ELSE adrift
  BY DEF Projects!StoreSession, Projects!lists, Projects!tasks, Projects!rest
<1>2. held[a] \in 0..born /\ born \in 0..born' /\ born \in 0..MaxSessions /\ born' \in Nat
  BY <1>1, BornIsNat DEF WorkspacesInv, Made
<1>3. /\ held' \in [Projects!Actors -> 0..born'] /\ at' \in [Projects!Actors -> Points]
      /\ at'[a] = "settled" /\ held'[a] = held[a]
      /\ \A b \in Projects!Actors \ {a} : at'[b] = at[b] /\ held'[b] = held[b]
  BY <1>1, <1>2, GoesFacts DEF Points
<1>4. adrift \subseteq adrift'
  BY <1>1
<1>0. held[a] # 0
  BY <1>1 DEF WorkspacesInv, Having
<1>5. Projects!TypeOK' /\ Made'
  <2>1. held[a] \in 0..MaxSessions /\ held[a] \in Projects!Sessions
    BY <1>0, <1>2, WorkspaceAssumption DEF Projects!Sessions
  <2>2. adrift' \subseteq Projects!Sessions
    BY <1>1, <2>1 DEF WorkspacesInv, Projects!TypeOK
  <2>3. Projects!TypeOK'
    BY <1>1, <2>1, <2>2 DEF WorkspacesInv, Projects!TypeOK
  <2> QED BY <1>1, <1>2, <1>3, <2>3 DEF WorkspacesInv, Made
<1>6. Asking'
  BY <1>1, <1>3, ActorNames DEF WorkspacesInv, Asking, Executing
<1>7. Saved'
  BY <1>1, <1>4 DEF WorkspacesInv, Saved, Fits
<1>8. Having'
  <2>1. CASE a = "executor"
    BY <1>1, <1>3, <2>1 DEF WorkspacesInv, Having, Fits, Executing
  <2>2. CASE a = "command"
    <3>1. at'["executor"] = at["executor"] /\ held'["executor"] = held["executor"]
      BY <1>3, <2>2, ActorNames
    <3>2. (Executing = "ensure" \/ (Executing = "settled" /\ rebinding))
            => repo[job] = "none" \/ current' \in adrift'
      BY <1>1, <2>2 DEF Projects!Exposed, Projects!None, Executing
    <3>3. at'["command"] # "store"
      BY <1>3, <2>2
    <3> QED BY <1>0, <1>1, <1>4, <3>1, <3>2, <3>3, ActorNames
            DEF WorkspacesInv, Having, Fits, Executing
  <2> QED BY <2>1, <2>2, ActorNames
<1> QED BY <1>5, <1>6, <1>7, <1>8 DEF WorkspacesInv

-----------------------------------------------------------------------------
(* The owner's commands and the restarts.                                  *)

\* No command touches the executor's state, a task, a binding or a session; the
\* two that go on to a new session only take their place for it.
LEMMA CommandKeeps ==
    ASSUME WorkspacesInv,
           \/ \E r \in Repos : Projects!AddRepo(r) \/ Projects!RemoveRepo(r) \/ Projects!Use(r)
           \/ Projects!GitFails \/ Projects!New \/ Projects!EndCommand \/ Projects!AllowManaged
    PROVE  WorkspacesInv'
<1>1. /\ UNCHANGED <<current, made, born, binding, repo, status, session, job, rebinding, adrift>>
      /\ \/ UNCHANGED <<at, held>>
         \/ Projects!Goes("command", "replace", 0) \/ Projects!Goes("command", "idle", 0)
  BY DEF Projects!AddRepo, Projects!RemoveRepo, Projects!Use, Projects!GitFails, Projects!New,
         Projects!EndCommand, Projects!AllowManaged, Projects!Command, Projects!lists, Projects!table,
         Projects!tasks, Projects!pcs, Projects!rest
<1>2. born' \in Nat /\ born \in 0..born' /\ 0 \in 0..born'
  BY <1>1, BornIsNat
<1>3. /\ held' \in [Projects!Actors -> 0..born'] /\ at' \in [Projects!Actors -> Points]
      /\ at'["executor"] = at["executor"] /\ held'["executor"] = held["executor"]
      /\ at'["command"] = "store" => at["command"] = "store" /\ held'["command"] = held["command"]
  <2>1. CASE UNCHANGED <<at, held>>
    BY <1>1, <2>1 DEF WorkspacesInv, Made
  <2>2. CASE Projects!Goes("command", "replace", 0) \/ Projects!Goes("command", "idle", 0)
    BY <1>2, <2>2, GoesFacts, ActorNames DEF Points
  <2> QED BY <1>1, <2>1, <2>2
<1>4. /\ allowed' \subseteq Repos /\ managed' \subseteq Repos /\ active' \in Repos \cup {Projects!None}
      /\ starting' \in BOOLEAN
  <2>1. allowed' \subseteq Repos /\ managed' \subseteq Repos /\ active' \in Repos \cup {Projects!None}
    BY DEF WorkspacesInv, Projects!TypeOK, Projects!AddRepo, Projects!RemoveRepo, Projects!Use,
           Projects!GitFails, Projects!New, Projects!EndCommand, Projects!AllowManaged, Projects!Command,
           Projects!Allow, Projects!Disallow, Projects!lists
  <2>2. starting' = starting \/ starting' = FALSE
    BY DEF Projects!AddRepo, Projects!RemoveRepo, Projects!Use,
           Projects!GitFails, Projects!New, Projects!EndCommand, Projects!AllowManaged, Projects!Command,
           Projects!rest
  <2> QED BY <2>1, <2>2 DEF WorkspacesInv, Projects!TypeOK
<1>5. Projects!TypeOK' /\ Made'
  BY <1>1, <1>3, <1>4 DEF WorkspacesInv, Projects!TypeOK, Made
<1>6. Asking' /\ Saved' /\ Having'
  BY <1>1, <1>3, ActorNames DEF WorkspacesInv, Asking, Saved, Having, Fits, Executing
<1> QED BY <1>5, <1>6 DEF WorkspacesInv

\* What is asked has no session yet, and is not the executor's task.
LEMMA AskKeeps ==
    ASSUME WorkspacesInv, NEW j \in Projects!Jobs, NEW r \in Repos \cup {Projects!None}, Projects!Ask(j, r)
    PROVE  WorkspacesInv'
<1>1. /\ UNCHANGED <<allowed, managed, active, current, made, born, binding, session, at, held, job,
                     rebinding, adrift, starting, commands, deaths>>
      /\ status[j] = "unasked" /\ status' = [status EXCEPT ![j] = "queued"]
      /\ repo' = [repo EXCEPT ![j] = r]
  BY DEF Projects!Ask, Projects!Queue, Projects!lists, Projects!table, Projects!pcs, Projects!rest
<1>2. Projects!TypeOK' /\ Made'
  BY <1>1 DEF WorkspacesInv, Projects!TypeOK, Made
<1>3. Asking'
  BY <1>1 DEF WorkspacesInv, Projects!TypeOK, Asking, Executing
<1>4. Saved'
  BY <1>1 DEF WorkspacesInv, Projects!TypeOK, Asking, Saved, Fits
<1>5. Having'
  <2>1. Executing # "idle" => repo'[job] = repo[job]
    BY <1>1 DEF WorkspacesInv, Projects!TypeOK, Asking
  <2> QED BY <1>1, <2>1 DEF WorkspacesInv, Having, Fits, Executing
<1> QED BY <1>2, <1>3, <1>4, <1>5 DEF WorkspacesInv

\* A restart takes the places and the binding away, and no session.
LEMMA RestartKeeps == ASSUME WorkspacesInv, Projects!Restart PROVE WorkspacesInv'
<1>1. /\ UNCHANGED <<managed, active, current, made, born, repo, session, job, adrift>>
      /\ allowed' = Fixed /\ binding' = <<"none", 0>> /\ rebinding' = FALSE /\ starting' = TRUE
      /\ status' = [j \in Projects!Jobs |-> IF status[j] = "running" THEN "queued" ELSE status[j]]
      /\ at' = [a \in Projects!Actors |-> "idle"] /\ held' = [a \in Projects!Actors |-> 0]
  BY DEF Projects!Restart, Projects!table, Projects!None
<1>2. Projects!TypeOK'
  BY <1>1, WorkspaceAssumption DEF WorkspacesInv, Projects!TypeOK
<1>3. Made'
  BY <1>1, BornIsNat DEF WorkspacesInv, Made, Points
<1>4. Asking' /\ Saved' /\ Having'
  BY <1>1, ActorNames DEF WorkspacesInv, Asking, Saved, Having, Fits, Executing
<1> QED BY <1>2, <1>3, <1>4 DEF WorkspacesInv

-----------------------------------------------------------------------------
(* The executor.                                                           *)

\* A task starts with the session of its checkpoint, or with none.
LEMMA ClaimKeeps == ASSUME WorkspacesInv, NEW j \in Projects!Jobs, Projects!Claim(j) PROVE WorkspacesInv'
<1>1. /\ UNCHANGED <<allowed, managed, active, current, made, born, repo, session, rebinding, adrift,
                     starting, commands, deaths>>
      /\ at["executor"] = "idle" /\ status[j] = "queued"
      /\ job' = j /\ status' = [status EXCEPT ![j] = "running"]
      /\ binding' \in {binding, <<repo[j], session[j]>>}
      /\ session[j] = 0 => binding' = binding
  BY DEF Projects!Claim, Projects!lists, Projects!table, Projects!rest
<1>2. PICK point \in {"refused", "saved", "ensure", "look"} :
        /\ Projects!Goes("executor", point, session[j])
        /\ point = "saved" => session[j] # 0
        /\ point = "ensure" => repo[j] = "none"
  BY DEF Projects!Claim, Projects!None
<1>3. /\ held' \in [Projects!Actors -> 0..born'] /\ at' \in [Projects!Actors -> Points]
      /\ at'["executor"] = point /\ held'["executor"] = session[j]
      /\ at'["command"] = at["command"] /\ held'["command"] = held["command"]
  <2>1. session[j] \in 0..born' /\ born \in 0..born' /\ born' \in Nat
    BY <1>1, BornIsNat DEF WorkspacesInv, Made
  <2> QED BY <1>2, <2>1, GoesFacts, ActorNames DEF Points
<1>4. Projects!TypeOK' /\ Made'
  <2>1. repo[j] \in Repos \cup {"none"} /\ session[j] \in 0..born
    BY DEF WorkspacesInv, Projects!TypeOK, Projects!None, Made
  <2> QED BY <1>1, <1>3, <2>1 DEF WorkspacesInv, Projects!TypeOK, Made
<1>5. Asking'
  BY <1>1, <1>3 DEF WorkspacesInv, Projects!TypeOK, Asking, Executing
<1>6. Saved'
  BY <1>1 DEF WorkspacesInv, Saved, Fits
<1>7. Having'
  BY <1>1, <1>2, <1>3, ActorNames DEF WorkspacesInv, Saved, Having, Fits, Executing
<1> QED BY <1>4, <1>5, <1>6, <1>7 DEF WorkspacesInv

\* A task that ends leaves its checkpoint and the binding.
LEMMA EndsKeep == ASSUME WorkspacesInv, Projects!Refuse \/ Projects!EndTurn PROVE WorkspacesInv'
<1>1. /\ UNCHANGED <<allowed, managed, active, current, made, born, binding, repo, session, job, adrift,
                     starting, commands, deaths>>
      /\ rebinding' = FALSE /\ Projects!Goes("executor", "idle", 0) /\ Executing # "idle"
  BY DEF Projects!Refuse, Projects!EndTurn, Projects!Finish, Projects!lists, Projects!table, Projects!rest,
         Executing
<1>2. PICK as \in {"over", "queued"} : status' = [status EXCEPT ![job] = as]
  BY DEF Projects!Refuse, Projects!EndTurn, Projects!Finish
<1>3. /\ held' \in [Projects!Actors -> 0..born'] /\ at' \in [Projects!Actors -> Points]
      /\ at'["executor"] = "idle"
      /\ at'["command"] = at["command"] /\ held'["command"] = held["command"]
  <2>1. 0 \in 0..born' /\ born \in 0..born' /\ born' \in Nat
    BY <1>1, BornIsNat
  <2> QED BY <1>1, <2>1, GoesFacts, ActorNames DEF Points
<1>4. Projects!TypeOK' /\ Made'
  BY <1>1, <1>2, <1>3 DEF WorkspacesInv, Projects!TypeOK, Made
<1>5. Asking' /\ Saved' /\ Having'
  BY <1>1, <1>2, <1>3, ActorNames
     DEF WorkspacesInv, Projects!TypeOK, Asking, Saved, Having, Fits, Executing
<1> QED BY <1>4, <1>5 DEF WorkspacesInv

\* The owner's session is taken if it is the one bound to the repository.
LEMMA LookKeeps == ASSUME WorkspacesInv, Projects!Look PROVE WorkspacesInv'
<1>1. /\ UNCHANGED <<allowed, managed, active, current, made, born, binding, repo, status, session, job,
                     adrift, starting, commands, deaths>>
      /\ at["executor"] = "look" /\ rebinding' = ~(binding = <<repo[job], current>>)
  BY DEF Projects!Look, Projects!Bound, Projects!lists, Projects!table, Projects!tasks, Projects!rest
<1>2. PICK point \in {"replace", "ensure"} :
        Projects!Goes("executor", point, current) /\ (point = "ensure" => binding = <<repo[job], current>>)
  BY <1>1 DEF Projects!Look
<1>3. /\ held' \in [Projects!Actors -> 0..born'] /\ at' \in [Projects!Actors -> Points]
      /\ at'["executor"] = point
      /\ at'["command"] = at["command"] /\ held'["command"] = held["command"]
  <2>1. current \in 0..born' /\ born \in 0..born' /\ born' \in Nat
    BY <1>1, BornIsNat DEF WorkspacesInv, Made
  <2> QED BY <1>2, <2>1, GoesFacts, ActorNames DEF Points
<1>4. Projects!TypeOK' /\ Made'
  <2>1. rebinding' \in BOOLEAN
    BY <1>1
  <2> QED BY <1>1, <1>3, <2>1 DEF WorkspacesInv, Projects!TypeOK, Made
<1>5. Asking' /\ Saved'
  BY <1>1, <1>3 DEF WorkspacesInv, Asking, Saved, Fits, Executing
<1>6. Having'
  BY <1>1, <1>2, <1>3, ActorNames DEF WorkspacesInv, Saved, Having, Fits, Executing
<1> QED BY <1>4, <1>5, <1>6 DEF WorkspacesInv

\* What is bound and what is saved is the session the executor settled on.
LEMMA BindKeeps == ASSUME WorkspacesInv, Projects!Bind PROVE WorkspacesInv'
<1>1. /\ UNCHANGED <<allowed, managed, active, current, made, born, repo, status, session, job, adrift,
                     starting, commands, deaths>>
      /\ at["executor"] = "settled" /\ rebinding /\ rebinding' = FALSE
      /\ binding' = <<repo[job], held["executor"]>> /\ Projects!Goes("executor", "ensure", 0)
  BY DEF Projects!Bind, Projects!lists, Projects!table, Projects!tasks, Projects!rest
<1>2. /\ held' \in [Projects!Actors -> 0..born'] /\ at' \in [Projects!Actors -> Points]
      /\ at'["executor"] = "ensure"
      /\ at'["command"] = at["command"] /\ held'["command"] = held["command"]
  <2>1. 0 \in 0..born' /\ born \in 0..born' /\ born' \in Nat
    BY <1>1, BornIsNat
  <2> QED BY <1>1, <2>1, GoesFacts, ActorNames DEF Points
<1>3. Projects!TypeOK' /\ Made'
  <2>1. repo[job] \in Repos \cup {"none"} /\ held["executor"] \in 0..born
    BY ActorNames DEF WorkspacesInv, Projects!TypeOK, Projects!None, Made
  <2> QED BY <1>1, <1>2, <2>1 DEF WorkspacesInv, Projects!TypeOK, Made
<1>4. Asking' /\ Saved'
  BY <1>1, <1>2, ActorNames DEF WorkspacesInv, Asking, Saved, Having, Fits, Executing
<1>5. current = 0 \/ Fits(repo[job], current)
  BY <1>1 DEF WorkspacesInv, Having, Executing
<1>6. Having'
  BY <1>1, <1>2, <1>5, ActorNames DEF WorkspacesInv, Having, Fits, Executing
<1> QED BY <1>3, <1>4, <1>6 DEF WorkspacesInv

\* The session settled on is written down before the prompt goes to it.
LEMMA SaveAndSendKeep ==
    ASSUME WorkspacesInv, Projects!SaveCheckpoint \/ Projects!Send
    PROVE  WorkspacesInv'
<1>1. /\ UNCHANGED <<allowed, managed, active, current, made, born, binding, repo, status, job, rebinding,
                     adrift, starting, commands, deaths>>
      /\ at["executor"] \in {"settled", "saved"}
      /\ session' \in {session, [session EXCEPT ![job] = held["executor"]]}
      /\ \E point \in {"saved", "sent"} : Projects!Goes("executor", point, held["executor"])
  BY DEF Projects!SaveCheckpoint, Projects!Send, Projects!lists, Projects!table, Projects!tasks, Projects!rest
<1>2. /\ held' \in [Projects!Actors -> 0..born'] /\ at' \in [Projects!Actors -> Points]
      /\ at'["executor"] \in {"saved", "sent"} /\ held'["executor"] = held["executor"]
      /\ at'["command"] = at["command"] /\ held'["command"] = held["command"]
      /\ held["executor"] \in 0..born
  <2>1. held["executor"] \in 0..born' /\ born \in 0..born' /\ born' \in Nat
    BY <1>1, BornIsNat, ActorNames DEF WorkspacesInv, Made
  <2> QED BY <1>1, <2>1, GoesFacts, ActorNames DEF Points
<1>3. Projects!TypeOK' /\ Made'
  <2>1. session' \in [Projects!Jobs -> 0..born]
    BY <1>1, <1>2 DEF WorkspacesInv, Projects!TypeOK, Made
  <2>2. session' \in [Projects!Jobs -> 0..MaxSessions]
    BY <2>1, BornIsNat, WorkspaceAssumption
  <2> QED BY <1>1, <1>2, <2>1, <2>2 DEF WorkspacesInv, Projects!TypeOK, Made
<1>4. Asking'
  <2>1. status[job] = "running"
    BY <1>1 DEF WorkspacesInv, Asking, Executing
  <2>2. \A j \in Projects!Jobs : status[j] = "unasked" => session'[j] = session[j]
    BY <1>1, <2>1 DEF WorkspacesInv, Made
  <2> QED BY <1>1, <2>1, <2>2 DEF WorkspacesInv, Asking, Executing
<1>5. Saved'
  BY <1>1 DEF WorkspacesInv, Projects!TypeOK, Saved, Having, Fits, Executing
<1>6. Having'
  BY <1>1, <1>2, ActorNames DEF WorkspacesInv, Having, Fits, Executing
<1> QED BY <1>3, <1>4, <1>5, <1>6 DEF WorkspacesInv

\* Every step keeps the workspaces' invariant.
LEMMA WorkspaceStep == WorkspacesInv /\ [Projects!Next]_(Projects!vars) => WorkspacesInv'
<1> SUFFICES ASSUME WorkspacesInv, [Projects!Next]_(Projects!vars) PROVE WorkspacesInv'
  OBVIOUS
<1>1. CASE Projects!Next
  BY <1>1, ReadOldKeeps, DropRowKeeps, ReadRowKeeps, CreateSessionKeeps, StoreSessionKeeps, CommandKeeps,
     ClaimKeeps, AskKeeps, EndsKeep, LookKeeps, BindKeeps, SaveAndSendKeep, RestartKeeps
     DEF Projects!Next
<1>2. CASE UNCHANGED Projects!vars
  BY <1>2 DEF Projects!vars, Projects!lists, Projects!table, Projects!tasks, Projects!pcs, Projects!rest,
              WorkspacesInv, Projects!TypeOK, Made, Asking, Saved, Having, Fits, Executing
<1> QED BY <1>1, <1>2

\* The owner's sessions, their bindings and the tasks' checkpoints are in order.
THEOREM WorkspacesAreSound == AllSpec => []WorkspacesInv
<1>1. AllInit => WorkspacesInv
  BY WorkspaceStart DEF AllInit
<1>2. [AllNext]_allVars => [Projects!Next]_(Projects!vars)
  BY DEF AllNext, OnlyTurn, OnlyWorkspaces, allVars, workspaces, Projects!vars, Projects!lists,
         Projects!table, Projects!tasks, Projects!pcs, Projects!rest
<1> QED BY <1>1, <1>2, WorkspaceStep, PTL DEF AllSpec

\* A prompt goes to a session of its repository, or to one that a command stored
\* in one of the two moments in which the executor goes by the owner's row.
THEOREM PromptsStayInTheirRepo == AllSpec => []NeverAnotherRepo
<1>1. WorkspacesInv => NeverAnotherRepo
  BY DEF WorkspacesInv, Having, Fits, Executing, NeverAnotherRepo, Projects!NeverAnotherRepo, Projects!None
<1> QED BY <1>1, WorkspacesAreSound, PTL
=============================================================================
