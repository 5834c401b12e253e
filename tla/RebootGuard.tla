----------------------------- MODULE RebootGuard -----------------------------
(***************************************************************************)
(* The confirmed reboot after package maintenance.  A root script asks the *)
(* owner and waits (reboot-guard.sh); the bot turns a button into a file   *)
(* (callbacks/reboot.py).  They know each other by two files only: the     *)
(* script writes the request, the bot the decision.                        *)
(***************************************************************************)
EXTENDS Naturals

CONSTANTS
    MaxRequests,   \* bound on requests
    MaxKills       \* bound on deaths of the script

None == "none"

VARIABLES
    request,   \* the request file: its number and status
    decision,  \* the decision file: the action and the request the bot saw
    pressing,  \* a button between the bot's reading and its writing
    script,    \* where the script is
    late,      \* its deadline has passed
    working,   \* a task is running
    needed,    \* the system asks for a reboot
    said,      \* history: the last button recorded since the file was cleared
    unheard,   \* history: it was recorded after the script's last look
    crossed,   \* history: this request was asked while a button waited to be recorded
    kills

heard == <<said, unheard, crossed>>
vars == <<request, decision, pressing, script, late, working, needed, heard, kills>>

NoRequest  == [id |-> 0, status |-> None]
NoDecision == [action |-> None, id |-> 0]

Init ==
    /\ request = NoRequest /\ decision = NoDecision /\ pressing = NoDecision
    /\ script = "off" /\ late = FALSE
    /\ working = FALSE /\ needed = FALSE
    /\ said = NoDecision /\ unheard = FALSE /\ crossed = FALSE
    /\ kills = 0

\* The script ends, having left this status behind.
Ends(status) == script' = "off" /\ request' = [request EXCEPT !.status = status]

\* The daily maintenance finds /var/run/reboot-required; a lock keeps a second
\* script out.
Ask ==
    /\ needed /\ script = "off" /\ request.id < MaxRequests
    /\ request' = [id |-> request.id + 1, status |-> "awaiting"]
    /\ script' = "asked" /\ late' = FALSE
    /\ said' = NoDecision /\ unheard' = FALSE /\ crossed' = (pressing # NoDecision)
    /\ UNCHANGED <<decision, pressing, working, needed, kills>>

\* The decision of an earlier request is removed.
Forget ==
    /\ script = "asked" /\ script' = "announce"
    /\ decision' = NoDecision
    /\ UNCHANGED <<request, pressing, late, working, needed, heard, kills>>

\* The message goes out, or the request is withdrawn; its number stays used.
Announce ==
    /\ script = "announce"
    /\ \/ script' = "waiting" /\ UNCHANGED <<request, decision>>
       \/ Ends(None) /\ decision' = NoDecision
    /\ UNCHANGED <<pressing, late, working, needed, heard, kills>>

Deadline ==
    /\ script = "waiting" /\ ~late
    /\ late' = TRUE /\ script' = "last"
    /\ UNCHANGED <<request, decision, pressing, working, needed, heard, kills>>

\* Every two seconds until the deadline.
Look ==
    /\ script = "waiting" /\ decision.action # None
    /\ IF decision.action = "cancel"
         THEN Ends("cancelled")
         ELSE script' = "last" /\ UNCHANGED request
    /\ UNCHANGED <<decision, pressing, late, working, needed, heard, kills>>

\* Fault: no second look after the wait.
LastLookBlind ==
    /\ script = "last" /\ script' = "check"
    /\ UNCHANGED <<request, decision, pressing, late, working, needed, heard, kills>>

LastLook ==
    /\ script = "last"
    /\ IF decision.action = "cancel"
         THEN Ends("cancelled")
         ELSE script' = "check" /\ UNCHANGED request
    /\ UNCHANGED <<decision, pressing, late, working, needed, heard, kills>>

\* check_queue.py: nothing is running.
Check ==
    /\ script = "check"
    /\ IF working
         THEN Ends("deferred")
         ELSE script' = "go" /\ request' = [request EXCEPT !.status = "rebooting"]
    /\ UNCHANGED <<decision, pressing, late, working, needed, heard, kills>>

\* The host goes down and comes up: no process is left, the files are.
Reboot ==
    /\ script = "go"
    /\ script' = "off" /\ needed' = FALSE /\ pressing' = NoDecision /\ working' = FALSE
    /\ UNCHANGED <<request, decision, late, heard, kills>>

Killed ==
    /\ script # "off" /\ kills < MaxKills /\ kills' = kills + 1
    /\ script' = "off"
    /\ UNCHANGED <<request, decision, pressing, late, working, needed, heard>>

-----------------------------------------------------------------------------
(* The bot.  A button of any message acts on the request that awaits.      *)

Press(action) ==
    /\ pressing = NoDecision /\ request.status = "awaiting"
    /\ pressing' = [action |-> action, id |-> request.id]
    /\ UNCHANGED <<request, decision, script, late, working, needed, heard, kills>>

\* The button is recorded, and the owner told so, wherever the script is by now: what is
\* recorded before the file is cleared is removed with it.
Record ==
    /\ pressing # NoDecision
    /\ decision' = pressing /\ pressing' = NoDecision
    /\ said' = IF script = "asked" THEN said ELSE pressing
    /\ unheard' = (script \in {"check", "go"})
    /\ UNCHANGED <<request, script, late, working, needed, crossed, kills>>

PackagesChange ==
    /\ ~needed /\ needed' = TRUE
    /\ UNCHANGED <<request, decision, pressing, script, late, working, heard, kills>>

TaskStartsOrEnds ==
    /\ script \in {"last", "check", "go"} /\ working' = ~working
    /\ UNCHANGED <<request, decision, pressing, script, late, needed, heard, kills>>

Next ==
    \/ Ask \/ Forget \/ Announce \/ Deadline \/ Look \/ LastLook \/ Check \/ Reboot \/ Killed
    \/ \E action \in {"cancel", "reboot_now"} : Press(action)
    \/ Record \/ PackagesChange \/ TaskStartsOrEnds

Spec == Init /\ [][Next]_vars
-----------------------------------------------------------------------------
(* Properties.                                                             *)

\* The variables hold what they can hold.
TypeOK ==
    /\ request.id \in 0..MaxRequests /\ decision.id \in 0..MaxRequests
    /\ {decision.action, pressing.action, said.action} \subseteq {None, "cancel", "reboot_now"}
    /\ script \in {"off", "asked", "announce", "waiting", "last", "check", "go"}
    /\ {late, working, needed, unheard, crossed} \subseteq BOOLEAN /\ kills \in 0..MaxKills

\* The host is rebooted only as the owner last said: never after a cancellation,
\* however shortly before the deadline or after a consent it came, and before the
\* deadline only with a consent to this request.  Two things the code lets pass are
\* named: a button recorded after the script's last look is accepted, the request being
\* awaited until reboot-guard.sh:123, and changes nothing; and the script does not read
\* the request's number, so a button that was pressed for the request before and is
\* recorded after this one was asked counts for this one.
RebootAsSaid ==
    script \in {"check", "go"} /\ ~unheard =>
      /\ said.action # "cancel"
      /\ late \/ (said.action = "reboot_now" /\ (crossed \/ said.id = request.id))
=============================================================================
