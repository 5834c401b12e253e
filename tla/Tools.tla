------------------------------- MODULE Tools -------------------------------
(***************************************************************************)
(* The owner's control over the agent's host tools (tool_manager.py, the   *)
(* root helper opencode-bridge-tools.py): packages installed, updated and  *)
(* removed one operation at a time, the policy file of disabled and        *)
(* removed tools, and the nightly provisioning that installs packages on   *)
(* its own (install-dev-tools.sh).                                         *)
(***************************************************************************)
EXTENDS FiniteSets, Naturals

CONSTANTS
    Keys,         \* the catalogue
    Core,         \* its required tools
    Provisioned,  \* those the nightly provisioning installs
    MaxOutside    \* changes by others, unreadable policies and restarts

VARIABLES
    pkg,       \* every package: absent, present, or without its command
    policy,    \* the policy file: the disabled and the removed tools
    readable,  \* the file can be read
    captured,  \* the disabled tools the media pipeline was built with
    op,        \* the operation that holds the host guard
    outside

vars == <<pkg, policy, readable, captured, op, outside>>

NoOp == [what |-> "none", key |-> "none", at |-> "none", read |-> [disabled |-> {}, removed |-> {}],
         todo |-> {}, failed |-> {}, touched |-> {}]

Init ==
    /\ pkg = [k \in Keys |-> IF k \in Core THEN "present" ELSE "absent"]
    /\ policy = [disabled |-> {}, removed |-> {}]
    /\ readable = TRUE /\ captured = {}
    /\ op = NoOp
    /\ outside = 0

\* An unreadable policy allows nothing.
Enabled(k) == readable /\ k \notin policy.disabled

Usable(k) == pkg[k] = "present" /\ Enabled(k)

Allow(p, k)  == [disabled |-> p.disabled \ {k}, removed |-> p.removed \ {k}]
Forbid(p, k) == [disabled |-> p.disabled \cup {k}, removed |-> p.removed \cup {k}]
-----------------------------------------------------------------------------
\* The capability is switched; a removed tool switched on stays removed.
SetEnabled(k) ==
    /\ op = NoOp /\ readable
    /\ k \in policy.disabled \/ k \notin Core
    /\ policy' = [policy EXCEPT !.disabled = IF k \in @ THEN @ \ {k} ELSE @ \cup {k}]
    /\ UNCHANGED <<pkg, readable, captured, op, outside>>

\* The guard is taken and the policy read; what the operation does not need is
\* answered at once.
Begin(what, k) ==
    /\ op = NoOp /\ readable
    /\ CASE what = "install" -> TRUE
         [] what = "update"  -> pkg[k] = "present"
         [] what = "remove"  -> k \notin Core /\ pkg[k] # "absent"
    /\ IF what = "install" /\ pkg[k] = "present"
         THEN policy' = Allow(policy, k) /\ UNCHANGED op
         ELSE op' = [NoOp EXCEPT !.what = what, !.key = k, !.at = "helper", !.read = policy]
              /\ UNCHANGED policy
    /\ UNCHANGED <<pkg, readable, captured, outside>>

BeginAll ==
    /\ op = NoOp /\ readable
    /\ op' = [NoOp EXCEPT !.what = "activate", !.at = "check", !.todo = Keys]
    /\ UNCHANGED <<pkg, policy, readable, captured, outside>>

\* The panel's buttons; one operation at a time, the others are told it is busy.
ToolAction ==
    \/ \E k \in Keys, what \in {"install", "update", "remove"} : Begin(what, k)
    \/ BeginAll

\* What the helper may leave behind, and whether it says it did what was asked.
\* One that is killed by its time limit may have changed the package all the same.
HelperEnds(what, before) ==
    CASE what = "install" -> {<<"present", TRUE>>, <<"broken", TRUE>>, <<before, FALSE>>, <<"present", FALSE>>}
      [] what = "update"  -> {<<"present", TRUE>>, <<before, FALSE>>}
      [] what = "remove"  -> {<<"absent", TRUE>>, <<before, TRUE>>, <<before, FALSE>>, <<"absent", FALSE>>}

\* The helper is run through sudo, or is not there to be run.
RunHelper ==
    /\ op.at = "helper"
    /\ LET what == IF op.what = "activate" THEN "install" ELSE op.what
       IN  \E end \in HelperEnds(what, pkg[op.key]) :
               /\ pkg' = [pkg EXCEPT ![op.key] = end[1]]
               /\ op' = [op EXCEPT !.at = IF end[2] THEN "record" ELSE "failed"]
    /\ UNCHANGED <<policy, readable, captured, outside>>

\* The package is looked at again, and the policy as it was read is written with
\* the change; a policy that cannot be read by now ends the operation instead.
Record ==
    /\ op.at = "record"
    /\ LET k    == op.key
           done == IF op.what = "remove" THEN pkg[k] = "absent" ELSE pkg[k] = "present"
       IN  IF ~readable \/ op.what = "update"
             THEN op' = NoOp /\ UNCHANGED policy
             ELSE /\ policy' = IF ~done THEN policy
                               ELSE IF op.what = "remove" THEN Forbid(op.read, k) ELSE Allow(op.read, k)
                  /\ op' = IF op.what # "activate" THEN NoOp
                           ELSE [op EXCEPT !.at = IF done THEN "check" ELSE "failed"]
    /\ UNCHANGED <<pkg, readable, captured, outside>>

\* (fault) as Failed, the failure not collected.
FailedUnsaid ==
    /\ op.at = "failed"
    /\ op' = IF op.what = "activate" THEN [op EXCEPT !.at = "check"] ELSE NoOp
    /\ UNCHANGED <<pkg, policy, readable, captured, outside>>

\* The failure of one tool ends a single operation, and activation's next step.
Failed ==
    /\ op.at = "failed"
    /\ op' = IF op.what = "activate" THEN [op EXCEPT !.at = "check", !.failed = @ \cup {op.key}] ELSE NoOp
    /\ UNCHANGED <<pkg, policy, readable, captured, outside>>

\* Activation looks at one tool after the other: a missing one is installed, a
\* disabled one enabled.  A policy that cannot be read ends it with an error.
CheckNext ==
    /\ op.at = "check" /\ op.todo # {}
    /\ IF ~readable
         THEN op' = NoOp /\ UNCHANGED policy
         ELSE \E k \in op.todo :
                IF pkg[k] # "present"
                  THEN /\ op' = [op EXCEPT !.key = k, !.at = "helper", !.read = policy, !.todo = @ \ {k}]
                       /\ UNCHANGED policy
                  ELSE /\ op' = [op EXCEPT !.todo = @ \ {k}]
                       /\ policy' = [policy EXCEPT !.disabled = @ \ {k}]
    /\ UNCHANGED <<pkg, readable, captured, outside>>

\* The audit changes nothing; the report names what failed.
Report ==
    /\ op.at = "check" /\ op.todo = {}
    /\ op' = NoOp
    /\ UNCHANGED <<pkg, policy, readable, captured, outside>>
-----------------------------------------------------------------------------
Outside == outside < MaxOutside /\ outside' = outside + 1

Touch(keys) == IF op = NoOp THEN op ELSE [op EXCEPT !.touched = @ \cup keys]

\* The policy the provisioning looks for is the one under runtime/, but the
\* manager is built over the bridge's own directory and writes it there.
RemovedForProvisioning == {}

\* The nightly refresh of the root assets installs what it finds missing.
Provision ==
    /\ Outside
    /\ LET missing == {k \in Provisioned \ RemovedForProvisioning : pkg[k] = "absent"}
       IN  /\ pkg' = [k \in Keys |-> IF k \in missing THEN "present" ELSE pkg[k]]
           /\ op' = Touch(missing)
    /\ UNCHANGED <<policy, readable, captured>>

\* Somebody installs or removes a package by hand.
ByHand ==
    /\ Outside
    /\ \E k \in Keys, to \in {"absent", "present"} :
           pkg[k] # to /\ pkg' = [pkg EXCEPT ![k] = to] /\ op' = Touch({k})
    /\ UNCHANGED <<policy, readable, captured>>

\* The policy file gets permissions or contents that are refused.
Spoiled ==
    /\ Outside
    /\ readable' = FALSE
    /\ op' = Touch(Keys)
    /\ UNCHANGED <<pkg, policy, captured>>

\* The bridge restarts; the media pipeline is built with the policy of the day.
Restart ==
    /\ Outside
    /\ op' = NoOp
    /\ captured' = IF readable THEN policy.disabled ELSE Keys
    /\ UNCHANGED <<pkg, policy, readable>>
-----------------------------------------------------------------------------
Next ==
    \/ \E k \in Keys : SetEnabled(k)
    \/ ToolAction
    \/ RunHelper \/ Record \/ Failed \/ CheckNext \/ Report
    \/ Provision \/ ByHand \/ Spoiled \/ Restart

Spec == Init /\ [][Next]_vars
-----------------------------------------------------------------------------
\* When "activate all" reports, every tool that it does not name as failed can be
\* used, unless somebody else changed that tool or the policy meanwhile.
ActivatedOrReported ==
    op.at = "check" /\ op.todo = {} =>
        \A k \in Keys : Usable(k) \/ k \in op.failed \/ k \in op.touched

\* The docstring of tool_manager.py: removal "is recorded in the policy so the
\* daily provisioning run does not silently reinstall a package the owner
\* deliberately removed".
RemovedStaysRemoved ==
    [][Provision => \A k \in policy.removed : pkg'[k] = pkg[k]]_vars
=============================================================================
