----------------------------- MODULE HostControl -----------------------------
(***************************************************************************)
(* Who may change the host, and when: the owner's update policy            *)
(* (runtime_controls.py), the guard of the panel's operations              *)
(* (host_operations.py, server_admin.py, host_control.py), the updater's   *)
(* unit outside the bot and the daily maintenance, which runs as root and  *)
(* knows the policy only from its files.                                   *)
(*                                                                         *)
(* A change of the policy is several files written one after the other:    *)
(* the bot does nothing else meanwhile, the other processes do, and the    *)
(* bot may die in between.                                                 *)
(***************************************************************************)
EXTENDS Naturals, Sequences

CONSTANTS
    Modes,       \* the autopilot modes the owner chooses among
    MaxDeaths    \* bound on deaths of the bot nobody asked for

None == "none"

AutopilotModes == {"off", "notify", "auto-safe", "maintenance-window", "emergency-stop"}

VARIABLES
    mode,      \* the file autopilot-mode, or None before the first choice
    legacy,    \* the file auto-update-enabled holds 1
    osUpdate,  \* the file host-auto-update-enabled holds 1
    setting,   \* the mode being written and the file that is next
    guard,     \* the operation that holds the guard and the command it is at
    unit,      \* the updater's own unit: "off", "begun", "allowed", "deploying"
    due,       \* scheduled by transient units: "bridge", "reboot"
    maint,     \* where the daily maintenance is
    deaths

policy == <<mode, legacy, osUpdate, setting>>
vars   == <<policy, guard, unit, due, maint, deaths>>

NotSetting == [to |-> None, at |-> None]
Free       == [kind |-> None, at |-> 0]

Init ==
    /\ mode = None /\ legacy \in BOOLEAN /\ osUpdate = FALSE
    /\ setting = NotSetting
    /\ guard = Free /\ unit = "off" /\ due = {}
    /\ maint = "idle"
    /\ deaths = 0

Automatic == {"auto-safe", "maintenance-window"}

\* autopilot_mode, deployment_mode: an explicit choice before the older switch.
Effective == IF mode # None THEN mode ELSE IF legacy THEN "auto-safe" ELSE "off"

Stopped == Effective = "emergency-stop"

\* The bot's event loop is not inside set_autopilot_mode.
BotFree == setting = NotSetting

-----------------------------------------------------------------------------
(* The owner's policy.                                                     *)

\* Fault: the stop leaves the consent to package updates in place.
SetModeKeepingConsent(m) ==
    /\ BotFree
    /\ setting' = [to |-> m, at |-> "legacy"]
    /\ UNCHANGED <<mode, legacy, osUpdate, guard, unit, due, maint, deaths>>

SetMode(m) ==
    /\ BotFree
    /\ setting' = [to |-> m, at |-> IF m = "emergency-stop" THEN "os" ELSE "legacy"]
    /\ UNCHANGED <<mode, legacy, osUpdate, guard, unit, due, maint, deaths>>

\* The files in their order.
WriteOs ==
    /\ setting.at = "os"
    /\ osUpdate' = FALSE
    /\ setting' = [setting EXCEPT !.at = "legacy"]
    /\ UNCHANGED <<mode, legacy, guard, unit, due, maint, deaths>>

\* Fault: the older switch keeps its value until the mode is written.
WriteLegacyLate ==
    /\ setting.at = "legacy"
    /\ setting' = [setting EXCEPT !.at = "mode"]
    /\ UNCHANGED <<mode, legacy, osUpdate, guard, unit, due, maint, deaths>>

WriteLegacy ==
    /\ setting.at = "legacy"
    /\ legacy' = FALSE
    /\ setting' = [setting EXCEPT !.at = "mode"]
    /\ UNCHANGED <<mode, osUpdate, guard, unit, due, maint, deaths>>

WriteMode ==
    /\ setting.at = "mode"
    /\ mode' = setting.to
    /\ setting' = IF setting.to \in Automatic THEN [setting EXCEPT !.at = "optin"] ELSE NotSetting
    /\ UNCHANGED <<legacy, osUpdate, guard, unit, due, maint, deaths>>

OptIn ==
    /\ setting.at = "optin"
    /\ legacy' = TRUE
    /\ setting' = NotSetting
    /\ UNCHANGED <<mode, osUpdate, guard, unit, due, maint, deaths>>

\* set_system_auto_update: never on while stopped.
ToggleOs ==
    /\ BotFree
    /\ osUpdate \/ ~Stopped
    /\ osUpdate' = ~osUpdate
    /\ UNCHANGED <<mode, legacy, setting, guard, unit, due, maint, deaths>>

-----------------------------------------------------------------------------
(* The panel's operations.                                                 *)

Commands(kind) ==
    CASE kind = "agent"        -> <<"version", "upgrade", "version", "restart", "active">>
      [] kind = "system"       -> <<"index", "upgrade">>
      [] kind = "bridge"       -> <<"launch", "wait">>
      [] kind = "bridge-check" -> <<"check">>
      [] kind = "tools"        -> <<"install">>

Updates == {"agent", "system", "bridge"}
Kinds   == Updates \cup {"bridge-check", "tools"}

Busy    == guard # Free
Command == Commands(guard.kind)[guard.at]

\* update_now, and the tool manager's actions: refused while another is at work.
\* A changing update asks for the policy once it has the guard.
Begin(kind) ==
    /\ BotFree /\ ~Busy
    /\ kind \in Updates => ~Stopped
    /\ guard' = [kind |-> kind, at |-> 1]
    /\ UNCHANGED <<policy, unit, due, maint, deaths>>

\* A command succeeds; or it fails or times out and the operation ends.
Proceed ==
    /\ BotFree /\ Busy /\ Command \notin {"launch", "wait"}
    /\ \/ guard' = IF guard.at < Len(Commands(guard.kind)) THEN [guard EXCEPT !.at = @ + 1] ELSE Free
       \/ guard' = Free
    /\ UNCHANGED <<policy, unit, due, maint, deaths>>

\* _apply_bridge_detached: the unit begins, or systemd refuses it.
Launch ==
    /\ BotFree /\ Busy /\ Command = "launch"
    /\ \/ unit = "off" /\ unit' = "begun" /\ guard' = [guard EXCEPT !.at = 2]
       \/ guard' = Free /\ UNCHANGED unit
    /\ UNCHANGED <<policy, due, maint, deaths>>

\* The result is there, or 180 seconds are over and the unit runs on.
StopWaiting ==
    /\ BotFree /\ Busy /\ Command = "wait"
    /\ guard' = Free
    /\ UNCHANGED <<policy, unit, due, maint, deaths>>

\* restart_service of what holds the bot: refused while the guard is held, and
\* left to a unit that acts seconds later.
ScheduleRestart ==
    /\ BotFree /\ ~Busy
    /\ due' = due \cup {"bridge"}
    /\ UNCHANGED <<policy, guard, unit, maint, deaths>>

\* reboot, in the same way, where the host allows it.
ScheduleReboot ==
    /\ BotFree /\ ~Busy
    /\ due' = due \cup {"reboot"}
    /\ UNCHANGED <<policy, guard, unit, maint, deaths>>

\* The bot's process ends: the guard and what was being written are gone.
BotEnds == guard' = Free /\ setting' = NotSetting

RestartBridge ==
    /\ "bridge" \in due /\ due' = due \ {"bridge"}
    /\ BotEnds
    /\ UNCHANGED <<mode, legacy, osUpdate, unit, maint, deaths>>

RebootHost ==
    /\ "reboot" \in due /\ due' = {}
    /\ BotEnds /\ unit' = "off" /\ maint' = "idle"
    /\ UNCHANGED <<mode, legacy, osUpdate, deaths>>

BotDies ==
    /\ deaths < MaxDeaths /\ deaths' = deaths + 1
    /\ BotEnds
    /\ UNCHANGED <<mode, legacy, osUpdate, unit, due, maint>>

-----------------------------------------------------------------------------
(* self_update.py in a unit of its own.                                    *)

\* It looks at the policy once; then it verifies the release, which takes a while,
\* and goes on to deploy.sh, or ends.
UnitDecides ==
    /\ unit = "begun"
    /\ unit' \in (IF Stopped THEN {"off"} ELSE {"off", "allowed"})
    /\ UNCHANGED <<policy, guard, due, maint, deaths>>

UnitVerifies ==
    /\ unit = "allowed" /\ unit' \in {"off", "deploying"}
    /\ UNCHANGED <<policy, guard, due, maint, deaths>>

UnitDeploys ==
    /\ unit = "deploying" /\ unit' = "off"
    /\ BotEnds
    /\ UNCHANGED <<mode, legacy, osUpdate, due, maint, deaths>>

-----------------------------------------------------------------------------
(* daily-maintenance.sh.                                                   *)

MaintMoves(from, to) == maint = from /\ maint' = to

\* The file alone is read here: before the first choice there is nothing to obey.
MaintBegins ==
    /\ mode # "emergency-stop" /\ MaintMoves("idle", "consent")
    /\ UNCHANGED <<policy, guard, unit, due, deaths>>

\* Package updates need the owner's consent, read once, when their turn comes.
MaintPackages ==
    /\ MaintMoves("consent", IF osUpdate THEN "index" ELSE "files")
    /\ UNCHANGED <<policy, guard, unit, due, deaths>>

\* Four commands, each run whatever became of the one before it and whatever the
\* owner has pressed since.
MaintApt ==
    /\ \/ MaintMoves("index", "upgrade") \/ MaintMoves("upgrade", "preview")
       \/ MaintMoves("preview", "clean") \/ MaintMoves("clean", "files")
    /\ UNCHANGED <<policy, guard, unit, due, deaths>>

\* Old files go, then self_update.py takes its turn.
MaintFiles ==
    /\ MaintMoves("files", "update")
    /\ UNCHANGED <<policy, guard, unit, due, deaths>>

MaintDecides ==
    /\ \/ MaintMoves("update", "agent")
       \/ Effective \in Automatic /\ MaintMoves("update", "allowed")
    /\ UNCHANGED <<policy, guard, unit, due, deaths>>

MaintVerifies ==
    /\ MaintMoves("allowed", "agent") \/ MaintMoves("allowed", "deploying")
    /\ UNCHANGED <<policy, guard, unit, due, deaths>>

\* deploy.sh restarts the bot, and whether it kept the release decides later.
MaintDeploys ==
    /\ MaintMoves("deploying", "agent") \/ MaintMoves("deploying", "updated")
    /\ BotEnds
    /\ UNCHANGED <<mode, legacy, osUpdate, unit, due, deaths>>

\* The agent's daily task; a new release or a successful task restarts the bot,
\* whatever it is doing.
MaintAgent ==
    /\ \/ MaintMoves("agent", "activate") \/ MaintMoves("agent", "idle")
       \/ MaintMoves("updated", "activate")
    /\ UNCHANGED <<policy, guard, unit, due, deaths>>

MaintActivates ==
    /\ MaintMoves("activate", "idle")
    /\ BotEnds
    /\ UNCHANGED <<mode, legacy, osUpdate, unit, due, deaths>>

Next ==
    \/ \E m \in Modes : SetMode(m)
    \/ WriteOs \/ WriteLegacy \/ WriteMode \/ OptIn \/ ToggleOs
    \/ \E kind \in Kinds : Begin(kind)
    \/ Proceed \/ Launch \/ StopWaiting
    \/ ScheduleRestart \/ ScheduleReboot
    \/ RestartBridge \/ RebootHost \/ BotDies
    \/ UnitDecides \/ UnitVerifies \/ UnitDeploys
    \/ MaintBegins \/ MaintPackages \/ MaintApt \/ MaintFiles \/ MaintDecides \/ MaintVerifies
    \/ MaintDeploys \/ MaintAgent \/ MaintActivates

Spec == Init /\ [][Next]_vars
-----------------------------------------------------------------------------
(* Properties.                                                             *)

\* The variables hold what they can hold.
TypeOK ==
    /\ mode \in Modes \cup {None} /\ {legacy, osUpdate} \subseteq BOOLEAN
    /\ setting \in [to : Modes \cup {None}, at : {None, "os", "legacy", "mode", "optin"}]
    /\ Busy => guard.kind \in Kinds /\ guard.at \in DOMAIN Commands(guard.kind)
    /\ unit \in {"off", "begun", "allowed", "deploying"} /\ due \subseteq {"bridge", "reboot"}
    /\ maint \in {"idle", "consent", "index", "upgrade", "preview", "clean", "files", "update",
                "allowed", "deploying", "agent", "updated", "activate"}
    /\ deaths \in 0..MaxDeaths

\* Wherever a change of the policy was cut short: under emergency-stop package
\* updates have no consent, and the older switch is on only if the chosen mode
\* updates by itself, so that an older release obeys the owner as well.
PolicyCoherent ==
    mode # None => (Stopped => ~osUpdate) /\ (legacy => mode \in Automatic)

Packages   == {"index", "upgrade", "preview", "clean"}
Deployment == {"allowed", "deploying"}

\* While the owner's emergency stop is in force no change of the host is let through
\* that was not let through before: no maintenance begins, the one that is running
\* begins neither its package updates nor a deployment, nor does the updater's unit,
\* and the panel begins no update.  What was let through before goes on to its end,
\* the upgrade after an index that was being refreshed, the rest of a panel's update,
\* the deployment of a release that was being verified and the agent's daily task
\* among it: docs/emergency-update-stop-ar.md:3 says the stop stops these as well,
\* and the code looks at the policy once, when each begins.
LetsNothingThrough ==
    /\ maint' # "idle" => maint # "idle"
    /\ maint' \in Packages => maint \in Packages
    /\ maint' \in Deployment => maint \in Deployment
    /\ unit' \in Deployment => unit \in Deployment
    /\ guard'.kind \in Updates => guard'.kind = guard.kind

\* The owner's policy in both: every step leaves what is stored of it coherent, and
\* lets nothing through that the owner stopped.
PolicyKept == [][PolicyCoherent' /\ (Stopped => LetsNothingThrough)]_vars
=============================================================================
