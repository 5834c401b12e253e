------------------------- MODULE HostServicesProofs -------------------------
(***************************************************************************)
(* For every number of tools, skills, keys, releases, snapshots and        *)
(* requests: what looks after the host does as the owner said and loses    *)
(* nothing it owes.  One theorem for each part of HostServices, each from  *)
(* an inductive invariant of that part alone.                              *)
(***************************************************************************)
EXTENDS HostServices, FiniteSetTheorems, SequenceTheorems, TLAPS

\* A behaviour explores one part: every step is a step of it or leaves it alone.
LEMMA OneAtATime ==
  ASSUME [Next]_vars
  PROVE  /\ [Control!Next]_control
         /\ [Reboot!Next]_reboot
         /\ [Dog!Next]_watchdog
         /\ [Packages!Next]_packages
         /\ [Learned!Next]_skills
         /\ [Inventory!Next]_inventory
         /\ [Choice!Next]_choice
         /\ [Capacity!Next]_capacity
         /\ [Artifact!Next]_artifact
         /\ [Snapshots!Next]_snapshots
  BY DEF Next, vars, OnlyControl, OnlyReboot, OnlyWatchdog, OnlyPackages, OnlySkills,
         OnlyInventory, OnlyChoice, OnlyCapacity, OnlyArtifact, OnlySnapshots

\* Every part starts in an initial state of its own.
LEMMA PartsStart ==
  ASSUME Init
  PROVE  /\ Control!Init /\ Reboot!Init /\ Dog!Init /\ Packages!Init /\ Learned!Init
         /\ Inventory!Init /\ Choice!Init /\ Capacity!Init
         /\ Artifact!Init /\ Snapshots!Init
  BY DEF Init
-----------------------------------------------------------------------------
(* HostControl.                                                            *)

Settings == [to : Modes \cup {Control!None}, at : {Control!None, "os", "legacy", "mode", "optin"}]

ControlType ==
    /\ mode \in Modes \cup {Control!None} /\ legacy \in BOOLEAN /\ osUpdate \in BOOLEAN
    /\ setting \in Settings /\ (setting.at = Control!None => setting = Control!NotSetting)
    /\ setting.at # Control!None => setting.to \in Modes
    /\ guard \in [kind : Control!Kinds \cup {Control!None}, at : Nat]

\* What the bot has written of a change that is under way.
HalfWritten ==
    /\ setting.at = "mode" => legacy = FALSE
    /\ setting.to = "emergency-stop" /\ setting.at \in {"legacy", "mode"} => osUpdate = FALSE
    /\ setting.at = "optin" => mode = setting.to /\ mode \in Control!Automatic

Coherent ==
    /\ mode = "emergency-stop" => osUpdate = FALSE
    /\ mode # Control!None /\ legacy = TRUE => mode \in Control!Automatic

ControlInv == ControlType /\ HalfWritten /\ Coherent

\* The stored policy read by the mode is the coherence HostControl states.
LEMMA CoherentIs == ControlType => (Coherent <=> Control!PolicyCoherent)
  BY DEF ControlType, Coherent, Control!PolicyCoherent, Control!Stopped, Control!Effective,
         Control!None, Control!Automatic

\* Only the stored mode says that the owner has stopped the updates.
LEMMA StoppedIs == Control!Stopped <=> mode = "emergency-stop"
  BY DEF Control!Stopped, Control!Effective, Control!None

\* What a step may do under the policy it begins with.
ObeysPolicy == Control!Stopped => Control!LetsNothingThrough

\* The free guard is a guard.
LEMMA FreeIsGuard == Control!Free \in [kind : Control!Kinds \cup {Control!None}, at : Nat]
  BY DEF Control!Free

\* A fresh installation has no policy to contradict.
LEMMA ControlInit == ASSUME Control!Init PROVE ControlInv
  <1>1. setting \in Settings /\ setting.at = Control!None /\ setting.to = Control!None
    BY DEF Control!Init, Settings, Control!NotSetting
  <1>2. ControlType
    BY <1>1, FreeIsGuard DEF Control!Init, ControlType
  <1>3. HalfWritten
    BY <1>1 DEF HalfWritten, Control!None
  <1>4. Coherent
    BY DEF Control!Init, Coherent, Control!None
  <1> QED BY <1>2, <1>3, <1>4 DEF ControlInv

\* The writes of a changed policy keep it coherent and let nothing through.
LEMMA StepOfPolicy ==
  ASSUME ControlInv,
         \/ \E m \in Modes : Control!SetMode(m)
         \/ Control!WriteOs \/ Control!WriteLegacy \/ Control!WriteMode \/ Control!OptIn
         \/ Control!ToggleOs
  PROVE  ControlInv' /\ ObeysPolicy
  <1>0. UNCHANGED <<guard, unit, maint>>
    BY DEF Control!SetMode, Control!WriteOs, Control!WriteLegacy, Control!WriteMode,
           Control!OptIn, Control!ToggleOs
  <1>a. ObeysPolicy
    BY <1>0 DEF ObeysPolicy, Control!LetsNothingThrough
  <1>1. ASSUME setting' \in Settings, setting'.at # Control!None, setting'.to \in Modes,
               mode' \in Modes \cup {Control!None}, legacy' \in BOOLEAN, osUpdate' \in BOOLEAN
        PROVE  ControlType'
    BY <1>0, <1>1 DEF ControlInv, ControlType
  <1>2. ASSUME setting' = Control!NotSetting,
               mode' \in Modes \cup {Control!None}, legacy' \in BOOLEAN, osUpdate' \in BOOLEAN
        PROVE  ControlType' /\ HalfWritten'
    BY <1>0, <1>2
       DEF ControlInv, ControlType, Settings, HalfWritten, Control!NotSetting, Control!None
  <1>3. ASSUME NEW m \in Modes, Control!SetMode(m) PROVE ControlInv'
    <2>1. setting' \in Settings /\ setting'.to = m
          /\ setting'.at = (IF m = "emergency-stop" THEN "os" ELSE "legacy")
      BY <1>3 DEF Control!SetMode, Settings
    <2>2. UNCHANGED <<mode, legacy, osUpdate>>
      BY <1>3 DEF Control!SetMode
    <2>3. ControlType'
      BY <1>1, <2>1, <2>2 DEF ControlInv, ControlType, Control!None
    <2>4. HalfWritten' /\ Coherent'
      BY <2>1, <2>2 DEF ControlInv, HalfWritten, Coherent
    <2> QED BY <2>3, <2>4 DEF ControlInv
  <1>4. CASE Control!WriteOs
    <2>1. setting' \in Settings /\ setting'.to = setting.to /\ setting'.at = "legacy"
          /\ setting.to \in Modes
      BY <1>4 DEF Control!WriteOs, ControlInv, ControlType, Settings, Control!None
    <2>2. osUpdate' = FALSE /\ UNCHANGED <<mode, legacy>>
      BY <1>4 DEF Control!WriteOs
    <2>3. ControlType'
      BY <1>1, <2>1, <2>2 DEF ControlInv, ControlType, Control!None
    <2>4. HalfWritten' /\ Coherent'
      BY <2>1, <2>2 DEF ControlInv, HalfWritten, Coherent
    <2> QED BY <1>a, <2>3, <2>4 DEF ControlInv
  <1>5. CASE Control!WriteLegacy
    <2>1. setting' \in Settings /\ setting'.to = setting.to /\ setting'.at = "mode"
          /\ setting.at = "legacy" /\ setting.to \in Modes
      BY <1>5 DEF Control!WriteLegacy, ControlInv, ControlType, Settings, Control!None
    <2>2. legacy' = FALSE /\ UNCHANGED <<mode, osUpdate>>
      BY <1>5 DEF Control!WriteLegacy
    <2>3. ControlType'
      BY <1>1, <2>1, <2>2 DEF ControlInv, ControlType, Control!None
    <2>4. HalfWritten' /\ Coherent'
      BY <2>1, <2>2 DEF ControlInv, HalfWritten, Coherent
    <2> QED BY <1>a, <2>3, <2>4 DEF ControlInv
  <1>6. CASE Control!WriteMode
    <2>1. setting.at = "mode" /\ setting.to \in Modes /\ setting.to # Control!None
      BY <1>6, HostAssumption DEF Control!WriteMode, ControlInv, ControlType, Control!None
    <2>2. mode' = setting.to /\ UNCHANGED <<legacy, osUpdate>>
      BY <1>6 DEF Control!WriteMode
    <2>3. Coherent'
      BY <2>1, <2>2 DEF ControlInv, ControlType, HalfWritten, Coherent
    <2>4. CASE setting.to \in Control!Automatic
      <3>1. setting' \in Settings /\ setting'.to = setting.to /\ setting'.at = "optin"
        BY <1>6, <2>4 DEF Control!WriteMode, ControlInv, ControlType, Settings
      <3>2. ControlType'
        BY <1>1, <2>1, <2>2, <3>1 DEF ControlInv, ControlType, Control!None
      <3>3. HalfWritten'
        BY <2>2, <2>4, <3>1 DEF HalfWritten
      <3> QED BY <1>a, <2>3, <3>2, <3>3 DEF ControlInv
    <2>5. CASE setting.to \notin Control!Automatic
      <3>1. setting' = Control!NotSetting
        BY <1>6, <2>5 DEF Control!WriteMode
      <3> QED BY <1>a, <1>2, <2>1, <2>2, <2>3, <3>1 DEF ControlInv, ControlType
    <2> QED BY <2>4, <2>5
  <1>7. CASE Control!OptIn
    <2>1. setting.at = "optin" /\ setting' = Control!NotSetting /\ legacy' = TRUE
          /\ UNCHANGED <<mode, osUpdate>>
      BY <1>7 DEF Control!OptIn
    <2>2. Coherent'
      BY <2>1 DEF ControlInv, HalfWritten, Coherent
    <2> QED BY <1>a, <1>2, <2>1, <2>2 DEF ControlInv, ControlType
  <1>8. CASE Control!ToggleOs
    <2>1. /\ setting = Control!NotSetting /\ UNCHANGED <<mode, legacy, setting>>
          /\ osUpdate' \in BOOLEAN
          /\ osUpdate' = FALSE \/ ~Control!Stopped
      BY <1>8 DEF Control!ToggleOs, Control!BotFree, ControlInv, ControlType
    <2>2. Coherent'
      BY <2>1, StoppedIs DEF ControlInv, Coherent
    <2> QED BY <1>a, <1>2, <2>1, <2>2 DEF ControlInv, ControlType
  <1> QED BY <1>a, <1>3, <1>4, <1>5, <1>6, <1>7, <1>8

\* The bot begins no update under a stop.
LEMMA StepOfBot ==
  ASSUME ControlInv,
         \/ \E k \in Control!Kinds : Control!Begin(k)
         \/ Control!Proceed \/ Control!Launch \/ Control!StopWaiting
         \/ Control!ScheduleRestart \/ Control!ScheduleReboot
         \/ Control!RestartBridge \/ Control!RebootHost \/ Control!BotDies
  PROVE  ControlInv' /\ ObeysPolicy
  <1>0. UNCHANGED <<mode, legacy, osUpdate>> /\ (setting' = setting \/ setting' = Control!NotSetting)
    BY DEF Control!Begin, Control!Proceed, Control!Launch, Control!StopWaiting,
           Control!ScheduleRestart, Control!ScheduleReboot, Control!RestartBridge,
           Control!RebootHost, Control!BotDies, Control!BotEnds, Control!policy
  <1>1. (maint' = maint \/ maint' = "idle") /\ (unit' \in {unit, "off", "begun"})
    BY DEF Control!Begin, Control!Proceed, Control!Launch, Control!StopWaiting,
           Control!ScheduleRestart, Control!ScheduleReboot, Control!RestartBridge,
           Control!RebootHost, Control!BotDies, Control!BotEnds, Control!policy
  <1>2. /\ guard' \in [kind : Control!Kinds \cup {Control!None}, at : Nat]
        /\ Control!Stopped /\ guard'.kind \in Control!Updates => guard'.kind = guard.kind
    <2>1. CASE guard' = guard \/ guard' = Control!Free
      BY <2>1, FreeIsGuard DEF ControlInv, ControlType, Control!Free, Control!None, Control!Updates
    <2>2. ASSUME NEW n \in Nat, guard' = [guard EXCEPT !.at = n]
          PROVE  guard' \in [kind : Control!Kinds \cup {Control!None}, at : Nat]
                 /\ guard'.kind = guard.kind
      BY <2>2 DEF ControlInv, ControlType
    <2>3. CASE Control!Proceed
      <3>1. guard.at + 1 \in Nat
        BY DEF ControlInv, ControlType
      <3>2. guard' = [guard EXCEPT !.at = guard.at + 1] \/ guard' = Control!Free
        BY <2>3 DEF Control!Proceed
      <3> QED BY <2>1, <2>2, <3>1, <3>2
    <2>4. CASE Control!Launch
      BY <2>1, <2>2, <2>4 DEF Control!Launch
    <2>5. ASSUME NEW k \in Control!Kinds, Control!Begin(k)
          PROVE  /\ guard' \in [kind : Control!Kinds \cup {Control!None}, at : Nat]
                 /\ Control!Stopped => guard'.kind \notin Control!Updates
      BY <2>5 DEF Control!Begin
    <2> QED
      BY <2>1, <2>3, <2>4, <2>5
         DEF Control!StopWaiting, Control!ScheduleRestart, Control!ScheduleReboot,
             Control!RestartBridge, Control!RebootHost, Control!BotDies, Control!BotEnds
  <1>3. ObeysPolicy
    BY <1>1, <1>2 DEF ObeysPolicy, Control!LetsNothingThrough, Control!Packages, Control!Deployment
  <1>4. ControlInv'
    BY <1>0, <1>2
       DEF ControlInv, ControlType, Settings, HalfWritten, Coherent, Control!None, Control!NotSetting
  <1> QED BY <1>3, <1>4

\* The update unit and the daily maintenance let nothing through under a stop.
LEMMA StepOfUpdater ==
  ASSUME ControlInv,
         \/ Control!UnitDecides \/ Control!UnitVerifies \/ Control!UnitDeploys
         \/ Control!MaintBegins \/ Control!MaintPackages \/ Control!MaintApt
         \/ Control!MaintFiles
         \/ Control!MaintDecides \/ Control!MaintVerifies \/ Control!MaintDeploys
         \/ Control!MaintAgent \/ Control!MaintActivates
  PROVE  ControlInv' /\ ObeysPolicy
  <1>0. /\ UNCHANGED <<mode, legacy, osUpdate>>
        /\ setting' = setting \/ setting' = Control!NotSetting
        /\ guard' = guard \/ guard' = Control!Free
    BY DEF Control!UnitDecides, Control!UnitVerifies, Control!UnitDeploys, Control!MaintBegins,
           Control!MaintPackages, Control!MaintApt, Control!MaintFiles, Control!MaintDecides,
           Control!MaintVerifies, Control!MaintDeploys, Control!MaintAgent,
           Control!MaintActivates, Control!BotEnds, Control!policy
  <1>1. Control!Stopped => (unit' \in Control!Deployment => unit \in Control!Deployment)
    BY DEF Control!UnitDecides, Control!UnitVerifies, Control!UnitDeploys, Control!MaintBegins,
           Control!MaintPackages, Control!MaintApt, Control!MaintFiles, Control!MaintDecides,
           Control!MaintVerifies, Control!MaintDeploys, Control!MaintAgent,
           Control!MaintActivates, Control!Deployment
  <1>2. Control!Stopped => ~osUpdate /\ Control!Effective \notin Control!Automatic
    BY StoppedIs
       DEF ControlInv, Coherent, Control!Effective, Control!Automatic, Control!None
  <1>3. Control!Stopped => /\ maint' # "idle" => maint # "idle"
                           /\ maint' \in Control!Packages => maint \in Control!Packages
                           /\ maint' \in Control!Deployment => maint \in Control!Deployment
    BY <1>2, StoppedIs
       DEF Control!UnitDecides, Control!UnitVerifies, Control!UnitDeploys, Control!MaintBegins,
           Control!MaintPackages, Control!MaintApt, Control!MaintFiles, Control!MaintDecides,
           Control!MaintVerifies, Control!MaintDeploys, Control!MaintAgent,
           Control!MaintActivates, Control!MaintMoves, Control!Packages, Control!Deployment
  <1>4. ObeysPolicy
    BY <1>0, <1>1, <1>3
       DEF ObeysPolicy, Control!LetsNothingThrough, Control!Free, Control!Updates, Control!None
  <1>5. ControlInv'
    BY <1>0, FreeIsGuard
       DEF ControlInv, ControlType, Settings, HalfWritten, Coherent, Control!None, Control!NotSetting
  <1> QED BY <1>4, <1>5

\* Every step of HostControl keeps the invariant and obeys the policy.
LEMMA ControlStep ==
  ASSUME ControlInv, [Control!Next]_control
  PROVE  ControlInv' /\ (Control!Next => ObeysPolicy)
  <1>1. CASE UNCHANGED control /\ ~Control!Next
    BY <1>1 DEF control, ControlInv, ControlType, Settings, HalfWritten, Coherent
  <1> QED BY <1>1, StepOfPolicy, StepOfBot, StepOfUpdater DEF Control!Next

\* The owner's stop lets no change of the host through that was not let through before,
\* and what is stored of the policy never says otherwise.
THEOREM PolicyIsKept == Spec => PolicyKept
  <1>1. Init => ControlInv BY PartsStart, ControlInit
  <1>2. ControlInv /\ [Next]_vars => ControlInv' BY OneAtATime, ControlStep
  <1>3. ControlInv /\ [Next]_vars =>
           [Control!PolicyCoherent' /\ (Control!Stopped => Control!LetsNothingThrough)]_(Control!vars)
    <2> SUFFICES ASSUME ControlInv, [Next]_vars, Control!vars' # Control!vars
                 PROVE  Control!PolicyCoherent' /\ ObeysPolicy
      BY DEF ObeysPolicy
    <2>1. [Control!Next]_control BY OneAtATime
    <2>2. Control!Next
      BY <2>1 DEF control, Control!vars, Control!policy
    <2>3. (ControlType => (Coherent <=> Control!PolicyCoherent))'
      BY CoherentIs, PTL
    <2>4. ControlInv' /\ ObeysPolicy
      BY <2>1, <2>2, ControlStep
    <2> QED BY <2>3, <2>4 DEF ControlInv
  <1> QED BY <1>1, <1>2, <1>3, PTL DEF Spec, PolicyKept, Control!PolicyKept
-----------------------------------------------------------------------------
(* RebootGuard.                                                            *)

Buttons  == {"cancel", "reboot_now"}
Statuses == {"none", "awaiting", "cancelled", "deferred", "rebooting"}

\* What the script may read is what was said last, of this request unless it crossed.
RebootInv ==
    /\ request \in [id : Nat, status : Statuses]
    /\ pressing = Reboot!NoDecision \/ pressing.action \in Buttons
    /\ decision.action \in {"none", "cancel", "reboot_now"}
    /\ unheard \in BOOLEAN /\ crossed \in BOOLEAN /\ late \in BOOLEAN
    /\ script \in {"announce", "waiting", "last"} => said = decision /\ unheard = FALSE
    /\ script = "asked" => unheard = FALSE /\ said = Reboot!NoDecision
    /\ script # "off" =>
          /\ pressing.action \in Buttons /\ crossed = FALSE => pressing.id = request.id
          /\ said.action \in Buttons /\ crossed = FALSE => said.id = request.id
    /\ script = "last" => late = TRUE \/ said.action \in Buttons
    /\ Reboot!RebootAsSaid

\* No decision is recorded before the guard asks.
LEMMA RebootInit == Reboot!Init => RebootInv
  <1> SUFFICES ASSUME Reboot!Init PROVE RebootInv
    OBVIOUS
  <1>1. /\ request = Reboot!NoRequest /\ decision = Reboot!NoDecision /\ pressing = Reboot!NoDecision
        /\ said = Reboot!NoDecision /\ script = "off"
    BY DEF Reboot!Init
  <1>2. unheard \in BOOLEAN /\ crossed \in BOOLEAN /\ late \in BOOLEAN
    BY Zenon DEF Reboot!Init
  <1> QED BY <1>1, <1>2 DEF RebootInv, Statuses, Reboot!NoRequest, Reboot!NoDecision, Reboot!None,
                           Reboot!RebootAsSaid

\* Every step of RebootGuard keeps what was said and the decision together.
LEMMA RebootStep == ASSUME RebootInv, [Reboot!Next]_reboot PROVE RebootInv'
  <1> USE DEF RebootInv, Buttons, Statuses, Reboot!NoDecision, Reboot!None, Reboot!RebootAsSaid,
              Reboot!heard
  <1>1. CASE Reboot!Ask
    <2>1. /\ request' = [id |-> request.id + 1, status |-> "awaiting"] /\ script' = "asked"
          /\ said' = Reboot!NoDecision /\ UNCHANGED <<decision, pressing>>
      BY <1>1 DEF Reboot!Ask
    <2>2. /\ late' \in BOOLEAN /\ crossed' \in BOOLEAN /\ unheard' \in BOOLEAN /\ unheard' = FALSE
          /\ crossed' = FALSE => pressing = Reboot!NoDecision
      BY <1>1, Zenon DEF Reboot!Ask
    <2> QED BY <2>1, <2>2
  <1>2. CASE Reboot!Forget
    <2>1. /\ script = "asked" /\ script' = "announce" /\ decision' = Reboot!NoDecision
          /\ UNCHANGED <<request, pressing, said>>
      BY <1>2 DEF Reboot!Forget
    <2>2. UNCHANGED <<late, unheard, crossed>>
      BY <1>2, Zenon DEF Reboot!Forget, Reboot!heard
    <2> QED BY <2>1, <2>2
  <1>3. CASE Reboot!Announce BY <1>3 DEF Reboot!Announce, Reboot!Ends
  <1>4. CASE Reboot!Deadline BY <1>4 DEF Reboot!Deadline
  <1>5. CASE Reboot!Look BY <1>5 DEF Reboot!Look, Reboot!Ends
  <1>6. CASE Reboot!LastLook BY <1>6 DEF Reboot!LastLook, Reboot!Ends
  <1>7. CASE Reboot!Check BY <1>7 DEF Reboot!Check, Reboot!Ends
  <1>8. CASE Reboot!Reboot \/ Reboot!Killed BY <1>8 DEF Reboot!Reboot, Reboot!Killed
  <1>9. ASSUME NEW action \in Buttons, Reboot!Press(action) PROVE RebootInv'
    BY <1>9 DEF Reboot!Press
  <1>10. CASE Reboot!Record
    <2>1. /\ decision' = pressing /\ pressing' = Reboot!NoDecision
          /\ said' = IF script = "asked" THEN said ELSE pressing
          /\ UNCHANGED <<request, script>> /\ pressing.action \in Buttons
      BY <1>10 DEF Reboot!Record
    <2>2. /\ UNCHANGED <<late, crossed>> /\ unheard' \in BOOLEAN
          /\ script \in {"check", "go"} => unheard' = TRUE
          /\ script \notin {"check", "go"} => unheard' = FALSE
      <3>1. unheard' = (script \in {"check", "go"})
        BY <1>10, Zenon DEF Reboot!Record
      <3>2. UNCHANGED <<late, crossed>>
        BY <1>10, Zenon DEF Reboot!Record
      <3>3. unheard' \in BOOLEAN
        BY <3>1
      <3>4. CASE script \in {"check", "go"}
        BY <3>1, <3>2, <3>3, <3>4
      <3>5. CASE script \notin {"check", "go"}
        BY <3>1, <3>2, <3>3, <3>5
      <3> QED BY <3>4, <3>5, Zenon
    <2> QED BY <2>1, <2>2
  <1>11. CASE Reboot!PackagesChange \/ Reboot!TaskStartsOrEnds
    BY <1>11 DEF Reboot!PackagesChange, Reboot!TaskStartsOrEnds
  <1>12. CASE UNCHANGED reboot BY <1>12 DEF reboot
  <1> QED BY <1>1, <1>2, <1>3, <1>4, <1>5, <1>6, <1>7, <1>8, <1>9, <1>10, <1>11, <1>12
          DEF Reboot!Next

\* The host never reboots against what the owner last said in time.
THEOREM RebootedAsSaid == Spec => []RebootAsSaid
  <1>1. Init => RebootInv BY PartsStart, RebootInit
  <1>2. RebootInv /\ [Next]_vars => RebootInv' BY OneAtATime, RebootStep
  <1>3. RebootInv => RebootAsSaid BY DEF RebootInv, RebootAsSaid
  <1> QED BY <1>1, <1>2, <1>3, PTL DEF Spec
-----------------------------------------------------------------------------
(* Watchdog.                                                               *)

Spaced(ages) == \A a, b \in ages : a < b => b - a >= Cooldown

\* The file holds every restart of the hour, within the budget; a cycle works on
\* what the file holds, and its own restart is in it before it is made.
WatchdogInv ==
    /\ stored \subseteq Dog!Ages /\ Spaced(stored) /\ Cardinality(stored) <= MaxRestarts
    /\ at # "idle" => history = stored
    /\ history \subseteq Dog!Ages
    /\ tried \in [Dog!Ages -> {0, 1}]
    /\ \A a \in Dog!Ages : tried[a] = 1 => a \in stored
    /\ at = "restart" => 0 \in stored /\ tried[0] = 0

\* The instance counts like the module.
LEMMA DogsCardinality == ASSUME NEW S PROVE Dog!Cardinality(S) = Cardinality(S)
  BY DEF Dog!Cardinality, Cardinality

\* The ages of an hour are finitely many.
LEMMA WatchdogFacts ==
  /\ Hour \in Nat \ {0} /\ Cooldown \in Nat \ {0} /\ MaxRestarts \in Nat \ {0}
  /\ \A S \in SUBSET Dog!Ages : IsFiniteSet(S) /\ Cardinality(S) \in Nat
  <1>1. /\ Hour \in Nat \ {0} /\ Cooldown \in Nat \ {0} /\ MaxRestarts \in Nat \ {0}
    BY HostAssumption
  <1>2. IsFiniteSet(Dog!Ages)
    BY <1>1, FS_Interval DEF Dog!Ages
  <1> QED
    BY <1>1, <1>2, FS_Subset, FS_CardinalityType

\* The watchdog starts with nothing on file.
LEMMA WatchdogInit == Dog!Init => WatchdogInv
  BY FS_EmptySet, WatchdogFacts DEF Dog!Init, WatchdogInv, Spaced, Dog!Ages

\* An hour drops what is older than itself; nothing else changes in number.
LEMMA OlderKeeps ==
  ASSUME NEW S \in SUBSET Dog!Ages, Spaced(S)
  PROVE  /\ Dog!Older(S) \subseteq Dog!Ages /\ Spaced(Dog!Older(S))
         /\ Cardinality(Dog!Older(S)) <= Cardinality(S)
  <1>1. S \subseteq Int /\ Cooldown \in Nat
    BY WatchdogFacts DEF Dog!Ages
  <1>2. Dog!Older(S) \subseteq Dog!Ages /\ Spaced(Dog!Older(S))
    BY <1>1 DEF Spaced, Dog!Older
  <1>3. PICK f : f = [a \in S |-> a + 1]
    OBVIOUS
  <1> DEFINE Image == {f[a] : a \in S}
  <1>4. IsFiniteSet(Image) /\ Cardinality(Image) <= Cardinality(S) /\ Cardinality(Image) \in Nat
    <2>1. IsFiniteSet(S) /\ f \in Surjection(S, Image)
      BY <1>3, WatchdogFacts DEF Surjection
    <2> QED BY <2>1, FS_Surjection, FS_CardinalityType
  <1>5. Dog!Older(S) \subseteq Image
    BY <1>3 DEF Dog!Older
  <1>6. Cardinality(Dog!Older(S)) <= Cardinality(Image)
    BY <1>4, <1>5, FS_Subset
  <1>7. Cardinality(S) \in Nat /\ Cardinality(Dog!Older(S)) \in Nat
    BY <1>2, WatchdogFacts
  <1> QED BY <1>2, <1>4, <1>6, <1>7

\* A cycle keeps the file spaced and within the budget.
LEMMA WatchdogStep == ASSUME WatchdogInv, [Dog!Next]_watchdog PROVE WatchdogInv'
  <1> USE DEF WatchdogInv
  <1>1. CASE Dog!Load BY <1>1 DEF Dog!Load
  <1>2. CASE Dog!Collect BY <1>2 DEF Dog!Collect
  <1>3. CASE Dog!Record
    <2>1. /\ history = stored /\ stored' = stored \cup {0} /\ history' = stored' /\ at' = "restart"
          /\ tried' = tried /\ Cardinality(stored) < MaxRestarts
          /\ \A a \in stored : a >= Cooldown
      BY <1>3, DogsCardinality DEF Dog!Record, Dog!Recoverable, Dog!Allowed
    <2>2. 0 \notin stored /\ 0 \in Dog!Ages /\ stored \subseteq Int
      BY <2>1, WatchdogFacts DEF Dog!Ages
    <2>3. stored' \subseteq Dog!Ages /\ Spaced(stored')
      BY <2>1, <2>2, WatchdogFacts DEF Spaced
    <2>4. Cardinality(stored') <= MaxRestarts
      BY <2>1, <2>2, WatchdogFacts, FS_AddElement
    <2>5. tried'[0] = 0
      BY <2>1, <2>2
    <2> QED BY <2>1, <2>3, <2>4, <2>5
  <1>4. CASE Dog!Skip BY <1>4 DEF Dog!Skip
  <1>5. CASE Dog!Restart
    <2>1. 0 \in Dog!Ages
      BY WatchdogFacts DEF Dog!Ages
    <2> QED BY <1>5, <2>1 DEF Dog!Restart
  <1>6. CASE Dog!Report BY <1>6 DEF Dog!Report
  <1>7. CASE Dog!Killed BY <1>7 DEF Dog!Killed
  <1>8. CASE Dog!HostChanges BY <1>8 DEF Dog!HostChanges
  <1>9. CASE Dog!Tick
    <2>1. /\ stored' = Dog!Older(stored) /\ history' = Dog!Older(history) /\ at' = at
          /\ tried' = [a \in Dog!Ages |-> IF a = 0 THEN 0 ELSE tried[a - 1]]
          /\ at # "restart"
      BY <1>9 DEF Dog!Tick
    <2>2. stored' \subseteq Dog!Ages /\ Spaced(stored') /\ Cardinality(stored') <= MaxRestarts
      <3>1. Cardinality(stored) \in Nat /\ Cardinality(Dog!Older(stored)) \in Nat
        BY OlderKeeps, WatchdogFacts
      <3> QED BY <2>1, <3>1, OlderKeeps, WatchdogFacts
    <2>3. history' \subseteq Dog!Ages
      BY <2>1 DEF Dog!Older
    <2>4. tried' \in [Dog!Ages -> {0, 1}] /\ \A a \in Dog!Ages : tried'[a] = 1 => a \in stored'
      BY <2>1, WatchdogFacts DEF Dog!Ages, Dog!Older
    <2> QED BY <2>1, <2>2, <2>3, <2>4
  <1>10. CASE UNCHANGED watchdog BY <1>10 DEF watchdog
  <1> QED
    BY <1>1, <1>2, <1>3, <1>4, <1>5, <1>6, <1>7, <1>8, <1>9, <1>10 DEF Dog!Next

\* The restarts really made keep to the budget wherever the watchdog is killed.
THEOREM RestartsAreBounded == Spec => []RestartsBounded
  <1>1. Init => WatchdogInv BY PartsStart, WatchdogInit
  <1>2. WatchdogInv /\ [Next]_vars => WatchdogInv' BY OneAtATime, WatchdogStep
  <1>3. ASSUME WatchdogInv PROVE RestartsBounded
    <2> DEFINE recent == {a \in Dog!Ages : tried[a] > 0}
    <2>1. recent \subseteq stored /\ \A a \in recent : tried[a] = 1
      BY <1>3 DEF WatchdogInv
    <2>2. Cardinality(recent) <= Cardinality(stored)
      BY <1>3, <2>1, WatchdogFacts, FS_Subset DEF WatchdogInv
    <2>3. Cardinality(stored) \in Nat /\ Cardinality(recent) \in Nat
      BY <1>3, <2>1, WatchdogFacts DEF WatchdogInv
    <2>4. Cardinality(recent) <= MaxRestarts
      BY <1>3, <2>2, <2>3, WatchdogFacts DEF WatchdogInv
    <2>5. Spaced(recent)
      BY <1>3, <2>1 DEF WatchdogInv, Spaced
    <2> HIDE DEF recent
    <2> QED BY <2>1, <2>4, <2>5, DogsCardinality DEF recent, RestartsBounded, Dog!RestartsBounded, Spaced
  <1> QED BY <1>1, <1>2, <1>3, PTL DEF Spec
-----------------------------------------------------------------------------
(* Tools.                                                                  *)

PolicyRec == [disabled : SUBSET Tools, removed : SUBSET Tools]

OpRec == [what : {"none", "install", "update", "remove", "activate"}, key : Tools \cup {"none"},
          at : {"none", "helper", "record", "failed", "check"}, read : PolicyRec,
          todo : SUBSET Tools, failed : SUBSET Tools, touched : SUBSET Tools]

PackagesType ==
    /\ pkg \in [Tools -> {"absent", "present", "broken"}]
    /\ policy \in PolicyRec /\ readable \in BOOLEAN /\ op \in OpRec
    /\ op.at \in {"helper", "record", "failed"} => op.key \in Tools
    /\ op.at = "none" => op = Packages!NoOp
    /\ op.what = "none" => op.at = "none"
    /\ op.at = "check" => op.what = "activate"

\* The operation writes the policy it read with one tool's change: nobody else
\* wrote it since.
PolicyOfRead == op.at \in {"helper", "record"} => op.read = policy

\* A tool that "activate all" is not done with, or says something about.
Pending(k) == k \in op.todo \/ (op.at \in {"helper", "record", "failed"} /\ k = op.key)
Told(k)    == Packages!Usable(k) \/ k \in op.failed \/ k \in op.touched

PackagesInv ==
    /\ PackagesType /\ PolicyOfRead
    /\ op.what = "activate" => \A k \in Tools : Pending(k) \/ Told(k)

\* No operation is one of the operations.
LEMMA NoOpIsOp == Packages!NoOp \in OpRec
  BY DEF Packages!NoOp, OpRec, PolicyRec

\* Whatever the helper does leaves a package in one of its states.
LEMMA HelperLeaves ==
  ASSUME NEW what \in {"install", "update", "remove"},
         NEW was \in {"absent", "present", "broken"},
         NEW end \in Packages!HelperEnds(what, was)
  PROVE  end[1] \in {"absent", "present", "broken"}
  <1>0. \A a, b : <<a, b>>[1] = a
    OBVIOUS
  <1>1. CASE what = "install"
    <2>1. \/ end = <<"present", TRUE>> \/ end = <<"broken", TRUE>>
          \/ end = <<was, FALSE>> \/ end = <<"present", FALSE>>
      BY <1>1 DEF Packages!HelperEnds
    <2> QED BY <1>0, <2>1, Zenon
  <1>2. CASE what = "update"
    <2>1. end = <<"present", TRUE>> \/ end = <<was, FALSE>>
      BY <1>2 DEF Packages!HelperEnds
    <2> QED BY <1>0, <2>1, Zenon
  <1>3. CASE what = "remove"
    <2>1. \/ end = <<"absent", TRUE>> \/ end = <<was, TRUE>>
          \/ end = <<was, FALSE>> \/ end = <<"absent", FALSE>>
      BY <1>3 DEF Packages!HelperEnds
    <2> QED BY <1>0, <2>1, Zenon
  <1> QED BY <1>1, <1>2, <1>3

\* The bot starts with no operation under way.
LEMMA PackagesInit == Packages!Init => PackagesInv
  BY NoOpIsOp
     DEF Packages!Init, Packages!NoOp, PackagesInv, PackagesType, PolicyOfRead, PolicyRec

\* A tap that begins an operation keeps the invariant.
LEMMA PackagesBegin ==
  ASSUME PackagesInv,
         \/ \E k \in Tools : Packages!SetEnabled(k)
         \/ \E k \in Tools, what \in {"install", "update", "remove"} : Packages!Begin(what, k)
         \/ Packages!BeginAll
  PROVE  PackagesInv'
  <1> USE DEF PackagesInv, PackagesType, PolicyOfRead
  <1>1. ASSUME NEW k \in Tools, Packages!SetEnabled(k) PROVE PackagesInv'
    <2>1. /\ op = Packages!NoOp /\ UNCHANGED <<pkg, readable, op>>
          /\ policy' = [policy EXCEPT !.disabled = IF k \in @ THEN @ \ {k} ELSE @ \cup {k}]
      BY <1>1 DEF Packages!SetEnabled
    <2>2. policy' \in PolicyRec BY <2>1 DEF PolicyRec
    <2> QED BY <2>1, <2>2 DEF Packages!NoOp
  <1>2. ASSUME NEW k \in Tools, NEW what \in {"install", "update", "remove"}, Packages!Begin(what, k)
        PROVE  PackagesInv'
    <2>1. /\ op = Packages!NoOp /\ UNCHANGED <<pkg, readable>>
          /\ \/ policy' = Packages!Allow(policy, k) /\ UNCHANGED op
             \/ /\ op' = [Packages!NoOp EXCEPT !.what = what, !.key = k, !.at = "helper", !.read = policy]
                /\ UNCHANGED policy
      BY <1>2 DEF Packages!Begin
    <2>2. policy' \in PolicyRec BY <2>1 DEF Packages!Allow, PolicyRec
    <2>3. CASE UNCHANGED op
      BY <2>1, <2>2, <2>3 DEF Packages!NoOp
    <2>4. CASE /\ op' = [Packages!NoOp EXCEPT !.what = what, !.key = k, !.at = "helper", !.read = policy]
               /\ UNCHANGED policy
      <3>1. op' \in OpRec /\ op'.what = what /\ op'.key = k /\ op'.at = "helper" /\ op'.read = policy
        BY <2>4, NoOpIsOp DEF OpRec
      <3> QED BY <2>1, <2>4, <3>1
    <2> QED BY <2>1, <2>3, <2>4
  <1>3. CASE Packages!BeginAll
    <2>1. /\ op' = [Packages!NoOp EXCEPT !.what = "activate", !.at = "check", !.todo = Tools]
          /\ UNCHANGED <<pkg, policy, readable>>
      BY <1>3 DEF Packages!BeginAll
    <2>2. op' \in OpRec /\ op'.what = "activate" /\ op'.at = "check" /\ op'.todo = Tools
      BY <2>1, NoOpIsOp DEF OpRec
    <2> QED BY <2>1, <2>2 DEF Pending
  <1> QED BY <1>1, <1>2, <1>3

\* So does every step of an operation.
LEMMA PackagesWork ==
  ASSUME PackagesInv,
         \/ Packages!RunHelper \/ Packages!Record \/ Packages!Failed \/ Packages!CheckNext
         \/ Packages!Report
  PROVE  PackagesInv'
  <1> USE DEF PackagesInv, PackagesType, PolicyOfRead
  <1>1. CASE Packages!RunHelper
    <2>1. PICK to \in {"absent", "present", "broken"}, next \in {"record", "failed"} :
             /\ pkg' = [pkg EXCEPT ![op.key] = to] /\ op' = [op EXCEPT !.at = next]
      <3>1. PICK end \in Packages!HelperEnds(IF op.what = "activate" THEN "install" ELSE op.what,
                                             pkg[op.key]) :
               /\ pkg' = [pkg EXCEPT ![op.key] = end[1]]
               /\ op' = [op EXCEPT !.at = IF end[2] THEN "record" ELSE "failed"]
        BY <1>1 DEF Packages!RunHelper
      <3>2. pkg[op.key] \in {"absent", "present", "broken"}
            /\ op.what \in {"install", "update", "remove", "activate"}
        BY <1>1 DEF Packages!RunHelper, OpRec
      <3>3. end[1] \in {"absent", "present", "broken"}
        BY <3>1, <3>2, HelperLeaves
      <3>7. (IF end[2] THEN "record" ELSE "failed") \in {"record", "failed"}
        OBVIOUS
      <3> QED BY <3>1, <3>3, <3>7
    <2>2. op.at = "helper" /\ UNCHANGED <<policy, readable>>
      BY <1>1 DEF Packages!RunHelper
    <2>3. /\ op' \in OpRec /\ op'.at = next /\ op'.what = op.what /\ op'.key = op.key
          /\ op'.read = op.read /\ op'.todo = op.todo /\ op'.failed = op.failed
          /\ op'.touched = op.touched
      BY <2>1 DEF OpRec
    <2>4. PackagesType' /\ PolicyOfRead'
      BY <2>1, <2>2, <2>3
    <2>5. \A k \in Tools : Pending(k) \/ Told(k) => Pending(k)' \/ Told(k)'
      BY <2>1, <2>2, <2>3 DEF Pending, Told, Packages!Usable, Packages!Enabled
    <2> QED BY <2>3, <2>4, <2>5
  <1>2. CASE Packages!Record
    <2>1. op.at = "record" /\ op.key \in Tools /\ op.read = policy /\ UNCHANGED <<pkg, readable>>
      BY <1>2 DEF Packages!Record
    <2>2. CASE op' = Packages!NoOp
      <3>1. policy' \in PolicyRec
        BY <1>2, <2>1 DEF Packages!Record, Packages!Forbid, Packages!Allow, PolicyRec
      <3> QED BY <2>1, <2>2, <3>1, NoOpIsOp DEF Packages!NoOp
    <2>3. CASE op' # Packages!NoOp
      <3>1. readable /\ op.what = "activate"
        BY <1>2, <2>3 DEF Packages!Record
      <3>2. \/ /\ pkg[op.key] = "present" /\ policy' = Packages!Allow(policy, op.key)
               /\ op' = [op EXCEPT !.at = "check"]
            \/ UNCHANGED policy /\ op' = [op EXCEPT !.at = "failed"]
        BY <1>2, <2>1, <3>1 DEF Packages!Record
      <3>3. CASE /\ pkg[op.key] = "present" /\ policy' = Packages!Allow(policy, op.key)
                 /\ op' = [op EXCEPT !.at = "check"]
        <4>1. /\ op' \in OpRec /\ op'.at = "check" /\ op'.what = op.what /\ op'.key = op.key
              /\ op'.todo = op.todo /\ op'.failed = op.failed /\ op'.touched = op.touched
          BY <3>3 DEF OpRec
        <4>2. /\ policy' \in PolicyRec /\ policy'.disabled = policy.disabled \ {op.key}
          BY <3>3 DEF Packages!Allow, PolicyRec
        <4>3. \A k \in Tools : Pending(k) \/ Told(k) => Pending(k)' \/ Told(k)'
          BY <2>1, <3>1, <3>3, <4>1, <4>2 DEF Pending, Told, Packages!Usable, Packages!Enabled
        <4> QED BY <2>1, <3>1, <4>1, <4>2, <4>3
      <3>4. CASE UNCHANGED policy /\ op' = [op EXCEPT !.at = "failed"]
        <4>1. /\ op' \in OpRec /\ op'.at = "failed" /\ op'.what = op.what /\ op'.key = op.key
              /\ op'.todo = op.todo /\ op'.failed = op.failed /\ op'.touched = op.touched
          BY <3>4 DEF OpRec
        <4>2. \A k \in Tools : Pending(k) \/ Told(k) => Pending(k)' \/ Told(k)'
          BY <2>1, <3>4, <4>1 DEF Pending, Told, Packages!Usable, Packages!Enabled
        <4> QED BY <2>1, <3>1, <3>4, <4>1, <4>2
      <3> QED BY <3>2, <3>3, <3>4
    <2> QED BY <2>2, <2>3
  <1>3. CASE Packages!Failed
    <2>1. op.at = "failed" /\ UNCHANGED <<pkg, policy, readable>>
      BY <1>3 DEF Packages!Failed
    <2>2. CASE op.what = "activate"
      <3>1. op' = [op EXCEPT !.at = "check", !.failed = @ \cup {op.key}]
        BY <1>3, <2>2 DEF Packages!Failed
      <3>2. /\ op' \in OpRec /\ op'.at = "check" /\ op'.what = op.what
            /\ op'.todo = op.todo /\ op'.failed = op.failed \cup {op.key}
            /\ op'.touched = op.touched
        BY <2>1, <3>1 DEF OpRec
      <3>3. \A k \in Tools : Pending(k) \/ Told(k) => Pending(k)' \/ Told(k)'
        BY <2>1, <3>2 DEF Pending, Told, Packages!Usable, Packages!Enabled
      <3> QED BY <2>1, <2>2, <3>2, <3>3
    <2>3. CASE op.what # "activate"
      BY <1>3, <2>1, <2>3, NoOpIsOp DEF Packages!Failed, Packages!NoOp
    <2> QED BY <2>2, <2>3
  <1>4. CASE Packages!CheckNext
    <2>1. op.at = "check" /\ op.what = "activate" /\ UNCHANGED <<pkg, readable>>
      BY <1>4 DEF Packages!CheckNext
    <2>2. CASE ~readable
      BY <1>4, <2>1, <2>2, NoOpIsOp DEF Packages!CheckNext, Packages!NoOp
    <2>3. CASE readable
      <3>1. PICK k \in op.todo :
               \/ /\ op' = [op EXCEPT !.key = k, !.at = "helper", !.read = policy, !.todo = @ \ {k}]
                  /\ UNCHANGED policy
               \/ /\ pkg[k] = "present" /\ op' = [op EXCEPT !.todo = @ \ {k}]
                  /\ policy' = [policy EXCEPT !.disabled = @ \ {k}]
        BY <1>4, <2>3 DEF Packages!CheckNext
      <3>2. k \in Tools BY DEF OpRec
      <3>3. CASE /\ op' = [op EXCEPT !.key = k, !.at = "helper", !.read = policy, !.todo = @ \ {k}]
                 /\ UNCHANGED policy
        <4>1. /\ op' \in OpRec /\ op'.at = "helper" /\ op'.what = op.what /\ op'.key = k
              /\ op'.read = policy /\ op'.todo = op.todo \ {k} /\ op'.failed = op.failed
              /\ op'.touched = op.touched
          BY <3>2, <3>3 DEF OpRec
        <4>2. \A n \in Tools : Pending(n) \/ Told(n) => Pending(n)' \/ Told(n)'
          BY <2>1, <3>3, <4>1 DEF Pending, Told, Packages!Usable, Packages!Enabled
        <4> QED BY <2>1, <3>2, <3>3, <4>1, <4>2
      <3>4. CASE /\ pkg[k] = "present" /\ op' = [op EXCEPT !.todo = @ \ {k}]
                 /\ policy' = [policy EXCEPT !.disabled = @ \ {k}]
        <4>1. /\ op' \in OpRec /\ op'.at = "check" /\ op'.what = op.what
              /\ op'.todo = op.todo \ {k} /\ op'.failed = op.failed /\ op'.touched = op.touched
          BY <2>1, <3>4 DEF OpRec
        <4>2. policy' \in PolicyRec /\ policy'.disabled = policy.disabled \ {k}
          BY <3>4 DEF PolicyRec
        <4>3. \A n \in Tools : Pending(n) \/ Told(n) => Pending(n)' \/ Told(n)'
          BY <2>1, <2>3, <3>4, <4>1, <4>2 DEF Pending, Told, Packages!Usable, Packages!Enabled
        <4> QED BY <2>1, <4>1, <4>2, <4>3
      <3> QED BY <3>1, <3>3, <3>4
    <2> QED BY <2>2, <2>3
  <1>5. CASE Packages!Report
    BY <1>5, NoOpIsOp DEF Packages!Report, Packages!NoOp
  <1> QED BY <1>1, <1>2, <1>3, <1>4, <1>5

\* What a change from outside notes in the operation under way.
LEMMA TouchSays ==
  ASSUME PackagesType, NEW S \in SUBSET Tools, op' = Packages!Touch(S)
  PROVE  /\ op' \in OpRec /\ op'.at = op.at /\ op'.what = op.what /\ op'.key = op.key
         /\ op'.read = op.read /\ op'.todo = op.todo /\ op'.failed = op.failed
         /\ op = Packages!NoOp => op' = op
         /\ op # Packages!NoOp => op'.touched = op.touched \cup S
  BY DEF Packages!Touch, PackagesType, OpRec

\* Changes from outside the bot keep the invariant, noted as they are.
LEMMA PackagesOutside ==
  ASSUME PackagesInv,
         Packages!Provision \/ Packages!ByHand \/ Packages!Spoiled \/ Packages!Restart
  PROVE  PackagesInv'
  <1> USE DEF PackagesInv, PackagesType, PolicyOfRead
  <1>1. ASSUME NEW S \in SUBSET Tools, op' = Packages!Touch(S), UNCHANGED policy,
               pkg' \in [Tools -> {"absent", "present", "broken"}], readable' \in BOOLEAN,
               \A k \in Tools \ S : pkg'[k] = pkg[k] /\ (S # Tools => readable' = readable)
        PROVE  PackagesInv'
    <2>1. PackagesType' /\ PolicyOfRead'
      BY <1>1, TouchSays
    <2>2. ASSUME op.what = "activate"
          PROVE  \A k \in Tools : Pending(k) \/ Told(k) => Pending(k)' \/ Told(k)'
      <3>1. op # Packages!NoOp BY <2>2 DEF Packages!NoOp
      <3> QED BY <1>1, <3>1, TouchSays DEF Pending, Told, Packages!Usable, Packages!Enabled
    <2> QED BY <1>1, <2>1, <2>2, TouchSays
  <1>2. CASE Packages!Provision
    <2> DEFINE missing == {k \in Provisioned \ Packages!RemovedForProvisioning : pkg[k] = "absent"}
    <2>1. /\ missing \in SUBSET Tools /\ op' = Packages!Touch(missing)
          /\ pkg' = [k \in Tools |-> IF k \in missing THEN "present" ELSE pkg[k]]
          /\ UNCHANGED <<policy, readable>>
      BY <1>2, HostAssumption DEF Packages!Provision
    <2> HIDE DEF missing
    <2> QED BY <1>1, <2>1
  <1>3. CASE Packages!ByHand
    <2>1. PICK k \in Tools, to \in {"absent", "present"} :
             pkg' = [pkg EXCEPT ![k] = to] /\ op' = Packages!Touch({k})
      BY <1>3 DEF Packages!ByHand
    <2>2. UNCHANGED <<policy, readable>>
      BY <1>3 DEF Packages!ByHand
    <2> QED BY <1>1, <2>1, <2>2
  <1>4. CASE Packages!Spoiled
    BY <1>1, <1>4 DEF Packages!Spoiled
  <1>5. CASE Packages!Restart
    BY <1>5, NoOpIsOp DEF Packages!Restart, Packages!NoOp
  <1> QED BY <1>2, <1>3, <1>4, <1>5

\* Every step of Tools keeps the invariant.
LEMMA PackagesStep == ASSUME PackagesInv, [Packages!Next]_packages PROVE PackagesInv'
  <1>1. CASE UNCHANGED packages
    BY <1>1 DEF packages, PackagesInv, PackagesType, PolicyOfRead, Pending, Told,
                Packages!Usable, Packages!Enabled
  <1> QED BY <1>1, PackagesBegin, PackagesWork, PackagesOutside DEF Packages!Next, Packages!ToolAction

\* "Activate all" names every tool it leaves unusable.
THEOREM ActivatedIsUsable == Spec => []ActivatedOrReported
  <1>1. Init => PackagesInv BY PartsStart, PackagesInit
  <1>2. PackagesInv /\ [Next]_vars => PackagesInv' BY OneAtATime, PackagesStep
  <1>3. PackagesInv => ActivatedOrReported
    BY DEF PackagesInv, PackagesType, Pending, Told, ActivatedOrReported,
           Packages!ActivatedOrReported
  <1> QED BY <1>1, <1>2, <1>3, PTL DEF Spec
-----------------------------------------------------------------------------
(* Skills.                                                                 *)

SkillsType ==
    /\ {repo, disk, loaded, managed} \subseteq [Names -> Nat]
    /\ flag \in BOOLEAN /\ spoilt \in BOOLEAN
    /\ step \in [Learned!Callers -> {"idle", "clone", "publish", "restart", "restarted"}]
    /\ work \in [managed : [Names -> Nat], flag : BOOLEAN, clone : [Names -> Nat],
                 todo : SUBSET Names]

\* A skill the owner did not write is read by the agent's server as it is on disk.
Synced == \A n \in Names : disk[n] # Learned!HandMade => loaded[n] = disk[n]

\* One sync at a time works on the state it read.
OneSync ==
    /\ \A c, d \in Learned!Callers :
          step[c] \in {"clone", "publish"} /\ step[d] \in {"clone", "publish"} => c = d
    /\ Learned!Locked => work.managed = managed /\ (flag => work.flag)

\* A batch touches only what the ledger has in another version.
BatchOwed ==
    Learned!Publishing =>
        /\ \A n \in work.todo : work.clone # Learned!None /\ work.clone[n] # managed[n]
        /\ ~spoilt /\ ~flag =>
              \A n \in Names : disk[n] # Learned!HandMade /\ loaded[n] # disk[n] =>
                  work.clone # Learned!None /\ work.clone[n] # managed[n]

\* Outside a batch the agent has read what is there, when nobody owes a reload
\* and when the server has just been restarted.
ReadWhenQuiet ==
    ~spoilt /\ ~Learned!Publishing
        /\ (~flag \/ \E c \in Learned!Callers : step[c] = "restarted") => Synced

SkillsInv == SkillsType /\ OneSync /\ BatchOwed /\ ReadWhenQuiet

\* A sync at rest is one of the syncs.
LEMMA NoWorkIsWork ==
  Learned!NoWork \in [managed : [Names -> Nat], flag : BOOLEAN, clone : [Names -> Nat],
                      todo : SUBSET Names]
  BY DEF Learned!NoWork, Learned!None

\* Nothing is owed before the first sync.
LEMMA SkillsInit == ASSUME Learned!Init PROVE SkillsInv
  <1>1. Learned!None \in [Names -> Nat] /\ [n \in Names |-> 1] \in [Names -> Nat]
    BY DEF Learned!None
  <1>2. SkillsType
    BY <1>1, NoWorkIsWork DEF Learned!Init, SkillsType
  <1>3. ~Learned!Locked /\ ~Learned!Publishing
    BY DEF Learned!Init, Learned!Locked, Learned!Publishing
  <1>4. Synced
    BY DEF Learned!Init, Learned!None, Synced
  <1> QED
    BY <1>2, <1>3, <1>4
       DEF Learned!Init, Learned!Locked, SkillsInv, OneSync, BatchOwed, ReadWhenQuiet

\* Another process changes the repository, the directory or the server.
LEMMA OthersKeepSkills ==
  ASSUME SkillsInv,
         \/ \E n \in Names : Learned!OwnerWrites(n)
         \/ Learned!RepositoryChanges \/ Learned!ServerRestarts
  PROVE  SkillsInv'
  <1> USE DEF SkillsInv, SkillsType, OneSync, BatchOwed, ReadWhenQuiet, Synced, Learned!Locked,
              Learned!Publishing
  <1>1. ASSUME NEW n \in Names, Learned!OwnerWrites(n) PROVE SkillsInv'
    BY <1>1 DEF Learned!OwnerWrites, Learned!HandMade
  <1>2. CASE Learned!RepositoryChanges
    BY <1>2 DEF Learned!RepositoryChanges, Learned!Unfit
  <1>3. CASE Learned!ServerRestarts
    BY <1>3 DEF Learned!ServerRestarts
  <1> QED BY <1>1, <1>2, <1>3

\* The steps of a sync keep what it owes the engine.
LEMMA SyncKeepsSkills ==
  ASSUME SkillsInv, NEW c \in Learned!Callers,
         \/ Learned!Begin(c) \/ Learned!CloneFails(c) \/ Learned!Clone(c)
         \/ Learned!Publish(c) \/ Learned!PublishFails(c) \/ Learned!Save(c)
  PROVE  SkillsInv'
  <1> USE DEF SkillsInv, SkillsType, OneSync, Learned!Locked, Learned!Publishing
  <1>1. CASE Learned!Begin(c)
    <2>1. /\ step' = [step EXCEPT ![c] = "clone"] /\ ~Learned!Locked
          /\ work' = [Learned!NoWork EXCEPT !.managed = managed, !.flag = flag]
          /\ UNCHANGED <<repo, disk, loaded, managed, flag, spoilt>>
      BY <1>1 DEF Learned!Begin
    <2>2. work' \in [managed : [Names -> Nat], flag : BOOLEAN, clone : [Names -> Nat],
                     todo : SUBSET Names]
          /\ work'.managed = managed /\ work'.flag = flag
      BY <2>1, NoWorkIsWork
    <2>3. SkillsType' /\ OneSync'
      BY <2>1, <2>2
    <2> QED BY <2>1, <2>3 DEF BatchOwed, ReadWhenQuiet, Synced
  <1>2. CASE Learned!CloneFails(c)
    <2>1. /\ step[c] = "clone" /\ step' = [step EXCEPT ![c] = "idle"]
          /\ managed' = managed /\ (flag => flag') /\ flag' \in BOOLEAN
          /\ work' = Learned!NoWork
          /\ UNCHANGED <<repo, disk, loaded, spoilt>>
      BY <1>2 DEF Learned!CloneFails
    <2>2. SkillsType' BY <2>1, NoWorkIsWork
    <2>3. ~Learned!Locked' /\ ~Learned!Publishing BY <2>1
    <2> QED BY <2>1, <2>2, <2>3 DEF BatchOwed, ReadWhenQuiet, Synced
  <1>3. CASE Learned!Clone(c)
    <2> DEFINE clone == Learned!Collected(repo)
               differing  == IF clone = Learned!None THEN {}
                        ELSE {n \in Names : clone[n] # work.managed[n]}
    <2>1. clone \in [Names -> Nat] /\ differing \in SUBSET Names
      BY DEF Learned!Collected
    <2> HIDE DEF clone, differing
    <2>2. /\ step[c] = "clone" /\ step' = [step EXCEPT ![c] = "publish"]
          /\ work' = [work EXCEPT !.clone = clone, !.todo = differing]
          /\ UNCHANGED <<repo, disk, loaded, managed, flag, spoilt>>
      BY <1>3 DEF Learned!Clone, clone, differing
    <2>3. /\ work' \in [managed : [Names -> Nat], flag : BOOLEAN, clone : [Names -> Nat],
                        todo : SUBSET Names]
          /\ work'.managed = work.managed /\ work'.flag = work.flag
          /\ work'.clone = clone /\ work'.todo = differing
      BY <2>1, <2>2
    <2>4. SkillsType' /\ OneSync' /\ ~Learned!Publishing
      BY <2>2, <2>3
    <2>5. ~spoilt /\ ~flag => Synced
      BY <2>4 DEF ReadWhenQuiet
    <2>6. \A n \in differing : clone # Learned!None /\ clone[n] # managed[n]
      BY <2>2 DEF differing
    <2> QED BY <2>2, <2>3, <2>4, <2>5, <2>6 DEF BatchOwed, ReadWhenQuiet, Synced
  <1>4. CASE Learned!Publish(c)
    <2>1. PICK n \in work.todo : /\ disk' = [disk EXCEPT ![n] = work.clone[n]]
                                 /\ work' = [work EXCEPT !.todo = @ \ {n}]
      BY <1>4 DEF Learned!Publish
    <2>2. step[c] = "publish" /\ UNCHANGED <<repo, loaded, managed, flag, step, spoilt>>
      BY <1>4 DEF Learned!Publish
    <2>3. /\ work' \in [managed : [Names -> Nat], flag : BOOLEAN, clone : [Names -> Nat],
                        todo : SUBSET Names]
          /\ work'.managed = work.managed /\ work'.flag = work.flag
          /\ work'.clone = work.clone /\ work'.todo \subseteq work.todo
      BY <2>1
    <2>4. SkillsType' /\ OneSync'
      BY <2>1, <2>2, <2>3
    <2>5. n \in Names /\ work.clone # Learned!None /\ work.clone[n] # managed[n]
      BY <2>2 DEF BatchOwed
    <2> QED BY <2>1, <2>2, <2>3, <2>4, <2>5 DEF BatchOwed, ReadWhenQuiet
  <1>5. CASE Learned!PublishFails(c)
    <2>1. /\ step[c] = "publish" /\ step' = [step EXCEPT ![c] = "idle"]
          /\ managed' = managed /\ flag' \in BOOLEAN /\ spoilt' = TRUE
          /\ work' = Learned!NoWork
          /\ UNCHANGED <<repo, disk, loaded>>
      BY <1>5 DEF Learned!PublishFails
    <2>2. SkillsType' BY <2>1, NoWorkIsWork
    <2>3. ~Learned!Locked' BY <2>1
    <2> QED BY <2>1, <2>2, <2>3 DEF BatchOwed, ReadWhenQuiet
  <1>6. CASE Learned!Save(c)
    <2>1. /\ step[c] = "publish"
          /\ managed' = IF work.clone = Learned!None THEN work.managed ELSE work.clone
          /\ flag' = Learned!Owed
          /\ step' = [step EXCEPT ![c] = IF Learned!Owed THEN "restart" ELSE "idle"]
          /\ spoilt' = (spoilt \/ \E d \in Learned!Callers : Learned!Reloading(d))
          /\ work' = Learned!NoWork
          /\ UNCHANGED <<repo, disk, loaded>>
      BY <1>6 DEF Learned!Save
    <2>2. SkillsType' BY <2>1, NoWorkIsWork DEF Learned!Owed
    <2>3. ~Learned!Locked' BY <2>1
    <2>4. ASSUME ~spoilt', ~flag' PROVE Synced'
      BY <2>1, <2>4 DEF Learned!Owed, BatchOwed, Synced
    <2>5. ASSUME ~spoilt', NEW d \in Learned!Callers, step'[d] = "restarted" PROVE FALSE
      BY <2>1, <2>5 DEF Learned!Reloading
    <2> QED BY <2>2, <2>3, <2>4, <2>5 DEF BatchOwed, ReadWhenQuiet
  <1> QED BY <1>1, <1>2, <1>3, <1>4, <1>5, <1>6

\* So do the reload and its failures.
LEMMA ReloadKeepsSkills ==
  ASSUME SkillsInv,
         \/ \E c \in Learned!Callers :
               Learned!RestartServer(c) \/ Learned!RestartFails(c) \/ Learned!ClearReload(c)
         \/ Learned!Crash
  PROVE  SkillsInv'
  <1> USE DEF SkillsInv, SkillsType, OneSync, Learned!Locked, Learned!Publishing
  <1>1. ASSUME NEW c \in Learned!Callers, Learned!RestartServer(c) PROVE SkillsInv'
    <2>1. /\ step[c] = "restart" /\ loaded' = disk
          /\ step' = [step EXCEPT ![c] = "restarted"]
          /\ UNCHANGED <<repo, disk, managed, flag, work, spoilt>>
      BY <1>1 DEF Learned!RestartServer
    <2> QED BY <2>1 DEF BatchOwed, ReadWhenQuiet, Synced
  <1>2. ASSUME NEW c \in Learned!Callers, Learned!RestartFails(c) PROVE SkillsInv'
    <2>1. /\ step[c] = "restart" /\ ~Learned!Publishing
          /\ step' = [step EXCEPT ![c] = "idle"]
          /\ UNCHANGED <<repo, disk, loaded, managed, flag, work, spoilt>>
      BY <1>2 DEF Learned!RestartFails
    <2> QED BY <2>1 DEF BatchOwed, ReadWhenQuiet, Synced
  <1>3. ASSUME NEW c \in Learned!Callers, Learned!ClearReload(c) PROVE SkillsInv'
    <2>1. /\ step[c] = "restarted" /\ ~Learned!Publishing /\ flag' = FALSE
          /\ step' = [step EXCEPT ![c] = "idle"]
          /\ UNCHANGED <<repo, disk, loaded, managed, work, spoilt>>
      BY <1>3 DEF Learned!ClearReload
    <2> QED BY <2>1 DEF BatchOwed, ReadWhenQuiet, Synced
  <1>4. CASE Learned!Crash
    <2>a. \A n \in work.todo : [disk EXCEPT ![n] = 0] \in [Names -> Nat]
      OBVIOUS
    <2>b. disk' \in [Names -> Nat]
      BY <1>4, <2>a DEF Learned!Crash
    <2>1. /\ step' = [c \in Learned!Callers |-> "idle"] /\ work' = Learned!NoWork
          /\ spoilt' \in BOOLEAN
          /\ Learned!Publishing => spoilt' = TRUE
          /\ ~Learned!Publishing => UNCHANGED <<disk, spoilt>>
          /\ UNCHANGED <<repo, loaded, managed, flag>>
      BY <1>4 DEF Learned!Crash
    <2>2. SkillsType' BY <2>1, <2>b, NoWorkIsWork
    <2> QED BY <2>1, <2>2 DEF BatchOwed, ReadWhenQuiet, Synced
  <1> QED BY <1>1, <1>2, <1>3, <1>4

\* Every step of Skills keeps the invariant.
LEMMA SkillsStep == ASSUME SkillsInv, [Learned!Next]_skills PROVE SkillsInv'
  <1>1. CASE UNCHANGED skills
    BY <1>1 DEF skills, SkillsInv, SkillsType, OneSync, BatchOwed, ReadWhenQuiet, Synced,
                Learned!Locked, Learned!Publishing
  <1> QED BY <1>1, OthersKeepSkills, SyncKeepsSkills, ReloadKeepsSkills DEF Learned!Next

\* The agent is never left with old skills for good.
THEOREM ReloadIsNotLost == Spec => []ReloadNotLost
  <1>1. Init => SkillsInv BY PartsStart, SkillsInit
  <1>2. SkillsInv /\ [Next]_vars => SkillsInv' BY OneAtATime, SkillsStep
  <1>3. SkillsInv => ReloadNotLost
    BY DEF SkillsInv, ReadWhenQuiet, Synced, ReloadNotLost, Learned!ReloadNotLost
  <1> QED BY <1>1, <1>2, <1>3, PTL DEF Spec
-----------------------------------------------------------------------------
(* Credentials.                                                            *)

Stored(stock, k) == \E i \in 1..Len(stock) : stock[i] = k

\* While the inventory is locked nobody changes its keys, so the one on its way to
\* the server is stored; while it is not, the server has the active one, unless a
\* PUT, a save or the bot failed.
InventoryInv ==
    /\ keys \in Seq(Keys)
    /\ lock = Inventory!Free \/ Stored(keys, lock.key)
    /\ lock.put => lock # Inventory!Free /\ server = lock.key
    /\ active = Inventory!None \/ Stored(keys, active)
    /\ troubles \in Nat
    /\ troubles = 0 /\ ~lock.put /\ active # Inventory!None => server = active

\* Having a key stored is containing it.
LEMMA StoredIsContains == ASSUME NEW k PROVE Inventory!Contains(keys, k) <=> Stored(keys, k)
  BY DEF Inventory!Contains, Stored

\* Nothing is stored at first, or the one key in use.
LEMMA InventoryInit == ASSUME Inventory!Init PROVE InventoryInv
  <1>1. troubles = 0 /\ lock = Inventory!Free /\ ~lock.put
    BY DEF Inventory!Init, Inventory!Free
  <1>2. CASE keys = <<>> /\ active = Inventory!None
    BY <1>1, <1>2 DEF InventoryInv
  <1>3. ASSUME NEW k \in Keys, keys = <<k>>, active = k, server = k PROVE InventoryInv
    <2>1. keys \in Seq(Keys) /\ Len(keys) = 1 /\ keys[1] = k
      BY <1>3
    <2>2. Stored(keys, active)
      BY <1>3, <2>1 DEF Stored
    <2> QED BY <1>1, <1>3, <2>1, <2>2 DEF InventoryInv
  <1> QED BY <1>2, <1>3 DEF Inventory!Init

\* Removing one of them keeps every other key.
LEMMA OthersStay ==
  ASSUME keys \in Seq(Keys), NEW i \in DOMAIN keys, keys' = Inventory!RemoveAt(keys, i)
  PROVE  /\ keys' \in Seq(Keys)
         /\ \A k : Stored(keys, k) /\ k # keys[i] => Stored(keys', k)
  <1> DEFINE front == SubSeq(keys, 1, i - 1)
             back  == SubSeq(keys, i + 1, Len(keys))
  <1>1. i \in 1..Len(keys) /\ Len(keys) \in Nat /\ \A j \in 1..Len(keys) : keys[j] \in Keys
    OBVIOUS
  <1>2. /\ front \in Seq(Keys) /\ Len(front) = i - 1
        /\ \A j \in 1..(i - 1) : front[j] = keys[j]
    BY <1>1, SubSeqProperties, Z3
  <1>3. /\ back \in Seq(Keys) /\ Len(back) = Len(keys) - i
        /\ \A j \in 1..(Len(keys) - i) : back[j] = keys[i + j]
    BY <1>1, SubSeqProperties, Z3
  <1> HIDE DEF front, back
  <1>4. keys' = front \o back
    BY DEF front, back, Inventory!RemoveAt
  <1>5. /\ keys' \in Seq(Keys) /\ Len(keys') = Len(keys) - 1
        /\ \A j \in 1..(Len(keys) - 1) :
              keys'[j] = IF j < i THEN keys[j] ELSE keys[j + 1]
    BY <1>1, <1>2, <1>3, <1>4
  <1>6. ASSUME NEW j \in 1..Len(keys), j # i PROVE Stored(keys', keys[j])
    <2>1. CASE j < i
      <3>1. j \in 1..Len(keys') /\ keys'[j] = keys[j]
        BY <1>1, <1>5, <2>1
      <3> QED BY <3>1 DEF Stored
    <2>2. CASE j > i
      <3>1. j - 1 \in 1..Len(keys') /\ keys'[j - 1] = keys[j]
        BY <1>1, <1>5, <2>2
      <3> QED BY <3>1 DEF Stored
    <2> QED BY <1>1, <1>6, <2>1, <2>2
  <1> QED BY <1>5, <1>6 DEF Stored

\* The key that rotation turns to is a stored one.
LEMMA NextIsStored ==
  ASSUME keys \in Seq(Keys), Len(keys) >= 2
  PROVE  Stored(keys, Inventory!NextKey)
  <1>1. CASE Inventory!Contains(keys, active)
    <2> DEFINE i == CHOOSE i \in DOMAIN keys : keys[i] = active
    <2>1. i \in 1..Len(keys)
      BY <1>1 DEF Inventory!Contains
    <2>2. (i % Len(keys)) + 1 \in 1..Len(keys)
      BY <2>1
    <2>3. Inventory!NextKey = keys[(i % Len(keys)) + 1]
      BY <1>1 DEF Inventory!NextKey
    <2> QED BY <2>2, <2>3 DEF Stored
  <1>2. CASE ~Inventory!Contains(keys, active)
    BY <1>2 DEF Inventory!NextKey, Stored
  <1> QED BY <1>1, <1>2

\* Every edit of the keys keeps one in use.
LEMMA InventoryStep == ASSUME InventoryInv, [Inventory!Next]_inventory PROVE InventoryInv'
  <1> USE DEF InventoryInv, Inventory!Unlocked, Inventory!Free
  <1>1. ASSUME NEW k \in Keys, Inventory!Add(k) PROVE InventoryInv'
    BY <1>1 DEF Inventory!Add, Stored
  <1>2. ASSUME NEW k \in Keys, Inventory!RemoveKey(k) PROVE InventoryInv'
    <2>1. PICK i \in DOMAIN keys : keys[i] = k /\ keys' = Inventory!RemoveAt(keys, i)
      BY <1>2 DEF Inventory!RemoveKey
    <2>2. /\ active # k /\ lock = Inventory!Free /\ UNCHANGED <<server, lock, troubles>>
          /\ active' = IF keys' = <<>> THEN Inventory!None ELSE active
      BY <1>2 DEF Inventory!RemoveKey
    <2>3. keys' \in Seq(Keys) /\ (Stored(keys, active) => Stored(keys', active))
      BY <2>1, <2>2, OthersStay
    <2> QED BY <2>2, <2>3 DEF Stored
  <1>3. ASSUME NEW k \in Keys, Inventory!Activate(k) PROVE InventoryInv'
    BY <1>3, StoredIsContains DEF Inventory!Activate, Stored
  <1>4. ASSUME NEW k \in Keys, Inventory!QuotaChanges(k) PROVE InventoryInv'
    BY <1>4 DEF Inventory!QuotaChanges, Inventory!inventory, Stored
  <1>5. CASE Inventory!ToggleAuto BY <1>5 DEF Inventory!ToggleAuto, Stored
  <1>6. CASE Inventory!Put BY <1>6 DEF Inventory!Put, Stored
  <1>7. CASE Inventory!Save BY <1>7 DEF Inventory!Save, Stored
  <1>8. CASE Inventory!KeyFails BY <1>8 DEF Inventory!KeyFails, Stored
  <1>9. ASSUME NEW r \in Requests, Inventory!Rotate(r) PROVE InventoryInv'
    BY <1>9, NextIsStored DEF Inventory!Rotate, Stored
  <1>10. ASSUME NEW r \in Requests,
                \/ Inventory!Accepted(r) \/ Inventory!Unauthorised(r)
                \/ \E with \in Carried : Inventory!Start(r, with)
                \/ \E why \in Inventory!Refusals : Inventory!Refused(r, why)
         PROVE  InventoryInv'
    BY <1>10 DEF Inventory!Accepted, Inventory!Unauthorised, Inventory!Start, Inventory!Refused,
                 Inventory!inventory, Stored
  <1>11. CASE Inventory!Restart BY <1>11 DEF Inventory!Restart, Stored
  <1>12. CASE UNCHANGED inventory BY <1>12 DEF inventory, Stored
  <1> QED
    BY <1>1, <1>2, <1>3, <1>4, <1>5, <1>6, <1>7, <1>8, <1>9, <1>10, <1>11, <1>12
       DEF Inventory!Next

\* The agent uses the key the file calls active.
THEOREM KeysAlwaysServe == Spec => []KeysServe
  <1>1. Init => InventoryInv
    BY PartsStart, InventoryInit
  <1>2. InventoryInv /\ [Next]_vars => InventoryInv'
    BY OneAtATime, InventoryStep
  <1>3. InventoryInv => KeysServe
    BY StoredIsContains
       DEF InventoryInv, KeysServe, Inventory!KeyInUse, Inventory!Unlocked, Inventory!Free
  <1> QED BY <1>1, <1>2, <1>3, PTL DEF Spec
-----------------------------------------------------------------------------
(* Models.                                                                 *)

Places == {"idle", "choose", "save", "read", "media", "run"}

TurnRec == [at : Places, model : Nat, pin : Nat, again : BOOLEAN]

Turns == [Owners -> TurnRec]

Sweeps == [kind : {"none", "reconcile", "scout", "daily"}, model : Nat, rows : SUBSET Owners,
           busy : SUBSET Owners, at : SUBSET Owners, passed : BOOLEAN]

ChoiceType ==
    /\ catalog \in Catalogs /\ cache \in Catalogs \cup {Choice!NoCatalog}
    /\ {preferred, scouted} \subseteq Nat
    /\ pref = [o \in Owners |-> pref[o]] /\ \A o \in Owners : pref[o].model \in Nat
    /\ session \in [Owners -> Nat] /\ tap \in [Owners -> Nat]
    /\ turn \in Turns /\ sweep \in Sweeps
    /\ saved \in [Owners -> [model : Nat, pin : Nat]]

\* What the owner's turn follows is the pin of now until it has chosen, and what it is
\* about to run on.
Follows(o) ==
    LET t == turn[o]
    IN t.pin # 0 =>
         /\ t.at \in {"choose", "save", "read"} => t.pin = Choice!Pin(o)
         /\ t.at = "choose" /\ t.model # 0 => session[o] \in {t.model, t.pin}
         /\ t.at = "save" => t.model = t.pin
         /\ t.at = "read" => session[o] = t.pin
         /\ t.at = "media" \/ (t.at = "run" /\ ~t.again) => t.model = t.pin

\* What a checkpoint remembers is a model with its own pin, or without one.
Remembers(o) == saved[o].pin # 0 => saved[o].model = saved[o].pin

\* A sweep that did look moves nobody who has a pin, but for who set it since.
Spares(o) == o \in sweep.at /\ ~sweep.passed /\ sweep.kind # "daily" => Choice!Pin(o) = 0

\* What a tap is still to apply is the pin, if there is one.
Applies(o) == tap[o] = 0 \/ Choice!Pin(o) \in {0, tap[o]}

ChoiceInv ==
    /\ ChoiceType
    /\ \A o \in Owners : Follows(o) /\ Spares(o) /\ Applies(o) /\ Remembers(o)
    /\ \A o \in sweep.at : sweep.at = {o}

\* The models of a catalogue are positive numbers.
LEMMA CatalogFacts ==
  /\ Default \in Nat /\ Choice!Configured \in Nat
  /\ \A c \in Catalogs \cup {Choice!NoCatalog} :
        Choice!Offered(c) \subseteq Nat \ {0}
  /\ ChoiceType => Choice!Known \in Catalogs
  <1>1. Default \in Nat /\ Choice!Configured \in Nat
    BY HostAssumption DEF Choice!Configured
  <1>2. \A c \in Catalogs : Choice!Offered(c) \subseteq Nat \ {0}
    BY HostAssumption DEF Choice!Offered
  <1>3. Choice!Offered(Choice!NoCatalog) = {}
    <2>1. DOMAIN << >> = {}
      OBVIOUS
    <2> QED BY <2>1 DEF Choice!Offered, Choice!NoCatalog
  <1>4. ChoiceType => Choice!Known \in Catalogs
    BY DEF Choice!Known, ChoiceType
  <1> QED BY <1>1, <1>2, <1>3, <1>4

\* The best available model is in the catalogue, or the default.
LEMMA BestFacts ==
  ASSUME ChoiceType, NEW pin \in Nat, NEW excluded
  PROVE  /\ Choice!BestAvailable(pin, excluded) \in Nat
         /\ pin \in Choice!Offered(Choice!Known) \ excluded => Choice!BestAvailable(pin, excluded) = pin
  <1>1. Choice!Offered(Choice!Known) \subseteq Nat
    BY CatalogFacts
  <1>2. \A S \in SUBSET Nat : Choice!Strongest(Choice!Known, S) \in Nat
    BY DEF Choice!Strongest
  <1> QED
    BY <1>1, <1>2, CatalogFacts DEF Choice!BestAvailable, ChoiceType

\* A turn with one field set is a turn.
LEMMA TurnSet ==
  ASSUME NEW t \in Turns, NEW o \in Owners, NEW a \in Places,
         NEW m \in Nat, NEW p \in Nat, NEW g \in BOOLEAN
  PROVE  /\ [t EXCEPT ![o].at = a, ![o].pin = p] \in Turns
         /\ [t EXCEPT ![o].at = a, ![o].model = m] \in Turns
         /\ [t EXCEPT ![o].model = m, ![o].again = g] \in Turns
         /\ [t EXCEPT ![o] = [@ EXCEPT !.at = a, !.pin = p]] \in Turns
         /\ [t EXCEPT ![o] = [@ EXCEPT !.at = a, !.model = m, !.pin = p]] \in Turns
  <1>1. [t EXCEPT ![o].at = a, ![o].pin = p] \in Turns
     BY DEF Turns, TurnRec, Places
  <1>2. [t EXCEPT ![o].at = a, ![o].model = m] \in Turns
     BY DEF Turns, TurnRec, Places
  <1>3. [t EXCEPT ![o].model = m, ![o].again = g] \in Turns
     BY DEF Turns, TurnRec, Places
  <1>4. [t EXCEPT ![o] = [@ EXCEPT !.at = a, !.pin = p]] \in Turns
    <2>1. [t[o] EXCEPT !.at = a, !.pin = p] \in TurnRec
     BY DEF Turns, TurnRec, Places
    <2> QED BY <2>1 DEF Turns
  <1>5. [t EXCEPT ![o] = [@ EXCEPT !.at = a, !.model = m, !.pin = p]] \in Turns
    <2>1. t[o] \in TurnRec
     BY DEF Turns
    <2>2. [t[o] EXCEPT !.at = a, !.model = m, !.pin = p] \in TurnRec
     BY <2>1 DEF TurnRec
    <2> QED BY <2>2 DEF Turns
  <1> QED BY <1>1, <1>2, <1>3, <1>4, <1>5

\* No conversation has a turn at first.
LEMMA ChoiceInit == Choice!Init => ChoiceInv
  BY CatalogFacts
     DEF Choice!Init, Choice!NoTurn, Choice!NoSweep, Choice!NotSaved, Choice!Pin, ChoiceInv,
         ChoiceType, Turns, TurnRec, Places, Sweeps, Follows, Spares, Applies, Remembers

\* The owner's taps.
LEMMA SavedKeeps ==
  ASSUME ChoiceInv, NEW o \in Owners, NEW m \in Nat, NEW lv, NEW apply \in {0, m} \cup Nat,
         m = 0 \/ apply \in {0, m}, Choice!Saved(o, m, lv, apply)
  PROVE  ChoiceInv'
  <1>1. /\ pref' = [pref EXCEPT ![o] = [model |-> m, level |-> lv, pinned |-> m # 0]]
        /\ tap' = [tap EXCEPT ![o] = apply]
        /\ turn' = [turn EXCEPT ![o].pin = 0]
        /\ sweep' = IF o \in sweep.at THEN [sweep EXCEPT !.passed = TRUE] ELSE sweep
        /\ UNCHANGED <<catalog, cache, preferred, scouted, session, saved>>
    BY DEF Choice!Saved
  <1>2. ChoiceType'
    <2>1. pref' = [p \in Owners |-> pref'[p]] /\ \A p \in Owners : pref'[p].model \in Nat
      BY <1>1 DEF ChoiceInv, ChoiceType
    <2>2. tap' \in [Owners -> Nat] /\ session' \in [Owners -> Nat]
      BY <1>1 DEF ChoiceInv, ChoiceType
    <2>3. turn' \in Turns
      <3>1. turn \in Turns /\ turn[o] \in TurnRec
        BY DEF ChoiceInv, ChoiceType, Turns
      <3>2. [turn[o] EXCEPT !.pin = 0] \in TurnRec
        BY <3>1 DEF TurnRec
      <3>3. turn' = [turn EXCEPT ![o] = [turn[o] EXCEPT !.pin = 0]]
        BY <1>1
      <3> QED BY <3>1, <3>2, <3>3 DEF Turns
    <2>4. sweep' \in Sweeps
      BY <1>1 DEF ChoiceInv, ChoiceType, Sweeps
    <2> QED BY <1>1, <2>1, <2>2, <2>3, <2>4 DEF ChoiceInv, ChoiceType
  <1>3. Choice!Pin(o)' = m /\ \A p \in Owners \ {o} : Choice!Pin(p)' = Choice!Pin(p)
    BY <1>1 DEF ChoiceInv, ChoiceType, Choice!Pin
  <1>4. sweep'.at = sweep.at /\ sweep'.kind = sweep.kind /\ (sweep.passed => sweep'.passed)
        /\ (o \in sweep.at => sweep'.passed)
    BY <1>1 DEF ChoiceInv, ChoiceType, Sweeps
  <1>5. \A p \in Owners : Follows(p)'
    BY <1>1, <1>3 DEF ChoiceInv, ChoiceType, Turns, TurnRec, Follows
  <1>6. \A p \in Owners : Spares(p)' /\ Applies(p)' /\ Remembers(p)'
    BY <1>1, <1>3, <1>4 DEF ChoiceInv, ChoiceType, Sweeps, Spares, Applies, Remembers
  <1> QED BY <1>2, <1>4, <1>5, <1>6 DEF ChoiceInv

\* Taps and commands of the owners keep the invariant.
LEMMA TapKeeps ==
  ASSUME ChoiceInv, NEW o \in Owners, Choice!Tap(o)
  PROVE  ChoiceInv'
  <1>1. Choice!Offered(catalog) \subseteq Nat
    BY CatalogFacts DEF ChoiceInv, ChoiceType
  <1>2. CASE Choice!SelectModel(o)
    BY <1>1, <1>2, SavedKeeps DEF Choice!SelectModel, Choice!Shown
  <1>3. CASE Choice!SelectVariant(o)
    BY <1>1, <1>3, SavedKeeps DEF Choice!SelectVariant, Choice!Shown
  <1>4. CASE Choice!Auto(o)
    <2>1. Choice!Strongest(catalog, Choice!Offered(catalog)) \in Nat
      BY <1>1 DEF Choice!Strongest
    <2> QED BY <1>4, <2>1, SavedKeeps DEF Choice!Auto
  <1> QED BY <1>2, <1>3, <1>4 DEF Choice!Tap

\* What leaves pins and sweeps alone need only be looked at for one owner.
LEMMA OwnTurn ==
  ASSUME ChoiceInv, ChoiceType', UNCHANGED <<pref, sweep>>, NEW o \in Owners, Follows(o)', Applies(o)',
         Remembers(o)' \/ UNCHANGED saved,
         \A p \in Owners \ {o} :
            /\ turn'[p] = turn[p] /\ session'[p] = session[p] /\ tap'[p] = tap[p]
            /\ saved'[p] = saved[p]
  PROVE  ChoiceInv'
  <1>1. \A p \in Owners : Choice!Pin(p)' = Choice!Pin(p)
    BY DEF Choice!Pin
  <1>2. \A p \in Owners : Follows(p)' /\ Spares(p)' /\ Applies(p)'
    BY <1>1 DEF ChoiceInv, Follows, Spares, Applies
  <1>3. \A p \in Owners : Remembers(p)'
    BY DEF ChoiceInv, Remembers
  <1> QED BY <1>2, <1>3 DEF ChoiceInv

\* A turn that goes on with a model keeps the type and what the checkpoint remembers.
LEMMA RunKeeps ==
  ASSUME ChoiceInv, NEW o \in Owners, NEW m \in Nat, NEW p \in Nat, p # 0 => m = p,
         Choice!Runs(o, m, p) \/ Choice!Attached(o, m, p),
         cache' = cache \/ cache' = Choice!Known,
         UNCHANGED <<catalog, preferred, scouted, pref, session, tap, sweep>>
  PROVE  ChoiceInv'
  <1>1. PICK a \in {"run", "media"} :
           turn' = [turn EXCEPT ![o] = [at |-> a, model |-> m, pin |-> p, again |-> FALSE]]
    BY DEF Choice!Runs, Choice!Attached
  <1>2. saved' = saved \/ saved' = [saved EXCEPT ![o] = [model |-> m, pin |-> p]]
    BY DEF Choice!Runs, Choice!Attached
  <1>3. turn \in Turns /\ saved \in [Owners -> [model : Nat, pin : Nat]]
    BY DEF ChoiceInv, ChoiceType
  <1>4. [at |-> a, model |-> m, pin |-> p, again |-> FALSE] \in TurnRec
    BY DEF TurnRec, Places
  <1>5. turn' \in Turns /\ turn'[o] = [at |-> a, model |-> m, pin |-> p, again |-> FALSE]
        /\ \A q \in Owners \ {o} : turn'[q] = turn[q]
    BY <1>1, <1>3, <1>4 DEF Turns
  <1>6. saved' \in [Owners -> [model : Nat, pin : Nat]]
        /\ (Remembers(o)' \/ UNCHANGED saved)
        /\ \A q \in Owners \ {o} : saved'[q] = saved[q]
    BY <1>2, <1>3 DEF Remembers
  <1>7. ChoiceType'
    BY <1>5, <1>6, CatalogFacts DEF ChoiceInv, ChoiceType
  <1>8. Follows(o)' /\ Applies(o)'
    BY <1>5 DEF ChoiceInv, Follows, Applies, Choice!Pin
  <1> QED BY <1>5, <1>6, <1>7, <1>8, OwnTurn

\* The steps of a turn keep it.
LEMMA TurnKeeps ==
  ASSUME ChoiceInv, NEW o \in Owners,
         \/ Choice!ApplyModel(o) \/ Choice!EnsureSession(o) \/ Choice!CreateSession(o)
         \/ Choice!Choose(o) \/ Choice!SaveModel(o) \/ Choice!ChoiceFails(o)
         \/ Choice!CurrentModel(o) \/ Choice!Resume(o) \/ Choice!MediaModel(o)
         \/ Choice!Fallback(o) \/ Choice!Interrupted(o) \/ Choice!Ended(o)
  PROVE  ChoiceInv'
  <1> USE DEF ChoiceInv, ChoiceType, Turns, TurnRec, Places, Sweeps
  <1>0. Choice!Pin(o) \in Nat
    BY DEF Choice!Pin
  <1>1. CASE Choice!ApplyModel(o)
    <2>1. ChoiceType' BY <1>1 DEF Choice!ApplyModel
    <2>2. Follows(o)' /\ Applies(o)'
      BY <1>1 DEF Choice!ApplyModel, Follows, Applies, Choice!Pin
    <2> QED BY <1>1, <2>1, <2>2, OwnTurn DEF Choice!ApplyModel
  <1>2. CASE Choice!EnsureSession(o)
    <2>1. ChoiceType' BY <1>0, <1>2 DEF Choice!EnsureSession
    <2>2. Follows(o)' /\ Applies(o)'
      BY <1>2 DEF Choice!EnsureSession, Follows, Applies, Choice!Pin
    <2> QED BY <1>2, <2>1, <2>2, OwnTurn DEF Choice!EnsureSession
  <1>3. CASE Choice!CreateSession(o)
    <2>1. ChoiceType' BY <1>3, CatalogFacts DEF Choice!CreateSession
    <2>2. Follows(o)' /\ Applies(o)'
      BY <1>3 DEF Choice!CreateSession, Follows, Applies, Choice!Pin
    <2> QED BY <1>3, <2>1, <2>2, OwnTurn DEF Choice!CreateSession
  <1>4. CASE Choice!Choose(o)
    <2> DEFINE best == Choice!BestAvailable(Choice!Pin(o), {})
               stays == IF turn[o].pin \in Choice!Offered(Choice!Known) THEN turn[o].pin ELSE 0
    <2>1. best \in Nat /\ stays \in Nat /\ Choice!Known \in Catalogs
          /\ (stays # 0 => stays = turn[o].pin /\ stays = Choice!Pin(o) /\ best = stays)
      <3>1. turn[o].at = "choose" /\ (turn[o].pin # 0 => turn[o].pin = Choice!Pin(o))
        BY <1>4 DEF Choice!Choose, Follows
      <3>2. stays # 0 => stays = turn[o].pin /\ stays \in Choice!Offered(Choice!Known) \ {}
        OBVIOUS
      <3>3. stays \in Nat /\ Choice!Known \in Catalogs
        BY CatalogFacts
      <3>4. best \in Nat /\ (Choice!Pin(o) \in Choice!Offered(Choice!Known) \ {} => best = Choice!Pin(o))
        BY <1>0, BestFacts
      <3> QED BY <3>1, <3>2, <3>3, <3>4
    <2> HIDE DEF best, stays
    <2>2. /\ turn[o].at = "choose" /\ turn[o].model # 0
          /\ cache' = Choice!Known
          /\ turn' = [turn EXCEPT ![o] =
                 IF best \in {0, turn[o].model} THEN [@ EXCEPT !.at = "read", !.pin = stays]
                 ELSE [@ EXCEPT !.at = "save", !.model = best, !.pin = stays]]
          /\ UNCHANGED <<catalog, preferred, scouted, pref, session, tap, sweep, saved>>
      BY <1>4 DEF Choice!Choose, best, stays
    <2> HIDE DEF ChoiceInv, ChoiceType, Turns, TurnRec, Sweeps
    <2>a. turn \in Turns BY DEF ChoiceInv, ChoiceType
    <2>3. turn' \in Turns /\ \A p \in Owners \ {o} : turn'[p] = turn[p]
      <3>1. CASE best \in {0, turn[o].model}
        <4>1. turn' = [turn EXCEPT ![o] = [@ EXCEPT !.at = "read", !.pin = stays]]
          BY <2>2, <3>1
        <4>2. turn' \in Turns BY <2>1, <2>a, <4>1, TurnSet DEF Places
        <4> QED BY <2>a, <4>1, <4>2 DEF Turns
      <3>2. CASE best \notin {0, turn[o].model}
        <4>1. turn' = [turn EXCEPT ![o] = [@ EXCEPT !.at = "save", !.model = best, !.pin = stays]]
          BY <2>2, <3>2
        <4>2. turn' \in Turns BY <2>1, <2>a, <4>1, TurnSet DEF Places
        <4> QED BY <2>a, <4>1, <4>2 DEF Turns
      <3> QED BY <3>1, <3>2
    <2>4. ChoiceType' BY <2>1, <2>2, <2>3 DEF ChoiceInv, ChoiceType
    <2>5. ASSUME best \in {0, turn[o].model}
          PROVE  Follows(o)' /\ Applies(o)'
      <3>1. turn'[o] = [turn[o] EXCEPT !.at = "read", !.pin = stays] /\ turn[o] \in TurnRec
        BY <2>2, <2>5, <2>a DEF Turns
      <3>2. turn'[o].at = "read" /\ turn'[o].model = turn[o].model /\ turn'[o].pin = stays
        BY <3>1 DEF TurnRec
      <3>3. Choice!Pin(o)' = Choice!Pin(o) /\ session'[o] = session[o] /\ tap'[o] = tap[o]
        BY <2>2 DEF Choice!Pin
      <3>4. Applies(o)'
        BY <3>3 DEF ChoiceInv, Applies
      <3>5. stays # 0 => session[o] = stays
        BY <2>1, <2>2, <2>5 DEF ChoiceInv, Follows
      <3>6. Follows(o)'
        BY <2>1, <3>2, <3>3, <3>5 DEF Follows
      <3> QED BY <3>4, <3>6
    <2>6. ASSUME best \notin {0, turn[o].model}
          PROVE  Follows(o)' /\ Applies(o)'
      <3>1. turn'[o] = [turn[o] EXCEPT !.at = "save", !.model = best, !.pin = stays]
            /\ turn[o] \in TurnRec
        BY <2>2, <2>6, <2>a DEF Turns
      <3>2. turn'[o].at = "save" /\ turn'[o].model = best /\ turn'[o].pin = stays
        BY <3>1 DEF TurnRec
      <3> QED
        BY <2>1, <2>2, <2>6, <3>2 DEF ChoiceInv, Follows, Applies, Choice!Pin
    <2>7. Follows(o)' /\ Applies(o)'
      BY <2>5, <2>6
    <2> QED BY <2>2, <2>3, <2>4, <2>7, OwnTurn
  <1>5. CASE Choice!SaveModel(o)
    <2>1. ChoiceType' BY <1>5 DEF Choice!SaveModel
    <2>2. Follows(o)' /\ Applies(o)'
      BY <1>5 DEF Choice!SaveModel, Follows, Applies, Choice!Pin
    <2> QED BY <1>5, <2>1, <2>2, OwnTurn DEF Choice!SaveModel
  <1>6. CASE Choice!ChoiceFails(o)
    <2>0. turn' = [turn EXCEPT ![o].at = "read", ![o].pin = 0]
      BY <1>6 DEF Choice!ChoiceFails
    <2>a. turn' \in Turns /\ turn'[o].pin = 0
      <3> HIDE DEF ChoiceInv, ChoiceType, Turns, TurnRec, Sweeps
      <3>1. turn \in Turns BY DEF ChoiceInv, ChoiceType
      <3>2. turn' \in Turns BY <2>0, <3>1, TurnSet DEF Places
      <3> QED BY <2>0, <3>1, <3>2 DEF Turns, TurnRec
    <2>1. ChoiceType' BY <1>6, <2>a DEF Choice!ChoiceFails
    <2>2. Follows(o)' /\ Applies(o)'
      BY <1>6, <2>a DEF Choice!ChoiceFails, Follows, Applies, Choice!Pin
    <2> QED BY <1>6, <2>1, <2>2, OwnTurn DEF Choice!ChoiceFails
  <1>7. CASE Choice!CurrentModel(o)
    <2>1. session[o] \in Nat /\ turn[o].pin \in Nat /\ (turn[o].pin # 0 => session[o] = turn[o].pin)
      BY <1>7 DEF Choice!CurrentModel, Follows
    <2> HIDE DEF ChoiceInv, ChoiceType, Turns, TurnRec, Sweeps
    <2> QED BY <1>7, <2>1, RunKeeps DEF Choice!CurrentModel
  <1>a. CASE Choice!Resume(o)
    <2>1. /\ saved[o].model \in Nat /\ saved[o].pin \in Nat
          /\ saved[o].pin # 0 => saved[o].model = saved[o].pin
      BY DEF Remembers
    <2> HIDE DEF ChoiceInv, ChoiceType, Turns, TurnRec, Sweeps
    <2> QED BY <1>a, <2>1, RunKeeps DEF Choice!Resume
  <1>b. CASE Choice!MediaModel(o)
    <2> HIDE DEF ChoiceInv, ChoiceType, Turns, TurnRec, Sweeps
    <2>1. Choice!BestForImages \in Nat
      <3>1. Choice!Offered(Choice!Known) \subseteq Nat
        BY CatalogFacts DEF ChoiceInv
      <3>2. \A S \in SUBSET Nat : Choice!Strongest(Choice!Known, S) \in Nat
        BY DEF Choice!Strongest
      <3>3. preferred \in Nat
        BY DEF ChoiceInv, ChoiceType
      <3> QED BY <3>1, <3>2, <3>3, CatalogFacts DEF Choice!BestForImages
    <2>2. turn[o].model \in Nat
      BY DEF ChoiceInv, ChoiceType, Turns, TurnRec
    <2>3. PICK m \in Nat : Choice!Runs(o, m, IF m = turn[o].pin THEN m ELSE 0)
      BY <1>b, <2>1, <2>2 DEF Choice!MediaModel
    <2>4. cache' = Choice!Known /\ UNCHANGED <<catalog, preferred, scouted, pref, session, tap, sweep>>
      BY <1>b DEF Choice!MediaModel
    <2>5. CASE m = turn[o].pin
      BY <2>3, <2>4, <2>5, RunKeeps
    <2>6. CASE m # turn[o].pin
      BY <2>3, <2>4, <2>6, RunKeeps
    <2> QED BY <2>5, <2>6
  <1>8. CASE Choice!Fallback(o)
    <2> DEFINE best == Choice!BestAvailable(Choice!Pin(o), {turn[o].model})
    <2>1. best \in Nat /\ Choice!Known \in Catalogs
      BY <1>0, BestFacts, CatalogFacts
    <2> HIDE DEF best
    <2>2. /\ turn[o].at = "run" /\ cache' = Choice!Known
          /\ session' = [session EXCEPT ![o] = best]
          /\ turn' = [turn EXCEPT ![o].model = best, ![o].again = TRUE]
          /\ UNCHANGED <<catalog, preferred, scouted, pref, tap, sweep, saved>>
      BY <1>8 DEF Choice!Fallback, best
    <2>a. turn' \in Turns
      <3> HIDE DEF ChoiceInv, ChoiceType, Turns, TurnRec, Sweeps
      <3>0. turn \in Turns BY DEF ChoiceInv, ChoiceType
      <3> QED BY <2>1, <2>2, <3>0, TurnSet DEF Places
    <2>3. ChoiceType' BY <2>1, <2>2, <2>a
    <2>4. Follows(o)' /\ Applies(o)'
      BY <2>1, <2>2 DEF Follows, Applies, Choice!Pin, Choice!NoTurn
    <2> QED BY <2>2, <2>3, <2>4, OwnTurn
  <1>9. CASE Choice!Interrupted(o) \/ Choice!Ended(o)
    <2>0. /\ turn' = [turn EXCEPT ![o] = Choice!NoTurn]
          /\ saved' = saved \/ saved' = [saved EXCEPT ![o] = Choice!NotSaved]
          /\ UNCHANGED <<catalog, cache, preferred, scouted, pref, session, tap, sweep>>
      BY <1>9 DEF Choice!Interrupted, Choice!Ended
    <2>a. Choice!NoTurn \in TurnRec /\ Choice!NotSaved \in [model : Nat, pin : Nat]
      BY DEF Choice!NoTurn, Choice!NotSaved, Places
    <2>1. ChoiceType'
      <3> HIDE DEF TurnRec
      <3>1. turn' \in Turns
        BY <2>0, <2>a
      <3>2. saved' \in [Owners -> [model : Nat, pin : Nat]]
        BY <2>0, <2>a
      <3> QED BY <2>0, <3>1, <3>2
    <2>2. Follows(o)' /\ Applies(o)'
      BY <2>0 DEF Choice!NoTurn, Follows, Applies, Choice!Pin
    <2>3. Remembers(o)' \/ UNCHANGED saved
      BY <2>0 DEF Remembers, Choice!NotSaved
    <2> HIDE DEF ChoiceInv, ChoiceType, Turns, TurnRec, Sweeps
    <2>4. \A p \in Owners \ {o} : turn'[p] = turn[p] /\ saved'[p] = saved[p]
      BY <2>0 DEF ChoiceInv, ChoiceType, Turns
    <2> QED BY <2>0, <2>1, <2>2, <2>3, <2>4, OwnTurn
  <1> QED BY <1>1, <1>2, <1>3, <1>4, <1>5, <1>6, <1>7, <1>8, <1>9, <1>a, <1>b

\* The sweeps.
LEMMA NoSweepIsSweep == Choice!NoSweep \in Sweeps
  BY DEF Choice!NoSweep, Sweeps

\* A sweep that ends leaves what it began with.
LEMMA SweepEnds ==
  ASSUME ChoiceType, NEW s, Choice!Closing(s),
         s \in Sweeps
  PROVE  /\ sweep' = s \/ sweep' = Choice!NoSweep
         /\ scouted' \in Nat
  BY DEF Choice!Closing, ChoiceType, Sweeps

\* The steps of the sweep keep the invariant.
LEMMA SweepKeeps ==
  ASSUME ChoiceInv,
         \/ \E o \in Owners : Choice!LookAtPin(o) \/ Choice!Move(o) \/ Choice!MoveFails(o)
         \/ Choice!Reconcile \/ Choice!Scout("scout") \/ Choice!Scout("daily")
         \/ Choice!ListSessions
  PROVE  ChoiceInv'
  <1> USE DEF ChoiceInv, ChoiceType, Turns, TurnRec, Sweeps
  <1>1. ASSUME NEW o \in Owners, Choice!LookAtPin(o) PROVE ChoiceInv'
    <2> DEFINE s == Choice!Left(sweep, o, IF Choice!Pinned(o) THEN {} ELSE {o})
    <2>1. /\ s.kind = sweep.kind /\ s.at = (IF Choice!Pinned(o) THEN {} ELSE {o})
          /\ s \in Sweeps
      BY DEF Choice!Left
    <2> HIDE DEF s
    <2>2. /\ Choice!Closing(s)
          /\ UNCHANGED <<catalog, cache, preferred, pref, session, tap, turn, saved>>
      BY <1>1 DEF Choice!LookAtPin, s
    <2>3. (sweep' = s \/ sweep' = Choice!NoSweep) /\ scouted' \in Nat
      BY <2>1, <2>2, SweepEnds
    <2>a. sweep' \in Sweeps
      BY <2>1, <2>3, NoSweepIsSweep
    <2>b. \A p \in sweep'.at : sweep'.at = {p}
      BY <2>1, <2>3 DEF Choice!NoSweep
    <2>4. ChoiceType' /\ \A p \in sweep'.at : sweep'.at = {p}
      BY <2>2, <2>3, <2>a, <2>b
    <2>5. \A p \in Owners : Spares(p)'
      BY <2>1, <2>2, <2>3 DEF Choice!NoSweep, Spares, Choice!Pinned, Choice!Pin
    <2>6. \A p \in Owners : Follows(p)' /\ Applies(p)' /\ Remembers(p)'
      BY <2>2 DEF Follows, Applies, Remembers, Choice!Pin
    <2> QED BY <2>4, <2>5, <2>6
  <1>2. ASSUME NEW o \in Owners, Choice!Move(o) \/ Choice!MoveFails(o) PROVE ChoiceInv'
    <2> DEFINE s == [sweep EXCEPT !.at = {}, !.passed = FALSE]
    <2>1. /\ s.kind = sweep.kind /\ s.at = {}
          /\ s \in Sweeps
      OBVIOUS
    <2> HIDE DEF s
    <2>2. /\ Choice!Closing(s) /\ o \in sweep.at
          /\ \/ UNCHANGED <<session, turn>>
             \/ /\ session' = [session EXCEPT ![o] = sweep.model]
                /\ turn' = IF sweep.passed \/ sweep.kind = "daily" THEN [turn EXCEPT ![o].pin = 0] ELSE turn
          /\ UNCHANGED <<catalog, cache, preferred, pref, tap, saved>>
      BY <1>2 DEF Choice!Move, Choice!MoveFails, s
    <2>3. (sweep' = s \/ sweep' = Choice!NoSweep) /\ scouted' \in Nat
      BY <2>1, <2>2, SweepEnds
    <2>a. sweep' \in Sweeps
      BY <2>1, <2>3, NoSweepIsSweep
    <2>b. sweep'.at = {}
      BY <2>1, <2>3 DEF Choice!NoSweep
    <2>c. session' \in [Owners -> Nat]
      BY <2>2
    <2>d. turn' \in Turns
      BY <2>2
    <2>4. ChoiceType' /\ sweep'.at = {}
      BY <2>2, <2>3, <2>a, <2>b, <2>c, <2>d
    <2>5. \A p \in Owners : Choice!Pin(p)' = Choice!Pin(p)
      BY <2>2 DEF Choice!Pin
    <2>6. Follows(o)'
      BY <2>2, <2>5 DEF Follows, Spares
    <2>7. \A p \in Owners \ {o} : Follows(p)'
      BY <2>2, <2>5 DEF Follows
    <2>8. \A p \in Owners : Applies(p)' /\ Spares(p)' /\ Remembers(p)'
      BY <2>2, <2>4, <2>5 DEF Applies, Spares, Remembers
    <2> QED BY <2>4, <2>6, <2>7, <2>8
  <1>3. ASSUME UNCHANGED <<catalog, pref, session, tap, turn, saved>>, ChoiceType', sweep'.at = {}
        PROVE  ChoiceInv'
    BY <1>3 DEF Follows, Applies, Spares, Remembers, Choice!Pin
  <1>4. CASE Choice!Reconcile
    <2>1. Choice!BestAvailable(0, {}) \in Nat /\ Choice!Known \in Catalogs
      BY BestFacts, CatalogFacts
    <2> QED BY <1>3, <1>4, <2>1 DEF Choice!Reconcile, Choice!NoSweep
  <1>5. ASSUME NEW who \in {"scout", "daily"}, Choice!Scout(who) PROVE ChoiceInv'
    <2>1. Choice!Offered(catalog) \subseteq Nat /\ Choice!Configured \in Nat
      BY CatalogFacts
    <2>2. PICK m \in Nat : /\ sweep' = [Choice!NoSweep EXCEPT !.kind = who, !.model = m]
                           /\ preferred' = IF who = "scout" THEN m ELSE preferred
      BY <1>5, <2>1 DEF Choice!Scout, Choice!Researched
    <2>3. sweep' \in Sweeps
      BY <2>2, NoSweepIsSweep
    <2>4. sweep'.at = {}
      BY <2>2 DEF Choice!NoSweep
    <2>5. /\ cache' \in Catalogs \cup {Choice!NoCatalog}
          /\ UNCHANGED <<catalog, scouted, pref, session, tap, turn, saved>>
      BY <1>5 DEF Choice!Scout
    <2>6. ChoiceType' BY <2>2, <2>3, <2>5
    <2> QED BY <1>3, <2>4, <2>5, <2>6
  <1>6. CASE Choice!ListSessions
    BY <1>3, <1>6 DEF Choice!ListSessions, Choice!NoSweep
  <1> QED BY <1>1, <1>2, <1>4, <1>5, <1>6

\* Every step of Models keeps the invariant.
LEMMA ChoiceStep == ASSUME ChoiceInv, [Choice!Next]_choice PROVE ChoiceInv'
  <1>1. CASE Choice!Change
    BY <1>1 DEF Choice!Change, ChoiceInv, ChoiceType, Turns, TurnRec, Places, Sweeps,
           Follows, Applies, Spares, Remembers, Choice!Pin
  <1>2. CASE Choice!Expire
    BY <1>2 DEF Choice!Expire, ChoiceInv, ChoiceType, Turns, TurnRec, Places, Sweeps,
           Follows, Applies, Spares, Remembers, Choice!Pin
  <1>3. CASE Choice!Restart
    <2>1. /\ turn' = [o \in Owners |-> Choice!NoTurn] /\ tap' = [o \in Owners |-> 0]
          /\ cache' = Choice!NoCatalog /\ preferred' \in {scouted, Choice!Configured}
          /\ sweep' = (IF sweep.kind = "daily" THEN sweep ELSE Choice!NoSweep)
          /\ UNCHANGED <<catalog, scouted, pref, session, saved>>
      BY <1>3 DEF Choice!Restart
    <2>2. turn' \in Turns /\ sweep' \in Sweeps
      BY <2>1, NoSweepIsSweep DEF Choice!NoTurn, Turns, TurnRec, Places, ChoiceInv, ChoiceType
    <2>3. ChoiceType'
      BY <2>1, <2>2, CatalogFacts DEF ChoiceInv, ChoiceType
    <2>4. \A o \in sweep'.at : sweep'.at = {o}
      BY <2>1 DEF ChoiceInv, Choice!NoSweep
    <2>5. \A o \in Owners : Follows(o)' /\ Applies(o)' /\ Remembers(o)'
      BY <2>1 DEF ChoiceInv, Choice!NoTurn, Follows, Applies, Remembers, Choice!Pin
    <2>6. \A o \in Owners : Spares(o)'
      BY <2>1 DEF ChoiceInv, Spares, Choice!NoSweep, Choice!Pin
    <2> QED BY <2>3, <2>4, <2>5, <2>6 DEF ChoiceInv
  <1>4. CASE UNCHANGED choice
    BY <1>4 DEF choice, ChoiceInv, ChoiceType, Turns, TurnRec, Places, Sweeps,
           Follows, Applies, Spares, Remembers, Choice!Pin
  <1> QED BY <1>1, <1>2, <1>3, <1>4, TapKeeps, TurnKeeps, SweepKeeps DEF Choice!Next, Choice!OfOwner

\* A turn runs on the model its owner pinned, and a resumed one on that it began with.
THEOREM TurnsObeyPins == Spec => []TurnOnPin
  <1>1. Init => ChoiceInv BY PartsStart, ChoiceInit
  <1>2. ChoiceInv /\ [Next]_vars => ChoiceInv' BY OneAtATime, ChoiceStep
  <1>3. ChoiceInv => TurnOnPin
    BY DEF ChoiceInv, Follows, TurnOnPin, Choice!TurnOnPin
  <1> QED BY <1>1, <1>2, <1>3, PTL DEF Spec
-----------------------------------------------------------------------------
(* WorkerLimit.                                                            *)

CapacityType ==
    /\ host \in Hosts \cup {Capacity!Unreadable} /\ limit \in 0..Workers
    /\ {pressed, raised} \subseteq -1..Recovery /\ calm \in 0..Recovery
    /\ since \in -1..Stable /\ earned \in 0..Stable
    /\ deltas \in Seq(Int) /\ Len(deltas) <= Window
    /\ file \in [deltas : Seq(Int), stable : Int, earned : 0..Stable, age : Int]
    /\ Len(file.deltas) <= Window

\* Below all workers recovery is counted from the last pressure, and no sample
\* since asked for fewer.
Recovering ==
    limit < Workers => raised = -1 /\ (limit > 0 => pressed # -1 /\ pressed <= calm)

\* What counts as stable time was spent under observation.
Evidence ==
    /\ since <= earned /\ file.stable <= file.earned
    /\ advised = "ready" => earned = Stable /\ Len(deltas) >= MinSamples

CapacityInv == CapacityType /\ Recovering /\ Evidence

\* The smaller of two numbers.
LEMMA TwoNumbers ==
  ASSUME NEW a \in Int, NEW b \in Int
  PROVE  /\ Capacity!Max({a, b}) = IF a >= b THEN a ELSE b
         /\ Capacity!Min({a, b}) = IF a <= b THEN a ELSE b
  BY DEF Capacity!Max, Capacity!Min

\* The least number of a set that holds a one or a two.
LEMMA SmallMin ==
  ASSUME NEW S \in SUBSET (Nat \ {0}), NEW w \in S, w \in 1..2
  PROVE  Capacity!Min(S) \in S /\ \A n \in S : Capacity!Min(S) <= n
  <1>1. CASE 1 \in S
    <2>1. \A n \in S : 1 <= n /\ (n <= 1 => n = 1)
      OBVIOUS
    <2> QED BY <1>1, <2>1 DEF Capacity!Min
  <1>2. CASE 1 \notin S
    <2>1. 2 \in S /\ \A n \in S : 2 <= n
      BY <1>2
    <2> QED BY <2>1 DEF Capacity!Min
  <1> QED BY <1>1, <1>2

\* A target lies between one worker and the configured number.
LEMMA TargetFits ==
  ASSUME NEW h \in Hosts
  PROVE  Capacity!Max({1, Capacity!AllowedWorkers(h)}) \in 1..Workers
  <1>1. h.cpus \in Nat /\ Workers \in 1..2
    BY HostAssumption
  <1>2. Capacity!Max({1, h.cpus}) \in Nat \ {0}
    BY <1>1, TwoNumbers
  <1> DEFINE S == {Workers}
                  \cup {1 : s \in {s \in Capacity!Signals : h[s] = 3}}
                  \cup {2 : s \in {s \in Capacity!Signals \ {"load"} : h[s] = 2}}
                  \cup {Capacity!Max({1, h.cpus}) : s \in {s \in {"load"} : h[s] = 2}}
                  \cup {IF h.total = "small" THEN 1 ELSE 2 : t \in {h.total} \ {"large"}}
  <1>3. S \in SUBSET (Nat \ {0}) /\ Workers \in S
    BY <1>1, <1>2
  <1>4. Capacity!AllowedWorkers(h) = Capacity!Min(S)
    BY DEF Capacity!AllowedWorkers
  <1> HIDE DEF S
  <1>5. Capacity!Min(S) \in 1..Workers
    <2>1. Capacity!Min(S) \in S /\ Capacity!Min(S) <= Workers
      BY <1>1, <1>3, SmallMin
    <2>2. Capacity!Min(S) \in Nat \ {0}
      BY <1>3, <2>1
    <2> QED BY <1>1, <2>1, <2>2
  <1> QED BY <1>1, <1>4, <1>5, TwoNumbers

\* The advice of the shadow controller is a number of workers.
LEMMA ShadowIsNumber == ASSUME NEW lv PROVE Capacity!ShadowWorkers(lv) \in Int
  <1>1. Workers \in Int /\ 1 \in Int
    BY HostAssumption
  <1>2. Capacity!Min({Workers, 2}) \in Int /\ Capacity!Min({Workers, 3}) \in Int
    <2>1. 2 \in Int /\ 3 \in Int
      OBVIOUS
    <2>2. /\ Capacity!Min({Workers, 2}) \in {Workers, 2}
          /\ Capacity!Min({Workers, 3}) \in {Workers, 3}
      BY <1>1, <2>1, TwoNumbers, Zenon
    <2> QED BY <1>1, <2>2
  <1> QED BY <1>1, <1>2 DEF Capacity!ShadowWorkers

\* The limit starts at its first value, with no evidence to explain.
LEMMA CapacityInit == ASSUME Capacity!Init PROVE CapacityInv
  <1>1. << >> \in Seq(Int) /\ Len(<< >>) = 0
    OBVIOUS
  <1>2. Capacity!NoFile \in [deltas : Seq(Int), stable : Int, earned : 0..Stable, age : Int]
        /\ Capacity!NoFile.deltas = << >> /\ Capacity!NoFile.stable <= Capacity!NoFile.earned
    BY <1>1, HostAssumption DEF Capacity!NoFile
  <1> QED
    BY <1>1, <1>2, HostAssumption
       DEF Capacity!Init, Capacity!Never, CapacityInv, CapacityType, Recovering, Evidence

\* A sample's observation.
LEMMA ObserveKeeps ==
  ASSUME CapacityInv, NEW delta \in Int, Capacity!Observe(delta)
  PROVE  /\ deltas' \in Seq(Int) /\ Len(deltas') <= Window
         /\ since' \in -1..Stable /\ earned' \in 0..Stable
         /\ file' \in [deltas : Seq(Int), stable : Int, earned : 0..Stable, age : Int]
         /\ Len(file'.deltas) <= Window
         /\ Evidence'
  <1> DEFINE window == IF Len(deltas) = Window THEN Append(Tail(deltas), delta) ELSE Append(deltas, delta)
             good   == Capacity!StatisticallyReady(window)
             waited    == IF ~good THEN -1 ELSE IF since = -1 THEN 0 ELSE since
  <1>0. Window \in Nat \ {0} /\ MinSamples \in 1..Window /\ Stable \in Nat \ {0}
    BY HostAssumption
  <1>1. window \in Seq(Int) /\ Len(window) <= Window /\ Len(window) >= Len(deltas)
    BY <1>0 DEF CapacityInv, CapacityType
  <1>2. waited \in -1..Stable
    BY <1>0 DEF CapacityInv, CapacityType
  <1>3. /\ deltas' = window /\ since' = waited
        /\ earned' = IF good THEN earned ELSE 0
        /\ advised' = IF Len(window) < MinSamples THEN advised
                      ELSE IF good /\ waited >= Stable THEN "ready" ELSE "not_ready"
        /\ \/ file' = [deltas |-> window, stable |-> IF good THEN waited ELSE 0,
                       earned |-> earned', age |-> 0]
           \/ UNCHANGED file
    BY DEF Capacity!Observe, Capacity!PromotionReady, Capacity!Never
  <1>4. waited <= earned' /\ earned' \in 0..Stable /\ (IF good THEN waited ELSE 0) <= earned'
        /\ (IF good THEN waited ELSE 0) \in Int
    <2>1. since <= earned /\ earned \in 0..Stable
      BY DEF CapacityInv, CapacityType, Evidence
    <2> HIDE DEF window, good
    <2>2. CASE good
      BY <1>0, <1>2, <1>3, <2>1, <2>2
    <2>3. CASE ~good
      BY <1>0, <1>2, <1>3, <2>1, <2>3
    <2> QED BY <2>2, <2>3
  <1>5. good /\ waited >= Stable => earned' = Stable
    BY <1>0, <1>2, <1>4
  <1> HIDE DEF window, good, waited
  <1>6. /\ file' \in [deltas : Seq(Int), stable : Int, earned : 0..Stable, age : Int]
        /\ Len(file'.deltas) <= Window /\ file'.stable <= file'.earned
    BY <1>1, <1>3, <1>4 DEF CapacityInv, CapacityType, Evidence
  <1>7. advised' = "ready" => earned' = Stable /\ Len(deltas') >= MinSamples
    <2>1. Len(window) \in Nat /\ Len(deltas) \in Nat
      BY <1>1 DEF CapacityInv, CapacityType
    <2>2. CASE Len(window) < MinSamples
      BY <1>0, <1>1, <1>3, <2>1, <2>2 DEF CapacityInv, Evidence
    <2>3. CASE ~(Len(window) < MinSamples)
      BY <1>0, <1>3, <1>5, <2>1, <2>3
    <2> QED BY <2>2, <2>3
  <1> QED BY <1>1, <1>2, <1>3, <1>4, <1>6, <1>7 DEF Evidence

\* Asking for capacity keeps the invariant, whatever it decides.
LEMMA AskKeeps ==
  ASSUME CapacityInv, Capacity!Ask
  PROVE  CapacityInv' /\ Capacity!RaisedSlowly
  <1> DEFINE wanted == Capacity!Max({1, Capacity!AllowedWorkers(host)})
  <1>0. Workers \in 1..2 /\ Recovery \in Nat \ {0}
    BY HostAssumption
  <1>1. wanted \in 1..Workers
    BY TargetFits DEF Capacity!Ask, CapacityInv, CapacityType
  <1> HIDE DEF wanted
  <1>2. PICK lv : Capacity!Observe(Capacity!ShadowWorkers(lv) - wanted)
    BY DEF Capacity!Ask, wanted
  <1>3. Capacity!ShadowWorkers(lv) - wanted \in Int
    BY <1>0, <1>1, ShadowIsNumber
  <1>4. /\ deltas' \in Seq(Int) /\ Len(deltas') <= Window
        /\ since' \in -1..Stable /\ earned' \in 0..Stable
        /\ file' \in [deltas : Seq(Int), stable : Int, earned : 0..Stable, age : Int]
        /\ Len(file'.deltas) <= Window
        /\ Evidence'
    BY <1>2, <1>3, ObserveKeeps
  <1>5. /\ \/ Capacity!FirstLimit(wanted) \/ Capacity!Lower(wanted) \/ Capacity!Hold(wanted)
           \/ Capacity!Wait(wanted) \/ Capacity!Raise(wanted)
        /\ calm' = IF wanted < Workers THEN 0 ELSE calm
        /\ UNCHANGED host
    BY DEF Capacity!Ask, wanted
  <1>6. /\ limit \in 0..Workers /\ {pressed, raised} \subseteq -1..Recovery
        /\ calm \in 0..Recovery /\ Recovering
    BY DEF CapacityInv, CapacityType
  <1>7. calm' \in 0..Recovery
    BY <1>0, <1>5, <1>6
  <1>8. /\ limit' \in 0..Workers /\ {pressed', raised'} \subseteq -1..Recovery
        /\ Recovering' /\ Capacity!RaisedSlowly
    <2>1. CASE Capacity!FirstLimit(wanted)
      BY <1>0, <1>1, <1>5, <1>6, <1>7, <2>1
         DEF Capacity!FirstLimit, Recovering, Capacity!RaisedSlowly
    <2>2. CASE Capacity!Lower(wanted)
      BY <1>0, <1>1, <1>5, <1>6, <2>2
         DEF Capacity!Lower, Capacity!Never, Recovering, Capacity!RaisedSlowly
    <2>3. CASE Capacity!Hold(wanted)
      BY <1>0, <1>1, <1>5, <1>6, <2>3
         DEF Capacity!Hold, Recovering, Capacity!RaisedSlowly
    <2>4. CASE Capacity!Wait(wanted)
      <3>1. limit = 1 /\ wanted = 2 /\ Workers = 2 /\ raised = -1 /\ pressed # -1
            /\ pressed <= calm /\ calm' = calm
        BY <1>0, <1>1, <1>5, <1>6, <2>4 DEF Capacity!Wait, Recovering
      <3> QED
        BY <1>0, <1>6, <2>4, <3>1
           DEF Capacity!Wait, Capacity!Never, Recovering, Capacity!RaisedSlowly
    <2>5. CASE Capacity!Raise(wanted)
      <3>1. limit = 1 /\ wanted = 2 /\ Workers = 2 /\ raised = -1 /\ pressed >= Recovery
            /\ pressed <= calm
        BY <1>0, <1>1, <1>6, <2>5
           DEF Capacity!Raise, Capacity!Baseline, Capacity!Never, Recovering
      <3>2. Capacity!Min({wanted, limit + 1, Workers}) = 2
        <4>1. {wanted, limit + 1, Workers} = {2}
          BY <3>1
        <4> QED BY <4>1, SmallMin
      <3> QED
        BY <1>0, <1>6, <2>5, <3>1, <3>2
           DEF Capacity!Raise, Capacity!Never, Recovering, Capacity!RaisedSlowly
    <2> QED BY <1>5, <2>1, <2>2, <2>3, <2>4, <2>5
  <1> QED BY <1>4, <1>5, <1>7, <1>8 DEF CapacityInv, CapacityType

\* An age grows by one up to its cap, and -1 says that there is none.
LEMMA OlderGrows ==
  ASSUME NEW cap \in Nat, NEW n \in -1..cap
  PROVE  Capacity!Older(n, cap) = IF n = -1 THEN -1 ELSE IF n = cap THEN cap ELSE n + 1
  <1>0. n + 1 \in Int /\ cap \in Int
    OBVIOUS
  <1>1. Capacity!Min({n + 1, cap}) = IF n + 1 <= cap THEN n + 1 ELSE cap
    BY <1>0, TwoNumbers, Zenon
  <1> QED BY <1>1 DEF Capacity!Older, Capacity!Never

\* A tick keeps the invariant.
LEMMA TickKeeps == ASSUME CapacityInv, Capacity!Tick PROVE CapacityInv'
  <1>0. Recovery \in Nat \ {0} /\ Stable \in Nat \ {0} /\ MaxAge \in Nat /\ Workers \in 1..2
    BY HostAssumption
  <1>1. Capacity!Min({calm + 1, Recovery}) = (IF calm = Recovery THEN Recovery ELSE calm + 1)
        /\ Capacity!Min({earned + 1, Stable}) = (IF earned = Stable THEN Stable ELSE earned + 1)
    <2>1. calm + 1 \in Int /\ Recovery \in Int /\ earned + 1 \in Int /\ Stable \in Int
      BY <1>0 DEF CapacityInv, CapacityType
    <2>2. /\ Capacity!Min({calm + 1, Recovery}) = IF calm + 1 <= Recovery THEN calm + 1 ELSE Recovery
          /\ Capacity!Min({earned + 1, Stable}) = IF earned + 1 <= Stable THEN earned + 1 ELSE Stable
      BY <2>1, TwoNumbers, Zenon
    <2> QED BY <1>0, <2>2 DEF CapacityInv, CapacityType
  <1>2. /\ pressed' = (IF pressed = -1 THEN -1 ELSE IF pressed = Recovery THEN Recovery ELSE pressed + 1)
        /\ raised' = (IF raised = -1 THEN -1 ELSE IF raised = Recovery THEN Recovery ELSE raised + 1)
        /\ since' = (IF since = -1 THEN -1 ELSE IF since = Stable THEN Stable ELSE since + 1)
        /\ calm' = (IF calm = Recovery THEN Recovery ELSE calm + 1)
        /\ earned' = (IF earned = Stable THEN Stable ELSE earned + 1)
        /\ UNCHANGED <<host, limit, deltas, advised>>
    BY <1>0, <1>1, OlderGrows DEF Capacity!Tick, CapacityInv, CapacityType
  <1>3. /\ file' \in [deltas : Seq(Int), stable : Int, earned : 0..Stable, age : Int]
        /\ file'.deltas = file.deltas /\ file'.stable = file.stable /\ file'.earned = file.earned
    <2>a. file.age + 1 \in Int /\ MaxAge + 1 \in Int
      BY <1>0 DEF CapacityInv, CapacityType
    <2>b. Capacity!Min({file.age + 1, MaxAge + 1}) \in {file.age + 1, MaxAge + 1}
      BY <2>a, TwoNumbers, Zenon
    <2>1. Capacity!Min({file.age + 1, MaxAge + 1}) \in Int
      BY <2>a, <2>b
    <2>2. PICK n \in Int : file' = [file EXCEPT !.age = n]
      BY <2>1 DEF Capacity!Tick
    <2> QED BY <2>2 DEF CapacityInv, CapacityType
  <1>4. CapacityType'
    BY <1>0, <1>2, <1>3 DEF CapacityInv, CapacityType
  <1>5. Recovering'
    BY <1>0, <1>2 DEF CapacityInv, CapacityType, Recovering
  <1>6. Evidence'
    BY <1>0, <1>2, <1>3 DEF CapacityInv, CapacityType, Evidence
  <1> QED BY <1>4, <1>5, <1>6 DEF CapacityInv

\* A restart from the file keeps it.
LEMMA RestartKeeps == ASSUME CapacityInv, Capacity!Restart PROVE CapacityInv' /\ limit' = 0
  <1>0. Recovery \in Nat \ {0} /\ Stable \in Nat \ {0} /\ MaxAge \in Nat /\ Workers \in 1..2
    BY HostAssumption
  <1>1. PICK down \in 0..MaxAge + 1 :
          LET older == Capacity!Min({file.age + down, MaxAge + 1})
          IN  /\ limit' = 0 /\ pressed' = -1 /\ raised' = -1 /\ calm' = 0
              /\ advised' = "none"
              /\ file' = [file EXCEPT !.age = IF file = Capacity!NoFile THEN 0 ELSE older]
              /\ \/ /\ deltas' = file.deltas
                    /\ since' \in {Capacity!Restored(file.stable, older), -1}
                    /\ earned' = file.earned
                 \/ deltas' = << >> /\ since' = -1 /\ earned' = 0
              /\ UNCHANGED host
    BY DEF Capacity!Restart, Capacity!Never
  <1> DEFINE older == Capacity!Min({file.age + down, MaxAge + 1})
  <1>2. older \in Int
    <2>a. file.age + down \in Int /\ MaxAge + 1 \in Int
      BY <1>0 DEF CapacityInv, CapacityType
    <2>b. older \in {file.age + down, MaxAge + 1}
      BY <2>a, TwoNumbers, Zenon
    <2> QED BY <2>a, <2>b
  <1> HIDE DEF older
  <1>3. /\ file' \in [deltas : Seq(Int), stable : Int, earned : 0..Stable, age : Int]
        /\ file'.deltas = file.deltas /\ file'.stable = file.stable /\ file'.earned = file.earned
    <2>1. PICK n \in Int : file' = [file EXCEPT !.age = n]
      <3>1. file' = [file EXCEPT !.age = IF file = Capacity!NoFile THEN 0 ELSE older]
        BY <1>1 DEF older
      <3>2. (IF file = Capacity!NoFile THEN 0 ELSE older) \in Int
        BY <1>2
      <3> QED BY <3>1, <3>2
    <2> QED BY <2>1 DEF CapacityInv, CapacityType
  <1>4. Capacity!Restored(file.stable, older) \in -1..Stable
        /\ Capacity!Restored(file.stable, older) <= file.earned
    <2>1. Capacity!Min({file.stable, Stable}) = IF file.stable <= Stable THEN file.stable ELSE Stable
      <3>1. file.stable \in Int /\ Stable \in Int
        BY <1>0 DEF CapacityInv, CapacityType
      <3> QED BY <3>1, TwoNumbers
    <2>2. file.stable \in Int /\ file.earned \in 0..Stable /\ file.stable <= file.earned
      BY DEF CapacityInv, CapacityType, Evidence
    <2> QED BY <1>0, <2>1, <2>2 DEF Capacity!Restored, Capacity!Never
  <1>5. since' \in -1..Stable /\ earned' \in 0..Stable /\ since' <= earned'
        /\ deltas' \in Seq(Int) /\ Len(deltas') <= Window
    <2>1. \/ deltas' = file.deltas /\ since' \in {Capacity!Restored(file.stable, older), -1}
             /\ earned' = file.earned
          \/ deltas' = << >> /\ since' = -1 /\ earned' = 0
      BY <1>1 DEF older
    <2>2. file.deltas \in Seq(Int) /\ Len(file.deltas) <= Window /\ file.earned \in 0..Stable
          /\ Window \in Nat
      BY HostAssumption DEF CapacityInv, CapacityType
    <2>3. << >> \in Seq(Int) /\ Len(<< >>) = 0 /\ -1 \in -1..Stable /\ 0 \in 0..Stable
      BY <1>0
    <2>4. CASE deltas' = file.deltas /\ since' \in {Capacity!Restored(file.stable, older), -1}
               /\ earned' = file.earned
      BY <1>0, <1>4, <2>2, <2>4
    <2>5. CASE deltas' = << >> /\ since' = -1 /\ earned' = 0
      BY <1>0, <2>2, <2>3, <2>5
    <2> QED BY <2>1, <2>4, <2>5
  <1>6. /\ limit' = 0 /\ pressed' = -1 /\ raised' = -1 /\ calm' = 0
        /\ advised' = "none" /\ UNCHANGED host
    BY <1>1
  <1>7. CapacityType'
    BY <1>0, <1>3, <1>5, <1>6 DEF CapacityInv, CapacityType
  <1>8. Recovering' /\ Evidence'
    BY <1>3, <1>5, <1>6 DEF CapacityInv, Recovering, Evidence
  <1> QED BY <1>6, <1>7, <1>8 DEF CapacityInv

\* Every step of WorkerLimit keeps the invariant, and raises only on evidence.
LEMMA CapacityStep ==
  ASSUME CapacityInv, [Capacity!Next]_capacity
  PROVE  CapacityInv' /\ Capacity!RaisedSlowly
  <1>1. CASE Capacity!HostChanges
    BY <1>1 DEF Capacity!HostChanges, CapacityInv, CapacityType, Recovering, Evidence,
                Capacity!RaisedSlowly
  <1>2. CASE Capacity!Tick
    <2>1. limit' = limit /\ limit \in Int
      BY <1>2 DEF Capacity!Tick, CapacityInv, CapacityType
    <2> QED BY <1>2, <2>1, TickKeeps DEF Capacity!RaisedSlowly
  <1>3. CASE Capacity!Restart
    BY <1>3, RestartKeeps DEF Capacity!RaisedSlowly, CapacityInv, CapacityType
  <1>4. CASE UNCHANGED capacity
    BY <1>4 DEF capacity, CapacityInv, CapacityType, Recovering, Evidence, Capacity!RaisedSlowly
  <1> QED BY <1>1, <1>2, <1>3, <1>4, AskKeeps DEF Capacity!Next

\* More workers, and the advice for a policy that would allow more, are earned by
\* time spent under observation.
THEOREM LimitIsEarned == Spec => EarnedByTime
  <1>1. Init => CapacityInv BY PartsStart, CapacityInit
  <1>2. CapacityInv /\ [Next]_vars => CapacityInv' BY OneAtATime, CapacityStep
  <1>3. CapacityInv /\ [Next]_vars =>
           [Capacity!RaisedSlowly /\ Capacity!PromotionEarned']_(Capacity!vars)
    <2> SUFFICES ASSUME CapacityInv, [Next]_vars
                 PROVE  Capacity!RaisedSlowly /\ Capacity!PromotionEarned'
      OBVIOUS
    <2>1. CapacityInv' /\ Capacity!RaisedSlowly
      BY OneAtATime, CapacityStep
    <2> QED BY <2>1 DEF CapacityInv, CapacityType, Evidence, Capacity!PromotionEarned
  <1> QED BY <1>1, <1>2, <1>3, PTL DEF Spec, EarnedByTime, Capacity!EarnedByTime
-----------------------------------------------------------------------------
(* Activation.                                                             *)

UpTo      == {"read", "quiet", "backedUp", "prepared"}
Switched  == {"switched", "restarted", "smoked"}
Returned  == {"reverted", "restored", "retried", "failed", "broken"}

\* Until a release is switched to, the link is the previous one; from then on it is
\* the target, or where a failure finds it, the one the rollback knows.
LinkKnown ==
    /\ stage \in {"staged"} \cup UpTo => ~switched
    /\ stage \in UpTo \cup Returned => current = previous
    /\ stage \in Switched \cup {"passed"} => current = target
    /\ stage \in Switched \cup {"failing"} => switched \/ current = previous

\* The target's unit files are there from the preparation on, and the bot is down from
\* its stop to the restart, so what is active after it was started with them.
BotKnown ==
    /\ stage \in {"prepared", "passed"} \cup Switched => units = target
    /\ stage \in {"quiet", "backedUp", "prepared", "switched"} => bot = Artifact!Down /\ ~job
    /\ stage = "restarted" => bot = Artifact!Down \/ (bot = target /\ ~job)
    /\ stage \in {"smoked", "passed"} => bot = target /\ ~job

IdentityKnown ==
    /\ stage \notin {"idle", "died", "passed"} => identity = before
    /\ stage = "passed" => identity = target

ActivationInv ==
    /\ stage \notin {"idle", "died"} => target \in Releases
    /\ LinkKnown /\ BotKnown /\ IdentityKnown

\* Nothing is being activated at first.
LEMMA ActivationInit == Artifact!Init => ActivationInv
  BY DEF Artifact!Init, ActivationInv, LinkKnown, BotKnown, IdentityKnown, UpTo, Switched, Returned

\* Every step of an activation keeps what it will report.
LEMMA ActivationStep == ASSUME ActivationInv, [Artifact!Next]_artifact PROVE ActivationInv'
  <1> USE DEF ActivationInv, LinkKnown, BotKnown, IdentityKnown, UpTo, Switched, Returned,
              Artifact!Ended, Artifact!Down, Artifact!Active, Artifact!NoLink,
              Artifact!attempt, Artifact!flags, Artifact!counts
  <1>0. Releases \subseteq Nat \ {0}
    BY HostAssumption
  <1>1. ASSUME NEW r \in Releases, Artifact!Begin(r) PROVE ActivationInv'
    BY <1>1 DEF Artifact!Begin
  <1>2. CASE Artifact!ReadCurrent BY <1>2 DEF Artifact!ReadCurrent
  <1>3. CASE Artifact!Quiesce BY <1>3 DEF Artifact!Quiesce, Artifact!StopBot
  <1>4. CASE Artifact!BackUp BY <1>4 DEF Artifact!BackUp
  <1>5. CASE Artifact!Prepare BY <1>5 DEF Artifact!Prepare
  <1>6. CASE Artifact!Switch BY <1>6 DEF Artifact!Switch
  <1>7. CASE Artifact!Restart BY <1>7 DEF Artifact!Restart
  <1>8. CASE Artifact!Smoke BY <1>8 DEF Artifact!Smoke
  <1>9. CASE Artifact!Commit BY <1>9 DEF Artifact!Commit
  <1>10. CASE Artifact!SwitchBack BY <1>10 DEF Artifact!SwitchBack
  <1>11. CASE Artifact!RestoreDatabase BY <1>11 DEF Artifact!RestoreDatabase
  <1>12. CASE Artifact!RestartPrevious BY <1>12 DEF Artifact!RestartPrevious
  <1>13. CASE Artifact!SmokePrevious BY <1>13 DEF Artifact!SmokePrevious
  <1>14. CASE Artifact!Kill BY <1>14 DEF Artifact!Kill
  <1>15. CASE Artifact!Systemd BY <1>0, <1>15 DEF Artifact!Systemd
  <1>16. CASE Artifact!BotRestarts BY <1>0, <1>16 DEF Artifact!BotRestarts
  <1>17. CASE Artifact!BotWrites BY <1>17 DEF Artifact!BotWrites
  <1>18. CASE UNCHANGED artifact BY <1>18 DEF artifact
  <1> QED
    BY <1>1, <1>2, <1>3, <1>4, <1>5, <1>6, <1>7, <1>8, <1>9, <1>10, <1>11, <1>12, <1>13, <1>14,
       <1>15, <1>16, <1>17, <1>18 DEF Artifact!Next

\* The outcome an activation reports is what the host has.
THEOREM OutcomeIsTrue == Spec => []OutcomeTrue
  <1>1. Init => ActivationInv BY PartsStart, ActivationInit
  <1>2. ActivationInv /\ [Next]_vars => ActivationInv' BY OneAtATime, ActivationStep
  <1>3. ActivationInv => OutcomeTrue
    BY DEF ActivationInv, LinkKnown, BotKnown, IdentityKnown, UpTo, Switched, Returned,
           OutcomeTrue, Artifact!OutcomeTrue
  <1> QED BY <1>1, <1>2, <1>3, PTL DEF Spec
-----------------------------------------------------------------------------
(* Backups.                                                                *)

SnapshotsType ==
    /\ archive \in [Snapshots!Snapshots -> {"none", "sound", "rotten"}]
    /\ DOMAIN kind = Snapshots!Snapshots /\ made \in Nat
    /\ DOMAIN doing = Snapshots!Actors /\ DOMAIN handled = Snapshots!Actors
    /\ todo \in [Snapshots!Actors -> SUBSET Snapshots!Snapshots]
    /\ kind = [s \in Snapshots!Snapshots |-> kind[s]]
    /\ doing = [a \in Snapshots!Actors |-> doing[a]]
    /\ handled = [a \in Snapshots!Actors |-> handled[a]]
    /\ \A s \in Snapshots!Snapshots : archive[s] # "none" => s <= made

\* What a purge found usable is newer than what it has not looked at, and still
\* there unless others took it.
KeptIsThere ==
    /\ kept \subseteq {s \in Snapshots!Snapshots : s <= made}
    /\ doing["daily"] \notin Snapshots!InPurge => kept = {}
    /\ \A t \in kept : archive[t] = "sound" \/ t \in gone
    /\ doing["daily"] \in Snapshots!InPurge =>
          /\ \A s \in todo["daily"] : s <= made /\ \A t \in kept : s < t
    /\ doing["daily"] = "doomed" =>
          /\ handled["daily"] \in Snapshots!Snapshots /\ handled["daily"] <= made
          /\ \A t \in kept : handled["daily"] < t
          /\ \A s \in todo["daily"] : s < handled["daily"]
          /\ Snapshots!Cardinality({t \in kept : kind[t] = kind[handled["daily"]]}) >= Snapshots!Spare

SnapshotsInv == SnapshotsType /\ KeptIsThere

\* The host starts with its snapshots.
LEMMA SnapshotsInit == Snapshots!Init => SnapshotsInv
  BY DEF Snapshots!Init, Snapshots!InPurge, Snapshots!Actors, SnapshotsInv, SnapshotsType,
         KeptIsThere

\* A step of a process, as far as the other's place is concerned.
LEMMA GoesType ==
  ASSUME SnapshotsType, NEW a \in Snapshots!Actors, NEW point, NEW s,
         NEW left \in SUBSET Snapshots!Snapshots, Snapshots!Goes(a, point, s, left)
  PROVE  /\ todo' \in [Snapshots!Actors -> SUBSET Snapshots!Snapshots]
         /\ DOMAIN doing' = Snapshots!Actors /\ DOMAIN handled' = Snapshots!Actors
         /\ doing' = [b \in Snapshots!Actors |-> doing'[b]]
         /\ handled' = [b \in Snapshots!Actors |-> handled'[b]]
         /\ doing'[a] = point /\ handled'[a] = s /\ todo'[a] = left
         /\ \A b \in Snapshots!Actors \ {a} :
               doing'[b] = doing[b] /\ handled'[b] = handled[b] /\ todo'[b] = todo[b]
  BY DEF Snapshots!Goes, SnapshotsType

\* The bot's steps leave the purge where it is, and what they remove is noted.
LEMMA BesideThePurge ==
  ASSUME SnapshotsInv, SnapshotsType',
         doing'["daily"] = doing["daily"], handled'["daily"] = handled["daily"],
         todo'["daily"] = todo["daily"], kept' = kept, gone \subseteq gone',
         made <= made',
         \A s \in Snapshots!Snapshots : s <= made => kind'[s] = kind[s],
         \A s \in Snapshots!Snapshots : archive[s] = "sound" =>
            archive'[s] = "sound" \/ s \in gone' \/ kept = {}
  PROVE  SnapshotsInv'
  <1>1. /\ kept' \subseteq {s \in Snapshots!Snapshots : s <= made'}
        /\ doing'["daily"] \notin Snapshots!InPurge => kept' = {}
        /\ \A t \in kept' : archive'[t] = "sound" \/ t \in gone'
    <2>1. kept \subseteq Int /\ made \in Int /\ made' \in Int
      BY HostAssumption DEF SnapshotsInv, SnapshotsType, KeptIsThere, Snapshots!Snapshots
    <2>2. \A t \in kept : t <= made'
      BY <2>1 DEF SnapshotsInv, KeptIsThere
    <2>3. \A t \in kept : archive'[t] = "sound" \/ t \in gone'
      BY DEF SnapshotsInv, KeptIsThere
    <2> QED BY <2>2, <2>3 DEF SnapshotsInv, KeptIsThere
  <1>2. doing'["daily"] \in Snapshots!InPurge =>
          \A s \in todo'["daily"] : s <= made' /\ \A t \in kept' : s < t
    <2>1. todo["daily"] \subseteq Snapshots!Snapshots
      BY DEF SnapshotsInv, SnapshotsType, Snapshots!Actors
    <2> QED BY <2>1 DEF SnapshotsInv, SnapshotsType, KeptIsThere, Snapshots!Snapshots
  <1>3. doing'["daily"] = "doomed" =>
          {t \in kept' : kind'[t] = kind'[handled'["daily"]]} = {t \in kept : kind[t] = kind[handled["daily"]]}
    BY DEF SnapshotsInv, KeptIsThere
  <1>4. doing'["daily"] = "doomed" =>
          /\ handled'["daily"] \in Snapshots!Snapshots /\ handled'["daily"] <= made'
          /\ \A t \in kept' : handled'["daily"] < t
          /\ \A s \in todo'["daily"] : s < handled'["daily"]
    <2>1. made \in Int /\ made' \in Int /\ Snapshots!Snapshots \subseteq Int
      BY HostAssumption DEF SnapshotsInv, SnapshotsType, Snapshots!Snapshots
    <2>2. doing["daily"] = "doomed" =>
            /\ handled["daily"] \in Snapshots!Snapshots /\ handled["daily"] <= made
            /\ \A t \in kept : handled["daily"] < t
            /\ \A s \in todo["daily"] : s < handled["daily"]
      BY DEF SnapshotsInv, KeptIsThere
    <2>3. ASSUME doing["daily"] = "doomed" PROVE handled["daily"] <= made'
      <3>1. handled["daily"] \in Int /\ handled["daily"] <= made
        BY <2>1, <2>2, <2>3
      <3>2. made <= made'
        OBVIOUS
      <3> QED BY ONLY <2>1, <3>1, <3>2
    <2> QED BY <2>2, <2>3
  <1>5. doing'["daily"] = "doomed" =>
          Snapshots!Cardinality({t \in kept' : kind'[t] = kind'[handled'["daily"]]}) >= Snapshots!Spare
    BY <1>3 DEF SnapshotsInv, KeptIsThere
  <1> QED BY <1>1, <1>2, <1>4, <1>5 DEF SnapshotsInv, KeptIsThere

\* A removal that is not the purge's own.
LEMMA UnlinkNotes ==
  ASSUME SnapshotsInv, NEW s, Snapshots!Unlink(s, FALSE)
  PROVE  /\ archive' \in [Snapshots!Snapshots -> {"none", "sound", "rotten"}]
         /\ gone \subseteq gone'
         /\ \A t \in Snapshots!Snapshots :
               /\ archive'[t] # "none" => archive[t] # "none"
               /\ archive[t] = "sound" => archive'[t] = "sound" \/ t \in gone' \/ kept = {}
  BY DEF Snapshots!Unlink, SnapshotsInv, SnapshotsType, KeptIsThere

\* A deletion in the bot keeps what it saw.
LEMMA BotKeeps ==
  ASSUME SnapshotsInv,
         \/ \E k \in Snapshots!Kinds : Snapshots!Place(k)
         \/ Snapshots!Describe \/ Snapshots!DescribeFails
         \/ Snapshots!PruneOne("bot") \/ Snapshots!PruneEnds("bot") \/ Snapshots!DropMeta("bot")
         \/ Snapshots!Die("bot")
         \/ \E s \in Snapshots!Snapshots : Snapshots!Delete(s)
  PROVE  SnapshotsInv'
  <1>0. "bot" \in Snapshots!Actors /\ "daily" \in Snapshots!Actors /\ "daily" # "bot"
    BY DEF Snapshots!Actors
  <1>1. ASSUME NEW point, NEW s, NEW left \in SUBSET Snapshots!Snapshots,
               Snapshots!Goes("bot", point, s, left), UNCHANGED <<kind, made, kept>>,
               (UNCHANGED <<archive, gone>>) \/ \E t : Snapshots!Unlink(t, FALSE)
        PROVE  SnapshotsInv'
    <2>1. /\ archive' \in [Snapshots!Snapshots -> {"none", "sound", "rotten"}]
          /\ gone \subseteq gone'
          /\ \A t \in Snapshots!Snapshots :
                /\ archive'[t] # "none" => archive[t] # "none"
                /\ archive[t] = "sound" => archive'[t] = "sound" \/ t \in gone' \/ kept = {}
      BY <1>1, UnlinkNotes DEF SnapshotsInv, SnapshotsType
    <2>2. SnapshotsType'
      BY <1>0, <1>1, <2>1, GoesType DEF SnapshotsInv, SnapshotsType
    <2>3. /\ doing'["daily"] = doing["daily"] /\ handled'["daily"] = handled["daily"]
          /\ todo'["daily"] = todo["daily"]
      BY <1>0, <1>1, GoesType DEF SnapshotsInv
    <2> QED BY <1>1, <2>1, <2>2, <2>3, BesideThePurge DEF SnapshotsInv, SnapshotsType
  <1>2. ASSUME NEW k \in Snapshots!Kinds, Snapshots!Place(k) PROVE SnapshotsInv'
    <2>1. /\ made' = made + 1 /\ made < MaxMade
          /\ archive' = [archive EXCEPT ![made'] = "sound"]
          /\ kind' = [kind EXCEPT ![made'] = k]
          /\ Snapshots!Goes("bot", "placed", made', {})
          /\ UNCHANGED <<kept, gone>>
      BY <1>2 DEF Snapshots!Place, Snapshots!purge
    <2>2. made \in Nat /\ made' \in Nat
      BY <2>1 DEF SnapshotsInv, SnapshotsType
    <2>3. /\ archive' \in [Snapshots!Snapshots -> {"none", "sound", "rotten"}]
          /\ DOMAIN kind' = Snapshots!Snapshots
          /\ kind' = [s \in Snapshots!Snapshots |-> kind'[s]]
          /\ \A s \in Snapshots!Snapshots : archive'[s] # "none" => s <= made'
      <3>1. made' \in Snapshots!Snapshots
        BY <2>1, <2>2, HostAssumption DEF Snapshots!Snapshots
      <3>2. archive' \in [Snapshots!Snapshots -> {"none", "sound", "rotten"}]
        BY <2>1, <3>1 DEF SnapshotsInv, SnapshotsType
      <3>3. DOMAIN kind' = Snapshots!Snapshots
            /\ kind' = [s \in Snapshots!Snapshots |-> kind'[s]]
        BY <2>1, <3>1 DEF SnapshotsInv, SnapshotsType
      <3>4. ASSUME NEW s \in Snapshots!Snapshots, archive'[s] # "none" PROVE s <= made'
        <4>1. CASE s = made'
          BY <2>2, <4>1
        <4>2. CASE s # made'
          <5>1. archive[s] # "none" /\ s \in Int
            BY <2>1, <3>4, <4>2, HostAssumption DEF SnapshotsInv, SnapshotsType, Snapshots!Snapshots
          <5> QED BY <2>1, <2>2, <5>1 DEF SnapshotsInv, SnapshotsType
        <4> QED BY <4>1, <4>2
      <3> QED BY <3>2, <3>3, <3>4
    <2>4. SnapshotsType'
      BY <1>0, <2>1, <2>2, <2>3, GoesType DEF SnapshotsInv, SnapshotsType
    <2>5. /\ doing'["daily"] = doing["daily"] /\ handled'["daily"] = handled["daily"]
          /\ todo'["daily"] = todo["daily"]
      BY <1>0, <2>1, GoesType DEF SnapshotsInv
    <2>6. /\ \A s \in Snapshots!Snapshots : s <= made => kind'[s] = kind[s]
          /\ \A s \in Snapshots!Snapshots : archive[s] = "sound" => archive'[s] = "sound"
      BY <2>1, <2>2 DEF SnapshotsInv, SnapshotsType, Snapshots!Snapshots
    <2> QED BY <2>1, <2>2, <2>4, <2>5, <2>6, BesideThePurge
  <1>3. CASE Snapshots!Describe
    BY <1>1, <1>3 DEF Snapshots!Describe, Snapshots!Overdue, Snapshots!purge
  <1>4. CASE Snapshots!DescribeFails
    <2>1. /\ Snapshots!Goes("bot", "idle", 0, {}) /\ UNCHANGED <<kind, made, kept>>
          /\ UNCHANGED <<archive, gone>> \/ Snapshots!Unlink(handled["bot"], FALSE)
      BY <1>4 DEF Snapshots!DescribeFails
    <2>2. {} \in SUBSET Snapshots!Snapshots
      OBVIOUS
    <2> QED BY <1>1, <2>1, <2>2
  <1>5. CASE Snapshots!PruneOne("bot")
    <2>1. PICK t \in todo["bot"] :
            \/ Snapshots!Unlink(t, FALSE) /\ Snapshots!Goes("bot", "pruned", t, todo["bot"] \ {t})
            \/ Snapshots!Goes("bot", "pruning", 0, todo["bot"] \ {t}) /\ UNCHANGED <<archive, gone>>
      BY <1>5 DEF Snapshots!PruneOne
    <2>2. todo["bot"] \ {t} \in SUBSET Snapshots!Snapshots
      BY <1>0 DEF SnapshotsInv, SnapshotsType
    <2>3. UNCHANGED <<kind, made, kept>>
      BY <1>5 DEF Snapshots!PruneOne
    <2> QED BY <1>1, <2>1, <2>2, <2>3
  <1>6. CASE Snapshots!PruneEnds("bot")
    BY <1>1, <1>6 DEF Snapshots!PruneEnds, Snapshots!purge, Snapshots!disk
  <1>7. CASE Snapshots!DropMeta("bot")
    <2>1. todo["bot"] \in SUBSET Snapshots!Snapshots
      BY <1>0 DEF SnapshotsInv, SnapshotsType
    <2> QED BY <1>1, <1>7, <2>1 DEF Snapshots!DropMeta, Snapshots!purge
  <1>8. CASE Snapshots!Die("bot")
    BY <1>1, <1>8 DEF Snapshots!Die, Snapshots!purge, Snapshots!disk
  <1>9. ASSUME NEW s \in Snapshots!Snapshots, Snapshots!Delete(s) PROVE SnapshotsInv'
    <2>1. /\ Snapshots!Goes("bot", "deleted", s, {}) /\ UNCHANGED <<kind, made, kept>>
          /\ Snapshots!Unlink(s, FALSE)
      BY <1>9 DEF Snapshots!Delete
    <2>2. {} \in SUBSET Snapshots!Snapshots
      OBVIOUS
    <2> QED BY <1>1, <2>1, <2>2
  <1> QED BY <1>2, <1>3, <1>4, <1>5, <1>6, <1>7, <1>8, <1>9

\* The maintenance's own steps.
LEMMA DailyKeeps ==
  ASSUME SnapshotsInv,
         \/ Snapshots!StartPrune \/ Snapshots!StartPurge \/ Snapshots!Look \/ Snapshots!PurgeOne
         \/ Snapshots!PurgeEnds
         \/ Snapshots!PruneOne("daily") \/ Snapshots!PruneEnds("daily")
         \/ Snapshots!DropMeta("daily") \/ Snapshots!Die("daily")
  PROVE  SnapshotsInv'
  <1>0. "daily" \in Snapshots!Actors
    BY DEF Snapshots!Actors
  <1> USE DEF Snapshots!InPurge
  \* outside a purge, or at its end
  <1>1. ASSUME NEW point, point \notin Snapshots!InPurge, NEW s, NEW left \in SUBSET Snapshots!Snapshots,
               Snapshots!Goes("daily", point, s, left), UNCHANGED <<kind, made>>, kept' = {},
               archive' \in [Snapshots!Snapshots -> {"none", "sound", "rotten"}],
               \A t \in Snapshots!Snapshots : archive'[t] # "none" => archive[t] # "none"
        PROVE  SnapshotsInv'
    <2>1. SnapshotsType'
      BY <1>0, <1>1, GoesType DEF SnapshotsInv, SnapshotsType
    <2>2. doing'["daily"] = point
      BY <1>0, <1>1, GoesType DEF SnapshotsInv
    <2> QED BY <1>1, <2>1, <2>2 DEF SnapshotsInv, KeptIsThere
  <1>2. CASE Snapshots!StartPrune
    <2>1. Snapshots!Overdue \in SUBSET Snapshots!Snapshots
      BY DEF Snapshots!Overdue
    <2>2. /\ Snapshots!Goes("daily", "pruning", 0, Snapshots!Overdue)
          /\ UNCHANGED <<archive, kind, made>> /\ kept' = {}
      BY <1>2 DEF Snapshots!StartPrune, Snapshots!disk, Snapshots!purge, SnapshotsInv, KeptIsThere
    <2> QED BY <1>1, <2>1, <2>2 DEF SnapshotsInv, SnapshotsType
  <1>3. CASE Snapshots!PurgeEnds
    BY <1>1, <1>3 DEF Snapshots!PurgeEnds, Snapshots!LeavePurge, Snapshots!disk, SnapshotsInv,
                      SnapshotsType
  <1>4. CASE Snapshots!Die("daily")
    BY <1>1, <1>4 DEF Snapshots!Die, Snapshots!LeavePurge, Snapshots!disk, SnapshotsInv,
                      SnapshotsType
  <1>5. CASE Snapshots!PruneEnds("daily")
    BY <1>1, <1>5 DEF Snapshots!PruneEnds, Snapshots!disk, Snapshots!purge, SnapshotsInv,
                      SnapshotsType, KeptIsThere
  <1>6. CASE Snapshots!PruneOne("daily")
    <2>1. doing["daily"] = "pruning" /\ UNCHANGED <<kind, made, kept>> /\ kept = {}
      BY <1>6 DEF Snapshots!PruneOne, SnapshotsInv, KeptIsThere
    <2>2. PICK t \in todo["daily"] :
            \/ Snapshots!Unlink(t, FALSE) /\ Snapshots!Goes("daily", "pruned", t, todo["daily"] \ {t})
            \/ Snapshots!Goes("daily", "pruning", 0, todo["daily"] \ {t}) /\ UNCHANGED <<archive, gone>>
      BY <1>6 DEF Snapshots!PruneOne
    <2>3. todo["daily"] \ {t} \in SUBSET Snapshots!Snapshots
      BY <1>0 DEF SnapshotsInv, SnapshotsType
    <2>4. CASE Snapshots!Unlink(t, FALSE) /\ Snapshots!Goes("daily", "pruned", t, todo["daily"] \ {t})
      BY <1>1, <2>1, <2>3, <2>4, UnlinkNotes
    <2>5. CASE Snapshots!Goes("daily", "pruning", 0, todo["daily"] \ {t}) /\ UNCHANGED <<archive, gone>>
      BY <1>1, <2>1, <2>3, <2>5 DEF SnapshotsInv, SnapshotsType
    <2> QED BY <2>2, <2>4, <2>5
  <1>7. CASE Snapshots!StartPurge
    <2>1. /\ Snapshots!Goes("daily", "purging", 0, Snapshots!Listed)
          /\ UNCHANGED <<archive, kind, made, kept, gone>> /\ kept = {}
      BY <1>7 DEF Snapshots!StartPurge, Snapshots!disk, Snapshots!purge, SnapshotsInv, KeptIsThere
    <2>2. Snapshots!Listed \subseteq Snapshots!Snapshots
          /\ \A s \in Snapshots!Listed : s <= made
      BY DEF Snapshots!Listed, Snapshots!Described, SnapshotsInv, SnapshotsType
    <2>3. SnapshotsType' /\ doing'["daily"] = "purging" /\ todo'["daily"] = Snapshots!Listed
      BY <1>0, <2>1, <2>2, GoesType DEF SnapshotsInv, SnapshotsType
    <2> QED BY <2>1, <2>2, <2>3 DEF SnapshotsInv, KeptIsThere
  <1>8. CASE Snapshots!Look
    <2>1. PICK s \in todo["daily"] :
            LET rest == todo["daily"] \ {s}
                enough == Snapshots!Cardinality({t \in kept : kind[t] = kind[s]}) >= Snapshots!Spare
            IN  /\ \A t \in rest : t < s
                /\ Snapshots!Goes("daily", IF Snapshots!Usable(s) /\ enough THEN "doomed" ELSE "purging",
                                  IF Snapshots!Usable(s) /\ enough THEN s ELSE 0, rest)
                /\ kept' = IF Snapshots!Usable(s) /\ ~enough THEN kept \cup {s} ELSE kept
      BY <1>8 DEF Snapshots!Look
    <2> DEFINE rest == todo["daily"] \ {s}
               enough == Snapshots!Cardinality({t \in kept : kind[t] = kind[s]}) >= Snapshots!Spare
    <2>2. doing["daily"] = "purging" /\ UNCHANGED <<archive, kind, made, gone>>
      BY <1>8 DEF Snapshots!Look, Snapshots!Purging, Snapshots!disk
    <2>3. s \in Snapshots!Snapshots /\ rest \in SUBSET Snapshots!Snapshots
      BY <1>0 DEF SnapshotsInv, SnapshotsType
    <2>4. s <= made /\ (\A t \in kept : s < t) /\ (\A u \in rest : u <= made /\ \A t \in kept : u < t)
      BY <2>2 DEF SnapshotsInv, KeptIsThere
    <2>a. /\ \A t \in rest : t < s
          /\ Snapshots!Goes("daily", IF Snapshots!Usable(s) /\ enough THEN "doomed" ELSE "purging",
                                  IF Snapshots!Usable(s) /\ enough THEN s ELSE 0, rest)
          /\ kept' = IF Snapshots!Usable(s) /\ ~enough THEN kept \cup {s} ELSE kept
      BY <2>1
    <2>b. enough => Snapshots!Cardinality({t \in kept : kind[t] = kind[s]}) >= Snapshots!Spare
      OBVIOUS
    <2> HIDE DEF rest, enough
    <2>5. /\ SnapshotsType'
          /\ doing'["daily"] = (IF Snapshots!Usable(s) /\ enough THEN "doomed" ELSE "purging")
          /\ handled'["daily"] = (IF Snapshots!Usable(s) /\ enough THEN s ELSE 0)
          /\ todo'["daily"] = rest
      BY <1>0, <2>2, <2>3, <2>a, GoesType DEF SnapshotsInv, SnapshotsType
    <2>6. CASE Snapshots!Usable(s) /\ enough
      BY <2>2, <2>3, <2>4, <2>5, <2>6, <2>a, <2>b DEF SnapshotsInv, KeptIsThere
    <2>7. CASE Snapshots!Usable(s) /\ ~enough
      BY <2>2, <2>3, <2>4, <2>5, <2>7, <2>a DEF SnapshotsInv, KeptIsThere, Snapshots!Usable
    <2>8. CASE ~Snapshots!Usable(s)
      BY <2>2, <2>3, <2>4, <2>5, <2>8, <2>a DEF SnapshotsInv, KeptIsThere
    <2> QED BY <2>6, <2>7, <2>8
  <1>9. CASE Snapshots!PurgeOne
    <2>1. doing["daily"] = "doomed" /\ UNCHANGED <<kind, made>>
      BY <1>9 DEF Snapshots!PurgeOne
    <2>2. CASE Snapshots!LeavePurge /\ UNCHANGED archive
      BY <1>1, <2>1, <2>2 DEF Snapshots!LeavePurge, SnapshotsInv, SnapshotsType
    <2>3. CASE /\ Snapshots!Unlink(handled["daily"], TRUE)
               /\ Snapshots!Goes("daily", "purged", handled["daily"], todo["daily"])
               /\ UNCHANGED kept
      <3>1. /\ archive' = [archive EXCEPT ![handled["daily"]] = "none"] /\ gone' = gone
        BY <2>3 DEF Snapshots!Unlink
      <3>2. /\ SnapshotsType' /\ doing'["daily"] = "purged" /\ todo'["daily"] = todo["daily"]
        <4>1. todo["daily"] \in SUBSET Snapshots!Snapshots
          BY <1>0 DEF SnapshotsInv, SnapshotsType
        <4>2. /\ archive' \in [Snapshots!Snapshots -> {"none", "sound", "rotten"}]
              /\ \A t \in Snapshots!Snapshots : archive'[t] # "none" => archive[t] # "none"
          BY <3>1 DEF SnapshotsInv, SnapshotsType
        <4> QED BY <1>0, <2>1, <2>3, <4>1, <4>2, GoesType DEF SnapshotsInv, SnapshotsType
      <3>3. \A t \in kept : archive'[t] = archive[t]
        BY <2>1, <3>1
           DEF SnapshotsInv, SnapshotsType, KeptIsThere, Snapshots!Snapshots
      <3> QED BY <2>1, <2>3, <3>1, <3>2, <3>3 DEF SnapshotsInv, KeptIsThere
    <2> QED BY <1>9, <2>2, <2>3 DEF Snapshots!PurgeOne
  <1>10. CASE Snapshots!DropMeta("daily")
    <2>1. /\ Snapshots!Goes("daily", Snapshots!After[doing["daily"]], 0, todo["daily"])
          /\ doing["daily"] \in DOMAIN Snapshots!After
          /\ UNCHANGED <<archive, kind, made, kept, gone>>
      BY <1>10 DEF Snapshots!DropMeta, Snapshots!purge
    <2>2. todo["daily"] \in SUBSET Snapshots!Snapshots
      BY <1>0 DEF SnapshotsInv, SnapshotsType
    <2>3. /\ SnapshotsType' /\ todo'["daily"] = todo["daily"]
          /\ doing'["daily"] = Snapshots!After[doing["daily"]]
      BY <1>0, <2>1, <2>2, GoesType DEF SnapshotsInv, SnapshotsType
    <2>4. /\ doing["daily"] \in {"pruned", "deleted", "purged"}
          /\ doing["daily"] = "pruned" => doing'["daily"] = "pruning"
          /\ doing["daily"] = "deleted" => doing'["daily"] = "idle"
          /\ doing["daily"] = "purged" => doing'["daily"] = "purging"
      BY <2>1, <2>3 DEF Snapshots!After
    <2> QED BY <2>1, <2>3, <2>4 DEF SnapshotsInv, KeptIsThere
  <1> QED BY <1>2, <1>3, <1>4, <1>5, <1>6, <1>7, <1>8, <1>9, <1>10

\* Every step of Backups keeps the invariant.
LEMMA SnapshotsStep == ASSUME SnapshotsInv, [Snapshots!Next]_snapshots PROVE SnapshotsInv'
  <1>1. CASE Snapshots!Day
    BY <1>1 DEF Snapshots!Day, Snapshots!disk, Snapshots!local, Snapshots!purge, SnapshotsInv,
                SnapshotsType, KeptIsThere
  <1>2. ASSUME NEW s \in Snapshots!Snapshots, Snapshots!Rot(s) PROVE SnapshotsInv'
    BY <1>2 DEF Snapshots!Rot, Snapshots!local, Snapshots!purge, Snapshots!InPurge,
                SnapshotsInv, SnapshotsType, KeptIsThere
  <1>3. CASE UNCHANGED snapshots
    BY <1>3 DEF snapshots, SnapshotsInv, SnapshotsType, KeptIsThere
  <1> QED BY <1>1, <1>2, <1>3, BotKeeps, DailyKeeps DEF Snapshots!Next, Snapshots!Actors

\* What the step of a purge removes has enough newer ones.
LEMMA PurgedHasNewer ==
  ASSUME SnapshotsInv, [Snapshots!Next]_snapshots, NEW s \in Snapshots!Snapshots,
         doing["daily"] = "doomed", archive[s] # "none", archive'[s] = "none", s \notin gone'
  PROVE  Snapshots!Cardinality({t \in Snapshots!Snapshots :
                                  /\ t > s /\ kind[t] = kind[s]
                                  /\ archive[t] = "sound" \/ t \in gone}) >= Snapshots!Spare
  <1> DEFINE newer == {t \in Snapshots!Snapshots :
                         /\ t > s /\ kind[t] = kind[s]
                         /\ archive[t] = "sound" \/ t \in gone}
             others == {t \in kept : kind[t] = kind[s]}
  <1>1. ASSUME NEW u, Snapshots!Unlink(u, FALSE) PROVE FALSE
    BY <1>1 DEF Snapshots!Unlink, Snapshots!InPurge, SnapshotsInv, SnapshotsType
  <1>2. s = handled["daily"]
    <2>1. CASE Snapshots!PurgeOne
      BY <2>1 DEF Snapshots!PurgeOne, Snapshots!Unlink, SnapshotsInv, SnapshotsType
    <2>2. ASSUME NEW k \in Snapshots!Kinds, Snapshots!Place(k) PROVE FALSE
      BY <2>2 DEF Snapshots!Place, SnapshotsInv, SnapshotsType
    <2>3. CASE UNCHANGED archive
      BY <2>3
    <2>4. ASSUME NEW u, Snapshots!Rot(u) PROVE FALSE
      BY <2>4 DEF Snapshots!Rot
    <2>5. CASE Snapshots!DescribeFails
      BY <1>1, <2>3, <2>5 DEF Snapshots!DescribeFails
    <2>6. ASSUME NEW a, Snapshots!PruneOne(a) PROVE FALSE
      BY <1>1, <2>6 DEF Snapshots!PruneOne
    <2>7. ASSUME NEW u, Snapshots!Delete(u) PROVE FALSE
      BY <1>1, <2>7 DEF Snapshots!Delete
    <2>8. Snapshots!Describe \/ Snapshots!StartPrune \/ Snapshots!StartPurge \/ Snapshots!Look
            \/ Snapshots!PurgeEnds \/ Snapshots!Day
            \/ (\E a \in Snapshots!Actors :
                  Snapshots!PruneEnds(a) \/ Snapshots!DropMeta(a) \/ Snapshots!Die(a))
            \/ UNCHANGED snapshots
          => UNCHANGED archive
      BY DEF Snapshots!Describe, Snapshots!StartPrune, Snapshots!StartPurge, Snapshots!Look,
             Snapshots!PurgeEnds, Snapshots!Day, Snapshots!PruneEnds, Snapshots!DropMeta,
             Snapshots!Die, Snapshots!disk, snapshots
    <2> QED BY <2>1, <2>2, <2>3, <2>4, <2>5, <2>6, <2>7, <2>8 DEF Snapshots!Next
  <1>3. Snapshots!Cardinality(others) >= Snapshots!Spare
    BY <1>2 DEF SnapshotsInv, KeptIsThere
  <1>4. others \subseteq newer
    BY <1>2, HostAssumption DEF SnapshotsInv, SnapshotsType, KeptIsThere, Snapshots!Snapshots
  <1>5. IsFiniteSet(Snapshots!Snapshots)
    BY FS_Interval, HostAssumption DEF Snapshots!Snapshots
  <1>6. IsFiniteSet(newer) /\ IsFiniteSet(others)
    <2>1. newer \subseteq Snapshots!Snapshots
      OBVIOUS
    <2> HIDE DEF newer, others
    <2>2. IsFiniteSet(newer)
      BY <1>5, <2>1, FS_Subset
    <2> QED BY <1>4, <2>2, FS_Subset
  <1> HIDE DEF newer, others
  <1>7. Cardinality(others) <= Cardinality(newer)
    BY <1>4, <1>6, FS_Subset
  <1>8. \A S : Snapshots!Cardinality(S) = Cardinality(S)
    BY DEF Snapshots!Cardinality, Cardinality, Snapshots!IsFiniteSet, IsFiniteSet
  <1>9. Cardinality(others) \in Nat /\ Cardinality(newer) \in Nat
    BY <1>6, FS_CardinalityType
  <1>10. Snapshots!Cardinality(newer) >= Snapshots!Spare
    BY <1>3, <1>7, <1>8, <1>9 DEF Snapshots!Spare
  <1> QED BY <1>10 DEF newer

\* A purge leaves two newer snapshots of the kind that can be restored.
THEOREM TwoAlwaysRemain == Spec => TwoRemain
  <1>1. Init => SnapshotsInv BY PartsStart, SnapshotsInit
  <1>2. SnapshotsInv /\ [Next]_vars => SnapshotsInv' BY OneAtATime, SnapshotsStep
  <1>3. SnapshotsInv /\ [Next]_vars =>
          [\A s \in Snapshots!Snapshots :
              doing["daily"] = "doomed" /\ archive[s] # "none" /\ archive'[s] = "none" /\ s \notin gone'
                => Snapshots!Cardinality({t \in Snapshots!Snapshots :
                                            /\ t > s /\ kind[t] = kind[s]
                                            /\ archive[t] = "sound" \/ t \in gone})
                     >= Snapshots!Spare]_(Snapshots!vars)
    BY OneAtATime, PurgedHasNewer
  <1> QED BY <1>1, <1>2, <1>3, PTL DEF Spec, TwoRemain, Snapshots!TwoRemain
-----------------------------------------------------------------------------
(* Settings.                                                               *)

\* Sources that let a program start give what the modules assume of their constants:
\* one worker or two, a cool-down and a number of restarts above none, files that fit
\* what a prompt may hold, and downloads of which one fits the budget of all.
THEOREM SettingsAreLegal ==
  ASSUME NEW process, NEW dotenv, NEW config, NEW policies,
         Config!Starts(process, dotenv, config, policies)
  PROVE  LET s == Config!Loaded(process, dotenv, config)
             limits == Config!DownloadLimits(s)
         IN /\ s.task_workers \in 1..2
            /\ s.restart_cooldown_seconds \in Nat \ {0} /\ s.max_restarts_per_hour \in 1..10
            /\ {s.attachment_max_count, s.attachment_max_bytes} \subseteq Nat \ {0}
            /\ s.attachment_max_bytes <= s.attachment_max_total_bytes
            /\ {limits.file, limits.total} \subseteq Nat \ {0} /\ limits.file <= limits.total
            /\ limits.ttl \in 1..24
  <1> DEFINE r == Config!Read(process, dotenv, config)
             s == Config!Loaded(process, dotenv, config)
  <1>1. /\ Config!Within(r.task_workers, 1, 8)
        /\ Config!AtLeast(r.restart_cooldown_seconds, 60) /\ Config!Within(r.max_restarts_per_hour, 1, 10)
        /\ Config!AtLeast(r.attachment_max_count, 1) /\ Config!AtLeast(r.attachment_max_bytes, 1)
        /\ r.attachment_max_total_bytes >= r.attachment_max_bytes
        /\ Config!AtLeast(r.max_file_bytes, 1) /\ Config!AtLeast(r.max_total_bytes, 1)
        /\ Config!Within(r.ttl_hours, 1, 8760)
    BY DEF Config!Starts, Config!Accepted, Config!AgentAccepts, Config!WatchdogAccepts,
           Config!TelegramAccepts, Config!DownloadsAccept, Config!Validated
  <1>2. r = [n \in Config!SettingNames |-> r[n]]
    BY DEF Config!Read, Config!Over
  <1>3. "task_workers" \in Config!SettingNames
    BY DEF Config!SettingNames, Config!Defaults
  <1>4. /\ s.task_workers = Config!Least(2, r.task_workers)
        /\ \A n \in Config!SettingNames \ {"task_workers"} : s[n] = r[n]
    BY <1>2, <1>3 DEF Config!Loaded, Config!Capped
  <1>5. {"restart_cooldown_seconds", "max_restarts_per_hour", "attachment_max_count",
         "attachment_max_bytes", "attachment_max_total_bytes", "max_file_bytes",
         "max_total_bytes", "ttl_hours"} \subseteq Config!SettingNames \ {"task_workers"}
    BY DEF Config!SettingNames, Config!Defaults
  <1> HIDE DEF r, s
  <1>6. s.task_workers \in 1..2
    BY <1>1, <1>4 DEF Config!Least, Config!Within, Config!AtLeast
  <1>7. /\ s.restart_cooldown_seconds = r.restart_cooldown_seconds
        /\ s.max_restarts_per_hour = r.max_restarts_per_hour
        /\ s.attachment_max_count = r.attachment_max_count
        /\ s.attachment_max_bytes = r.attachment_max_bytes
        /\ s.attachment_max_total_bytes = r.attachment_max_total_bytes
        /\ s.max_file_bytes = r.max_file_bytes
        /\ s.max_total_bytes = r.max_total_bytes
        /\ s.ttl_hours = r.ttl_hours
    BY <1>4, <1>5
  <1>8. /\ s.restart_cooldown_seconds \in Nat \ {0} /\ s.max_restarts_per_hour \in 1..10
        /\ {s.attachment_max_count, s.attachment_max_bytes} \subseteq Nat \ {0}
        /\ s.attachment_max_bytes <= s.attachment_max_total_bytes
    BY <1>1, <1>7 DEF Config!Within, Config!AtLeast
  <1>9. LET limits == Config!DownloadLimits(s)
        IN /\ {limits.file, limits.total} \subseteq Nat \ {0} /\ limits.file <= limits.total
           /\ limits.ttl \in 1..24
    BY <1>1, <1>7 DEF Config!DownloadLimits, Config!Greatest, Config!Least, Config!Within, Config!AtLeast
  <1> QED BY <1>6, <1>8, <1>9 DEF s

\* A user's policy that can be applied leaves what it may not name as it is, and what it
\* names as the modules assume it.  It may ask for what the start would refuse, a wait of
\* a second for a prompt, and what the start checks of a wait does not hold for it.
THEOREM PoliciesAreLegal ==
  ASSUME NEW s, NEW o,
         Config!Accepted(s), Config!Resolves(s, o)
  PROVE  LET r == Config!Overridden(s, o)
         IN /\ r.task_workers \in 1..2
            /\ {r.attachment_max_count, r.attachment_max_bytes, r.attachment_pending_seconds}
                 \subseteq Nat \ {0}
            /\ r.attachment_max_bytes <= r.attachment_max_total_bytes
            /\ Config!WatchdogAccepts(r) /\ Config!DownloadsAccept(r) /\ Config!OpenCodeAccepts(r)
  <1> DEFINE r == Config!Overridden(s, o)
             merged == Config!Over(o, s)
  <1>1. /\ \A n \in Config!SettingNames : merged[n] = IF n \in DOMAIN o THEN o[n] ELSE s[n]
        /\ merged = [n \in Config!SettingNames |-> merged[n]]
    BY DEF Config!Over
  <1>2. "task_workers" \in Config!SettingNames
    BY DEF Config!SettingNames, Config!Defaults
  <1>3. /\ r.task_workers = Config!Least(2, merged.task_workers)
        /\ \A n \in Config!SettingNames \ {"task_workers"} : r[n] = merged[n]
    BY <1>1, <1>2 DEF Config!Overridden, Config!Capped
  <1> HIDE DEF merged, r
  <1>4. DOMAIN o \subseteq Config!Overridable /\ Config!OverrideParsed(o)
    BY DEF Config!Resolves
  <1>5. Config!Validated(r)
    BY DEF Config!Resolves, r
  <1>6. \A n \in Config!SettingNames \ (Config!Overridable \cup {"task_workers"}) : r[n] = s[n]
    BY <1>1, <1>3, <1>4
  <1>7. {"interval_seconds", "stale_task_seconds", "restart_cooldown_seconds", "max_restarts_per_hour",
         "max_file_bytes", "max_total_bytes", "direct_send_limit", "ttl_hours",
         "cleanup_interval_seconds", "port", "model_sync_seconds", "pin_default_model"}
          \subseteq Config!SettingNames \ (Config!Overridable \cup {"task_workers"})
    BY DEF Config!SettingNames, Config!Defaults, Config!Overridable, Config!Whole, Config!Features
  <1>8. Config!WatchdogAccepts(r) /\ Config!DownloadsAccept(r) /\ Config!OpenCodeAccepts(r)
    BY <1>6, <1>7 DEF Config!Accepted, Config!WatchdogAccepts, Config!DownloadsAccept, Config!OpenCodeAccepts
  <1>9. Config!Whole \subseteq Config!SettingNames
    BY DEF Config!Whole, Config!SettingNames, Config!Defaults
  <1>10. /\ Config!AtLeast(merged.task_workers, 1) /\ Config!AtLeast(merged.attachment_max_count, 1)
         /\ Config!AtLeast(merged.attachment_max_bytes, 1) /\ Config!AtLeast(merged.attachment_pending_seconds, 1)
    <2>1. \A n \in Config!Whole : n \in DOMAIN o => Config!AtLeast(merged[n], 1)
      BY <1>1, <1>4, <1>9 DEF Config!OverrideParsed
    <2>2. /\ Config!AtLeast(s.task_workers, 1) /\ Config!AtLeast(s.attachment_max_count, 1)
          /\ Config!AtLeast(s.attachment_max_bytes, 1) /\ Config!AtLeast(s.attachment_pending_seconds, 1)
      BY DEF Config!Accepted, Config!TelegramAccepts, Config!AgentAccepts, Config!Within, Config!AtLeast
    <2>3. {"task_workers", "attachment_max_count", "attachment_max_bytes", "attachment_pending_seconds"}
            \subseteq Config!Whole
      BY DEF Config!Whole
    <2> QED BY <1>1, <1>9, <2>1, <2>2, <2>3
  <1>11. r.task_workers \in 1..2
    BY <1>3, <1>10 DEF Config!Least, Config!AtLeast
  <1>12. {r.attachment_max_count, r.attachment_max_bytes, r.attachment_pending_seconds} \subseteq Nat \ {0}
    <2>1. {"attachment_max_count", "attachment_max_bytes", "attachment_pending_seconds"}
            \subseteq Config!SettingNames \ {"task_workers"}
      BY DEF Config!SettingNames, Config!Defaults
    <2> QED BY <1>3, <1>10, <2>1 DEF Config!AtLeast
  <1> QED BY <1>5, <1>8, <1>11, <1>12 DEF Config!Validated, r
=============================================================================
