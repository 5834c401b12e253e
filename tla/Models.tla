------------------------------- MODULE Models -------------------------------
(***************************************************************************)
(* Which model answers an owner: the catalogue of free models, the pin an  *)
(* owner sets from the picker (model_selection_service.py), the model      *)
(* saved with the conversation, the sweeps that move conversations to the  *)
(* catalogue's best (model_manager.py, daily_agent_maintenance.py) and the *)
(* choice a turn makes before it is sent (agent_service.py).               *)
(*                                                                         *)
(* A model is a number and 0 is no model.  Calls to the agent and to the   *)
(* settings are awaits: the picker, a turn and a sweep interleave at them. *)
(* The model the agent's server keeps with a session is left out, since    *)
(* every prompt names its model.                                           *)
(***************************************************************************)
EXTENDS Naturals

CONSTANTS
    Owners,
    Catalogs,    \* what the provider may report: functions from models to
                 \* [cost, active, score, levels, image]
    Default,     \* the model the settings name
    PinDefault,  \* whether they pin it as everybody's default
    MaxEvents    \* catalogue changes, refused calls, sweeps and restarts

VARIABLES
    catalog,     \* what the provider reports now
    cache,       \* the catalogue the manager keeps, NoCatalog when too old
    preferred,   \* the manager's default for every conversation
    scouted,     \* the model in agent-scout.json
    pref,        \* the owner's saved choice: model, level, pinned
    session,     \* the model saved with the owner's conversation, 0 without one
    tap,         \* the model a tap is still to apply to the conversation
    sweep,       \* the sweep under way
    turn,        \* the owner's turn: where it is and what it read
    saved,       \* the checkpoint of the owner's open task: its model and pin
    upsets

vars == <<catalog, cache, preferred, scouted, pref, session, tap, sweep, turn, saved, upsets>>

NoCatalog == <<>>
Configured == IF PinDefault THEN Default ELSE 0

Models    == UNION {DOMAIN c : c \in Catalogs}
NoSweep   == [kind |-> "none", model |-> 0, rows |-> {}, busy |-> {}, at |-> {}, passed |-> FALSE]
NoTurn    == [at |-> "idle", model |-> 0, pin |-> 0, again |-> FALSE]
NotSaved  == [model |-> 0, pin |-> 0]
-----------------------------------------------------------------------------
\* Zero cost on every price, and not retired.
Offered(c) == {m \in DOMAIN c : c[m].cost = "zero" /\ c[m].active}

\* The first of two free models in their rank: the stronger, or by name.
Before(c, m, n) == c[m].score > c[n].score \/ (c[m].score = c[n].score /\ m < n)

Strongest(c, models) ==
    LET top == {m \in models : \A n \in models \ {m} : Before(c, m, n)}
    IN  IF top = {} THEN 0 ELSE CHOOSE m \in top : TRUE

Pin(o) == IF pref[o].pinned THEN pref[o].model ELSE 0

Known == IF cache = NoCatalog THEN catalog ELSE cache

\* The manager's default asked before the owner's pin.
PinLast(pin, excluded) ==
    LET fit == Offered(Known) \ excluded
    IN  CASE Configured \in fit -> Configured
          [] Configured \notin fit /\ preferred \in fit -> preferred
          [] {Configured, preferred} \cap fit = {} /\ pin \in fit -> pin
          [] OTHER -> Strongest(Known, fit)

\* The pin of the owner if it is offered, else the configured model, else the
\* manager's default, else the strongest: each only while it is not excluded.
BestAvailable(pin, excluded) ==
    LET fit == Offered(Known) \ excluded
    IN  CASE pin \in fit -> pin
          [] pin \notin fit /\ Configured \in fit -> Configured
          [] {pin, Configured} \cap fit = {} /\ preferred \in fit -> preferred
          [] OTHER -> Strongest(Known, fit)
-----------------------------------------------------------------------------
Init ==
    /\ catalog \in Catalogs
    /\ cache = NoCatalog
    /\ preferred = Configured /\ scouted = 0
    /\ pref = [o \in Owners |-> [model |-> 0, level |-> "none", pinned |-> FALSE]]
    /\ session = [o \in Owners |-> 0]
    /\ tap = [o \in Owners |-> 0]
    /\ sweep = NoSweep
    /\ turn = [o \in Owners |-> NoTurn] /\ saved = [o \in Owners |-> NotSaved]
    /\ upsets = 0

Upset == upsets < MaxEvents /\ upsets' = upsets + 1

\* The provider's catalogue changes.
Change ==
    /\ Upset
    /\ catalog' \in Catalogs \ {catalog}
    /\ UNCHANGED <<cache, preferred, scouted, pref, session, tap, sweep, turn, saved>>

\* The kept catalogue grows older than one interval.
Expire ==
    /\ cache # NoCatalog
    /\ cache' = NoCatalog
    /\ UNCHANGED <<catalog, preferred, scouted, pref, session, tap, sweep, turn, saved, upsets>>
-----------------------------------------------------------------------------
(* The picker.  A button carries the model's position in a list that is     *)
(* fetched again at the tap.                                                *)

Saved(o, m, level, apply) ==
    /\ tap[o] = 0
    /\ pref' = [pref EXCEPT ![o] = [model |-> m, level |-> level, pinned |-> m # 0]]
    /\ tap' = [tap EXCEPT ![o] = apply]
    /\ turn' = [turn EXCEPT ![o].pin = 0]
    /\ sweep' = IF o \in sweep.at THEN [sweep EXCEPT !.passed = TRUE] ELSE sweep
    /\ UNCHANGED <<catalog, cache, preferred, scouted, session, saved, upsets>>

\* The list shows what the provider offers at that moment, whatever is kept.
Shown == Offered(catalog)

\* The level chosen before is kept when the model has it; the conversation is
\* changed only when the saved choice is another model.
SelectModel(o) ==
    \E m \in Shown :
        Saved(o, m, IF pref[o].level \in catalog[m].levels THEN pref[o].level ELSE "none",
              IF pref[o].model = m THEN 0 ELSE m)

SelectVariant(o) ==
    \E m \in Shown : \E level \in catalog[m].levels \cup {"none"} :
        Saved(o, m, level, IF pref[o].model = m THEN 0 ELSE m)

\* The pin is cleared, and the conversation gets the catalogue's strongest.
Auto(o) == Saved(o, 0, "none", Strongest(catalog, Offered(catalog)))

\* What a tap chooses; the other buttons only show a page of the list.
Tap(o) == SelectModel(o) \/ SelectVariant(o) \/ Auto(o)

\* The second half of a tap: the conversation's model, if there is one.
ApplyModel(o) ==
    /\ tap[o] # 0
    /\ \/ /\ session' = IF session[o] = 0 THEN session ELSE [session EXCEPT ![o] = tap[o]]
          /\ UNCHANGED upsets
       \/ session[o] # 0 /\ Upset /\ UNCHANGED session
    /\ tap' = [tap EXCEPT ![o] = 0]
    /\ UNCHANGED <<catalog, cache, preferred, scouted, pref, sweep, turn, saved>>
-----------------------------------------------------------------------------
(* A turn: the conversation's model is read, the best one chosen and saved, *)
(* the model read back, and the prompt sent with it.                        *)

\* pin follows the choice the turn has to respect: the pin at its beginning,
\* forgotten when the owner changes it or when it cannot be had.
EnsureSession(o) ==
    /\ turn[o].at = "idle" /\ saved[o] = NotSaved
    /\ turn' = [turn EXCEPT ![o] = [at |-> "choose", model |-> session[o], pin |-> Pin(o), again |-> FALSE]]
    /\ UNCHANGED <<catalog, cache, preferred, scouted, pref, session, tap, sweep, saved, upsets>>

\* A conversation that does not exist is created with the default model first.
CreateSession(o) ==
    /\ turn[o].at = "choose" /\ turn[o].model = 0
    /\ session' = [session EXCEPT ![o] = Default]
    /\ turn' = [turn EXCEPT ![o].model = Default]
    /\ UNCHANGED <<catalog, cache, preferred, scouted, pref, tap, sweep, saved, upsets>>

\* best_available before a turn; the catalogue is fetched when too old.
Choose(o) ==
    /\ turn[o].at = "choose" /\ turn[o].model # 0
    /\ cache' = Known
    /\ LET best == BestAvailable(Pin(o), {})
           kept == IF turn[o].pin \in Offered(Known) THEN turn[o].pin ELSE 0
       IN  turn' = [turn EXCEPT ![o] =
               IF best \in {0, turn[o].model} THEN [@ EXCEPT !.at = "read", !.pin = kept]
               ELSE [@ EXCEPT !.at = "save", !.model = best, !.pin = kept]]
    /\ UNCHANGED <<catalog, preferred, scouted, pref, session, tap, sweep, saved, upsets>>

SaveModel(o) ==
    /\ turn[o].at = "save"
    /\ session' = [session EXCEPT ![o] = turn[o].model]
    /\ turn' = [turn EXCEPT ![o].at = "read"]
    /\ UNCHANGED <<catalog, cache, preferred, scouted, pref, tap, sweep, saved, upsets>>

\* Any call of the choice may fail: the turn goes on with what is saved.
ChoiceFails(o) ==
    /\ turn[o].at \in {"choose", "save"} /\ turn[o].model # 0
    /\ Upset
    /\ turn' = [turn EXCEPT ![o].at = "read", ![o].pin = 0]
    /\ UNCHANGED <<catalog, cache, preferred, scouted, pref, session, tap, sweep, saved>>

\* The prompt is about to go out: the checkpoint is written first.
Runs(o, m, pin) ==
    /\ turn' = [turn EXCEPT ![o] = [at |-> "run", model |-> m, pin |-> pin, again |-> FALSE]]
    /\ saved' = [saved EXCEPT ![o] = [model |-> m, pin |-> pin]]

\* A task with pictures in it looks for a model that reads them before.
Attached(o, m, pin) ==
    /\ turn' = [turn EXCEPT ![o] = [at |-> "media", model |-> m, pin |-> pin, again |-> FALSE]]
    /\ UNCHANGED saved

CurrentModel(o) ==
    /\ turn[o].at = "read"
    /\ Runs(o, session[o], turn[o].pin) \/ Attached(o, session[o], turn[o].pin)
    /\ UNCHANGED <<catalog, cache, preferred, scouted, pref, session, tap, sweep, upsets>>

\* A task taken up again goes on with the model it was interrupted on.
Resume(o) ==
    /\ turn[o].at = "idle" /\ saved[o] # NotSaved
    /\ Runs(o, saved[o].model, saved[o].pin) \/ Attached(o, saved[o].model, saved[o].pin)
    /\ UNCHANGED <<catalog, cache, preferred, scouted, pref, session, tap, sweep, upsets>>

\* best_available_for_inputs: nobody's pin is asked.
BestForImages ==
    LET fit == {m \in Offered(Known) : Known[m].image}
    IN  CASE Configured \in fit -> Configured
          [] Configured \notin fit /\ preferred \in fit -> preferred
          [] OTHER -> Strongest(Known, fit)

\* The turn's own model is kept when there is none, or the look fails.
MediaModel(o) ==
    /\ turn[o].at = "media"
    /\ \E m \in {turn[o].model, BestForImages} \ {0} :
           Runs(o, m, IF m = turn[o].pin THEN m ELSE 0)
    /\ cache' = Known
    /\ UNCHANGED <<catalog, preferred, scouted, pref, session, tap, sweep, upsets>>

\* The model is refused as unavailable: once, another is chosen, saved and tried.
Fallback(o) ==
    /\ turn[o].at = "run" /\ ~turn[o].again
    /\ Upset
    /\ cache' = Known
    /\ LET best == BestAvailable(Pin(o), {turn[o].model})
       IN  /\ best # 0
           /\ session' = [session EXCEPT ![o] = best]
           /\ turn' = [turn EXCEPT ![o].model = best, ![o].again = TRUE]
    /\ UNCHANGED <<catalog, preferred, scouted, pref, tap, sweep, saved>>

\* The turn ends without an answer, to be taken up again.
Interrupted(o) ==
    /\ turn[o].at = "run" /\ Upset
    /\ turn' = [turn EXCEPT ![o] = NoTurn]
    /\ UNCHANGED <<catalog, cache, preferred, scouted, pref, session, tap, sweep, saved>>

\* The task is over: answered, failed for good or cancelled.
Ended(o) ==
    /\ turn[o].at = "run" \/ (turn[o].at = "idle" /\ saved[o] # NotSaved)
    /\ turn' = [turn EXCEPT ![o] = NoTurn]
    /\ saved' = [saved EXCEPT ![o] = NotSaved]
    /\ UNCHANGED <<catalog, cache, preferred, scouted, pref, session, tap, sweep, upsets>>

-----------------------------------------------------------------------------
(* Sweeps: the bridge's reconciliation and daily scout, and the scout of   *)
(* the nightly maintenance, which is another process.                      *)

\* Only reconciliation leaves alone what the agent says is busy.
Reconcile ==
    /\ sweep.kind = "none" /\ Upset
    /\ cache' = Known
    /\ LET best == BestAvailable(0, {})
       IN  /\ best # 0
           /\ preferred' = best
           /\ sweep' = [NoSweep EXCEPT !.kind = "reconcile", !.model = best,
                                       !.busy = {o \in Owners : turn[o].at = "run"}]
    /\ UNCHANGED <<catalog, scouted, pref, session, tap, turn, saved>>

\* The scout's research, which may fail, names any of the free models; the
\* configured one wins.
Researched(kind) ==
    IF kind = "scout" /\ Configured \in Offered(catalog) THEN {Configured} ELSE Offered(catalog)

Scout(kind) ==
    /\ sweep.kind = "none" /\ Upset
    /\ \E m \in Researched(kind) :
           /\ sweep' = [NoSweep EXCEPT !.kind = kind, !.model = m]
           /\ preferred' = IF kind = "scout" THEN m ELSE preferred
    /\ cache' = IF kind = "scout" THEN catalog ELSE cache
    /\ UNCHANGED <<catalog, scouted, pref, session, tap, turn, saved>>

\* The conversations are listed; a scout first looks the model up again.
ListSessions ==
    /\ sweep.kind # "none" /\ sweep.rows = {} /\ sweep.at = {}
    /\ LET rows == {o \in Owners \ sweep.busy : session[o] \notin {0, sweep.model}}
       IN  sweep' = IF rows = {} \/ (sweep.kind # "reconcile" /\ sweep.model \notin Offered(catalog))
                    THEN NoSweep ELSE [sweep EXCEPT !.rows = rows]
    /\ scouted' = IF sweep.kind # "reconcile" /\ sweep' = NoSweep /\ sweep.model \in Offered(catalog)
                  THEN sweep.model ELSE scouted
    /\ UNCHANGED <<catalog, cache, preferred, pref, session, tap, turn, saved, upsets>>

\* The maintenance process has no reader of pins.
Pinned(o) == sweep.kind # "daily" /\ Pin(o) # 0

Left(s, o, at) == [s EXCEPT !.rows = @ \ {o}, !.at = at, !.passed = FALSE]

\* What ends a sweep: a scout remembers its model for the next start.
Closing(s) ==
    /\ sweep' = IF s.rows = {} /\ s.at = {} THEN NoSweep ELSE s
    /\ scouted' = IF s.rows = {} /\ s.at = {} /\ s.kind # "reconcile" THEN s.model ELSE scouted

\* A sweep that looks at the pins once, when it lists the conversations.
LookedOnce(o) ==
    /\ o \in sweep.rows /\ sweep.at = {}
    /\ Closing(Left(sweep, o, {o}))
    /\ UNCHANGED <<catalog, cache, preferred, pref, session, tap, turn, saved, upsets>>

\* A conversation's turn in the sweep: a pinned owner's is passed over.
LookAtPin(o) ==
    /\ o \in sweep.rows /\ sweep.at = {}
    /\ Closing(Left(sweep, o, IF Pinned(o) THEN {} ELSE {o}))
    /\ UNCHANGED <<catalog, cache, preferred, pref, session, tap, turn, saved, upsets>>

\* The conversation is moved.  The pin the turn follows is given up when the
\* sweep could not know of it: it was set since, or nobody reads pins.
Move(o) ==
    /\ o \in sweep.at
    /\ session' = [session EXCEPT ![o] = sweep.model]
    /\ turn' = IF sweep.passed \/ sweep.kind = "daily" THEN [turn EXCEPT ![o].pin = 0] ELSE turn
    /\ Closing([sweep EXCEPT !.at = {}, !.passed = FALSE])
    /\ UNCHANGED <<catalog, cache, preferred, pref, tap, saved, upsets>>

MoveFails(o) ==
    /\ o \in sweep.at /\ Upset
    /\ Closing([sweep EXCEPT !.at = {}, !.passed = FALSE])
    /\ UNCHANGED <<catalog, cache, preferred, pref, session, tap, turn, saved>>

\* The bridge restarts and takes the scout's model up again if it is offered.
Restart ==
    /\ Upset
    /\ cache' = NoCatalog
    /\ preferred' = IF Configured \notin Offered(catalog) /\ scouted \in Offered(catalog)
                    THEN scouted ELSE Configured
    /\ tap' = [o \in Owners |-> 0]
    /\ turn' = [o \in Owners |-> NoTurn]
    /\ sweep' = IF sweep.kind = "daily" THEN sweep ELSE NoSweep
    /\ UNCHANGED <<catalog, scouted, pref, session, saved>>
-----------------------------------------------------------------------------
OfOwner(o) ==
    \/ Tap(o) \/ ApplyModel(o)
    \/ EnsureSession(o) \/ CreateSession(o) \/ Choose(o) \/ SaveModel(o) \/ ChoiceFails(o)
    \/ CurrentModel(o) \/ Resume(o) \/ MediaModel(o)
    \/ Fallback(o) \/ Interrupted(o) \/ Ended(o)
    \/ LookAtPin(o) \/ Move(o) \/ MoveFails(o)

Next ==
    \/ \E o \in Owners : OfOwner(o)
    \/ Change \/ Expire \/ Reconcile \/ Scout("scout") \/ Scout("daily") \/ ListSessions \/ Restart

Spec == Init /\ [][Next]_vars
-----------------------------------------------------------------------------
\* The catalogue, the conversations and every operation hold what they can hold.
TypeOK ==
    /\ catalog \in Catalogs /\ cache \in Catalogs \cup {NoCatalog}
    /\ {preferred, scouted} \subseteq Models \cup {0}
    /\ session \in [Owners -> Models \cup {0}] /\ tap \in [Owners -> Models \cup {0}]

\* A turn begun under the owner's pin is sent to that model, and one that is taken up
\* again to the model it began with, whatever sweeps, taps, failures, interruptions
\* and restarts came between its choice and its sending: the pin held at the beginning,
\* was offered when the turn chose, was not changed since by the owner before the
\* prompt went out, and was not given up for a model that reads the task's pictures.
\* Two sweeps move a pinned conversation under a turn that has chosen: one that looked
\* at the pin before it was set, and the nightly maintenance, whose manager has no
\* reader of pins although docs/t51-model-picker-ar.md:39 says that both kinds of
\* sweep pass pinned owners over.
TurnOnPin ==
    \A o \in Owners :
        turn[o].at = "run" /\ ~turn[o].again /\ turn[o].pin # 0 => turn[o].model = turn[o].pin
=============================================================================
