----------------------------- MODULE Credentials -----------------------------
(***************************************************************************)
(* The keys a request to a provider runs under: the owner's key inventory  *)
(* with its rotation (provider_keys.py), the fallbacks of one prompt       *)
(* (agent_service.py).                                                     *)
(*                                                                         *)
(* The inventory's sections run under an asyncio lock; the only await in   *)
(* them is the PUT that hands a key to the agent server, so activating and *)
(* rotating are three steps: lock and read, the server takes the key, save.*)
(* The inventory keeps the HTTP client bot.py makes.  run_v3 gives the     *)
(* agent another client and closes that one (workspace_runtime.install):   *)
(* every PUT then raises.  Where bot.py is run by itself it stays open.    *)
(***************************************************************************)
EXTENDS Naturals, Sequences, SequencesExt

CONSTANTS
    Keys,       \* labels of one provider's keys
    Requests,   \* tasks whose prompts are under way
    Carried,    \* what prompts carry: a reasoning variant, attached parts
    MaxUpsets   \* bound on lost requests, failed saves and restarts

None == "none"

VARIABLES
    keys,     \* the stored keys, oldest first
    active,   \* the one the file calls active
    auto,     \* rotate on a refusal
    server,   \* the one the agent server uses
    lock,     \* who is inside the inventory, for which key, and past the PUT or not
    closed,   \* whether the inventory's HTTP client is closed
    prompt,   \* per request: the send it is at and what it still carries
    spent,    \* keys the provider refuses
    upsets

inventory == <<keys, active, auto, server, lock, closed>>
vars      == <<inventory, prompt, spent, upsets>>

Free == [by |-> None, key |-> None, put |-> FALSE]

\* "send": the first try; "refused": 401 or 429, to be rotated; "again": sent
\* after a rotation; "plain": without the variant; "bare": without the parts.
Sends == {"send", "again", "plain", "bare"}

Idle == [at |-> "idle", with |-> {}, first |-> TRUE, under |-> None]

\* Nothing is stored, or an earlier process activated the one key there is.
Init ==
    /\ auto = FALSE /\ closed \in BOOLEAN
    /\ \/ keys = <<>> /\ active = None /\ server = None
       \/ \E k \in Keys : keys = <<k>> /\ active = k /\ server = k
    /\ lock = Free
    /\ prompt = [r \in Requests |-> Idle]
    /\ spent = {}
    /\ upsets = 0

-----------------------------------------------------------------------------
(* The key inventory.                                                      *)

Unlocked == lock = Free

Add(k) ==
    /\ Unlocked /\ ~Contains(keys, k)
    /\ keys' = Append(keys, k)
    /\ UNCHANGED <<active, auto, server, lock, closed, prompt, spent, upsets>>

\* Fault: a removal does not wait for the lock.
RemoveKeyUnlocked(k) ==
    /\ active # k
    /\ \E i \in DOMAIN keys : keys[i] = k /\ keys' = RemoveAt(keys, i)
    /\ auto' = (auto /\ keys' # <<>>) /\ active' = IF keys' = <<>> THEN None ELSE active
    /\ UNCHANGED <<server, lock, closed, prompt, spent, upsets>>

\* The active key cannot be removed; with the last key its provider's entry goes.
RemoveKey(k) ==
    /\ Unlocked /\ active # k
    /\ \E i \in DOMAIN keys : keys[i] = k /\ keys' = RemoveAt(keys, i)
    /\ auto' = (auto /\ keys' # <<>>) /\ active' = IF keys' = <<>> THEN None ELSE active
    /\ UNCHANGED <<server, lock, closed, prompt, spent, upsets>>

ToggleAuto ==
    /\ Unlocked /\ keys # <<>>
    /\ auto' = ~auto
    /\ UNCHANGED <<keys, active, server, lock, closed, prompt, spent, upsets>>

Activate(k) ==
    /\ Unlocked /\ Contains(keys, k)
    /\ lock' = [by |-> "owner", key |-> k, put |-> FALSE]
    /\ UNCHANGED <<keys, active, auto, server, closed, prompt, spent, upsets>>

NextKey ==
    IF Contains(keys, active)
      THEN keys[((CHOOSE i \in DOMAIN keys : keys[i] = active) % Len(keys)) + 1]
      ELSE keys[1]

\* The prompt's exception reaches send_prompt_with_fallback.
Fails(r) == prompt' = [prompt EXCEPT ![r] = Idle]

Resent(r) == [prompt EXCEPT ![r].at = "again", ![r].under = None]

\* The first model's 400, 404 or 422, the inventory's PUT included, sends to another.
OtherModel(r) ==
    /\ prompt[r].first
    /\ prompt' = [prompt EXCEPT ![r].at = "send", ![r].first = FALSE, ![r].under = None]

\* rotate_on_error looks at the file, not at the key that was refused.
Rotate(r) ==
    /\ Unlocked /\ prompt[r].at = "refused"
    /\ IF auto /\ Len(keys) >= 2
         THEN /\ lock' = [by |-> r, key |-> NextKey, put |-> FALSE]
              /\ UNCHANGED prompt
         ELSE Fails(r) /\ UNCHANGED lock
    /\ UNCHANGED <<keys, active, auto, server, closed, spent, upsets>>

Put ==
    /\ ~Unlocked /\ ~lock.put /\ ~closed
    /\ server' = lock.key
    /\ lock' = [lock EXCEPT !.put = TRUE]
    /\ UNCHANGED <<keys, active, auto, closed, prompt, spent, upsets>>

\* The selection is saved only after the server has accepted the key.
Save ==
    /\ lock.put
    /\ active' = lock.key /\ lock' = Free
    /\ prompt' = IF lock.by = "owner" THEN prompt ELSE Resent(lock.by)
    /\ UNCHANGED <<keys, auto, server, closed, spent, upsets>>

\* The client is closed, the PUT refused or its answer lost, or the file cannot
\* be written.
KeyFails ==
    /\ ~Unlocked
    /\ \/ closed /\ ~lock.put /\ UNCHANGED upsets
       \/ ~closed /\ upsets < MaxUpsets /\ upsets' = upsets + 1
    /\ lock' = Free
    /\ \/ lock.by = "owner" /\ UNCHANGED prompt
       \/ lock.by # "owner" /\ Fails(lock.by)
       \/ lock.by # "owner" /\ ~closed /\ ~lock.put /\ OtherModel(lock.by)
    /\ UNCHANGED <<keys, active, auto, server, closed, spent>>

-----------------------------------------------------------------------------
(* One prompt and its fallbacks.                                           *)

Start(r, with) ==
    /\ prompt[r].at = "idle"
    /\ prompt' = [prompt EXCEPT ![r] = [Idle EXCEPT !.at = "send", !.with = with]]
    /\ UNCHANGED <<inventory, spent, upsets>>

Sending(r) == prompt[r].at \in Sends

Accepted(r) ==
    /\ Sending(r) /\ server \notin spent
    /\ Fails(r)
    /\ UNCHANGED <<inventory, spent, upsets>>

\* 401 or 429.  Only the first try of a model asks for another key.
Unauthorised(r) ==
    /\ Sending(r) /\ server \in spent
    /\ IF prompt[r].at = "send"
         THEN prompt' = [prompt EXCEPT ![r].at = "refused", ![r].under = server]
         ELSE Fails(r)
    /\ UNCHANGED <<inventory, spent, upsets>>

\* What a refusal leads to: "invalid" is 400 or 422, "missing" 404, "large" 413
\* or 415.  The variant goes first, then the parts, then the model.
Refusals == {"invalid", "missing", "large", "other"}

DropsVariant(p, why) == p.at = "send" /\ "variant" \in p.with /\ why \in {"invalid", "missing"}
DropsParts(p, why)   == p.at \in {"send", "plain"} /\ "parts" \in p.with /\ why \in {"invalid", "large"}
DropsModel(why)      == why \in {"invalid", "missing"}

Refused(r, why) ==
    /\ Sending(r) /\ server \notin spent
    /\ LET p == prompt[r]
       IN \/ /\ DropsVariant(p, why)
             /\ prompt' = [prompt EXCEPT ![r].at = "plain"]
          \/ /\ ~DropsVariant(p, why) /\ DropsParts(p, why)
             /\ prompt' = [prompt EXCEPT ![r].at = "bare"]
          \/ /\ ~DropsVariant(p, why) /\ ~DropsParts(p, why)
             /\ DropsModel(why) /\ OtherModel(r)
          \/ /\ ~DropsVariant(p, why) /\ ~DropsParts(p, why)
             /\ Fails(r)   \* also where no other model is to be had
    /\ UNCHANGED <<inventory, spent, upsets>>

\* A key's quota ends, or is renewed.
QuotaChanges(k) ==
    /\ spent' = IF k \in spent THEN spent \ {k} ELSE spent \cup {k}
    /\ UNCHANGED <<inventory, prompt, upsets>>

-----------------------------------------------------------------------------
\* The bot restarts and reads the inventory from its file.
Restart ==
    /\ upsets < MaxUpsets /\ upsets' = upsets + 1
    /\ lock' = Free /\ prompt' = [r \in Requests |-> Idle]
    /\ UNCHANGED <<keys, active, auto, server, closed, spent>>

Next ==
    \/ \E k \in Keys : Add(k) \/ RemoveKey(k) \/ Activate(k) \/ QuotaChanges(k)
    \/ ToggleAuto \/ Put \/ Save \/ KeyFails
    \/ \E r \in Requests :
         \/ Rotate(r) \/ Accepted(r) \/ Unauthorised(r)
         \/ \E with \in Carried : Start(r, with)
         \/ \E why \in Refusals : Refused(r, why)
    \/ Restart

Spec == Init /\ [][Next]_vars
-----------------------------------------------------------------------------
(* Properties.                                                             *)

\* The variables hold what they can hold.
TypeOK ==
    /\ keys \in [1..Len(keys) -> Keys] /\ IsInjective(keys)
    /\ {active, server} \subseteq Keys \cup {None} /\ auto \in BOOLEAN
    /\ closed \in BOOLEAN
    /\ lock \in [by : Requests \cup {"owner", None}, key : Keys \cup {None}, put : BOOLEAN]
    /\ \A r \in Requests : prompt[r].at \in Sends \cup {"idle", "refused"}
    /\ spent \subseteq Keys
    /\ upsets \in 0..MaxUpsets

\* The key the file calls active is stored and is the one the agent server uses,
\* whichever owner's commands and rotations interleave, until a PUT, a save or
\* the bot fails.  With the client closed, as under run_v3, nothing is activated
\* or rotated: the file keeps naming the key an earlier process activated.
KeyInUse ==
    (Unlocked /\ active # None /\ upsets = 0) => Contains(keys, active) /\ server = active

=============================================================================
