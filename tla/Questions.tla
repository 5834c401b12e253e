------------------------------ MODULE Questions ------------------------------
(***************************************************************************)
(* The agent asks the owner: questions with options, and permissions       *)
(* (telegram/interactions.py, callbacks/interactions.py).  The card is in  *)
(* Telegram, what was tapped is in the process, what was asked is in the   *)
(* agent's server; each can go without the others.                         *)
(***************************************************************************)
EXTENDS Naturals

CONSTANTS
    Asked,      \* numbers of the questions on a card, from 1
    Multiple,   \* those that take several labels
    Labels,
    MaxUpsets   \* bound on lost requests, restarts and questions given up

VARIABLES
    agent,      \* what the agent does about its question
    got,        \* the answer it was given to every question
    card,       \* the card in the chat
    known,      \* whether the registry knows the card
    chosen,     \* the labels tapped, kept in the registry
    typing,     \* awaiting_text
    permission, \* what the agent does about its permission request
    decided,    \* what the permission's card says
    upsets

question == <<agent, got, card, known, chosen, typing>>
vars == <<question, permission, decided, upsets>>

Text      == "the typed answer"
Decisions == {"once", "always", "reject"}
NoTaps    == [q \in Asked |-> {}]

Init ==
    /\ agent = "working" /\ got = NoTaps
    /\ card = "none" /\ known = FALSE /\ chosen = NoTaps /\ typing = FALSE
    /\ permission = "none" /\ decided = "none"
    /\ upsets = 0

Upset == upsets < MaxUpsets /\ upsets' = upsets + 1

-----------------------------------------------------------------------------
(* The question's way to the owner.                                        *)

Ask ==
    /\ agent = "working" /\ agent' = "asking"
    /\ UNCHANGED <<got, card, known, chosen, typing, permission, decided, upsets>>

\* The card is posted first and remembered when Telegram has answered; a card that
\* could not be posted is not tried again.
Post ==
    /\ agent # "working" /\ card = "none"
    /\ card' = "posted"
    /\ UNCHANGED <<agent, got, known, chosen, typing, permission, decided, upsets>>

Remember ==
    /\ card \in {"posted", "stale early"} /\ ~known
    /\ known' = TRUE /\ chosen' = NoTaps /\ typing' = FALSE
    /\ card' = IF card = "posted" THEN "open" ELSE "stale"
    /\ UNCHANGED <<agent, got, permission, decided, upsets>>

Tappable == card \in {"posted", "open", "typed"}

\* The registry does not know the card: its buttons go.
Stale ==
    /\ Tappable /\ ~known
    /\ card' = IF card = "posted" THEN "stale early" ELSE "stale"
    /\ UNCHANGED <<agent, got, known, chosen, typing, permission, decided, upsets>>

-----------------------------------------------------------------------------
(* Answers.                                                                *)

Open(taps) == {q \in Asked : taps[q] = {}}

\* PendingQuestion.answers: all questions or none.
Complete(taps) == Open(taps) = {}

\* reply_question: accepted while the agent waits, refused once it does not; lost
\* on the way, it may have been accepted, and nothing on this side changes.
Accepted(answers) == agent = "asking" /\ agent' = "answered" /\ got' = answers

\* Fault: a refusal is not told apart from an acceptance.
SendUnchecked(answers, taps, shows) ==
    /\ Accepted(answers) \/ (agent # "asking" /\ UNCHANGED <<agent, got>>)
    /\ known' = FALSE /\ chosen' = taps /\ card' = shows
    /\ UNCHANGED upsets

Send(answers, taps, shows) ==
    \/ /\ Accepted(answers)
       /\ known' = FALSE /\ chosen' = taps /\ card' = shows
       /\ UNCHANGED upsets
    \/ /\ agent # "asking" /\ UNCHANGED <<agent, got, known, upsets>>
       /\ chosen' = taps /\ card' = IF shows = "typed" THEN card ELSE "stale"
    \/ /\ Upset /\ (Accepted(answers) \/ UNCHANGED <<agent, got>>)
       /\ chosen' = taps /\ UNCHANGED <<card, known>>

Tapped(q, l) ==
    [chosen EXCEPT ![q] = IF q \notin Multiple THEN {l} ELSE IF l \in @ THEN @ \ {l} ELSE @ \cup {l}]

\* _toggle_option: a card without multiple questions submits itself.
Tap(q, l) ==
    /\ card = "open" /\ known
    /\ IF ~typing /\ Multiple = {} /\ Complete(Tapped(q, l))
         THEN Send(Tapped(q, l), Tapped(q, l), "answered")
         ELSE chosen' = Tapped(q, l) /\ UNCHANGED <<agent, got, card, known, upsets>>
    /\ UNCHANGED <<typing, permission, decided>>

Confirm ==
    /\ card = "open" /\ known /\ Multiple # {} /\ Complete(chosen)
    /\ Send(chosen, chosen, "answered")
    /\ UNCHANGED <<typing, permission, decided>>

ToggleText ==
    /\ card = "open" /\ known
    /\ typing' = ~typing
    /\ UNCHANGED <<agent, got, card, known, chosen, permission, decided, upsets>>

\* _first_open_index, or the first question.
Target == LET open == Open(chosen)
          IN IF open = {} THEN 1 ELSE CHOOSE q \in open : \A p \in open : q <= p

\* _answers_with: the taps, when they are complete without the text.
WithText ==
    [(IF Complete(chosen) THEN chosen ELSE NoTaps) EXCEPT ![Target] = {Text}]

\* A reply to the card, which keeps its buttons.
Reply ==
    /\ card \in {"open", "stale"} /\ known
    /\ Send(WithText, chosen, "typed")
    /\ UNCHANGED <<typing, permission, decided>>

\* The question is forgotten whether the agent still waited or not.
Reject ==
    /\ card = "open" /\ known
    /\ \/ /\ agent = "asking" /\ agent' = "rejected" /\ card' = "rejected"
          /\ known' = FALSE /\ UNCHANGED upsets
       \/ /\ agent # "asking" /\ card' = "stale"
          /\ known' = FALSE /\ UNCHANGED <<agent, upsets>>
       \/ /\ Upset /\ UNCHANGED <<card, known>>
          /\ agent' \in {agent, IF agent = "asking" THEN "rejected" ELSE agent}
    /\ UNCHANGED <<got, chosen, typing, permission, decided>>

-----------------------------------------------------------------------------
(* Permissions: the card carries all that is needed.                       *)

AskPermission ==
    /\ permission = "none" /\ permission' = "asking"
    /\ UNCHANGED <<question, decided, upsets>>

Decide(d) ==
    /\ permission # "none" /\ decided = "none"
    /\ \/ permission = "asking" /\ permission' = d /\ decided' = d /\ UNCHANGED upsets
       \/ permission # "asking" /\ decided' = "stale" /\ UNCHANGED <<permission, upsets>>
       \/ /\ Upset /\ UNCHANGED decided
          /\ permission' \in {permission, IF permission = "asking" THEN d ELSE permission}
    /\ UNCHANGED question

-----------------------------------------------------------------------------
\* The agent's own deadline, or its session is aborted.
GiveUp ==
    /\ Upset
    /\ agent' = IF agent = "asking" THEN "gone" ELSE agent
    /\ permission' = IF permission = "asking" THEN "gone" ELSE permission
    /\ UNCHANGED <<got, card, known, chosen, typing, decided>>

\* After an hour the registry forgets; after a restart it knows nothing.
Forget ==
    /\ known \/ card \in {"posted", "stale early"}
    /\ Upset /\ known' = FALSE
    /\ card' = CASE card = "posted" -> "open" [] card = "stale early" -> "stale" [] OTHER -> card
    /\ UNCHANGED <<agent, got, chosen, typing, permission, decided>>

Next ==
    \/ Ask \/ Post \/ Remember \/ Stale
    \/ \E q \in Asked, l \in Labels : Tap(q, l)
    \/ Confirm \/ ToggleText \/ Reply \/ Reject
    \/ AskPermission \/ \E d \in Decisions : Decide(d)
    \/ GiveUp \/ Forget

Spec == Init /\ [][Next]_vars
-----------------------------------------------------------------------------
(* Properties.                                                             *)

\* The variables hold what they can hold.
TypeOK ==
    /\ agent \in {"working", "asking", "answered", "rejected", "gone"}
    /\ got \in [Asked -> SUBSET (Labels \cup {Text})]
    /\ card \in {"none", "posted", "open", "stale early", "stale", "answered", "typed", "rejected"}
    /\ known \in BOOLEAN /\ chosen \in [Asked -> SUBSET Labels] /\ typing \in BOOLEAN
    /\ permission \in Decisions \cup {"none", "asking", "gone"}
    /\ decided \in Decisions \cup {"none", "stale"}
    /\ upsets \in 0..MaxUpsets

\* A card that says it was answered says so truly: the agent has exactly the taps
\* of every question, a rejection when it says so, the decision it names.
CardsTellTrue ==
    /\ card = "answered" => agent = "answered" /\ got = chosen /\ Complete(got)
    /\ card = "rejected" => agent = "rejected"
    /\ decided \in Decisions => permission = decided

=============================================================================
