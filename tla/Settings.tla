------------------------------ MODULE Settings ------------------------------
(***************************************************************************)
(* What a program of the bridge reads once, when it starts (settings.py):  *)
(* every setting from the first of its sources that has it, refused as a   *)
(* whole when one value is out of its range.  The constants of the other   *)
(* modules are settings read this way.                                     *)
(*                                                                         *)
(* A source is a function from the names of the settings it has to their   *)
(* values.  A value is what the parser makes of it: a number, a boolean, a *)
(* set of users, or something that is none of these.  Texts that must only *)
(* be there (the host, the model, the token, the level of the log) are     *)
(* left out.  Sizes are in megabytes, fractions of a second in hundredths. *)
(***************************************************************************)
EXTENDS Integers

CONSTANTS
    Nobody,     \* no owner is named
    NaN         \* the fraction that every comparison lets pass

Least(a, b)    == IF a < b THEN a ELSE b
Greatest(a, b) == IF a < b THEN b ELSE a
-----------------------------------------------------------------------------
(* Sources.                                                                *)

Defaults ==
    [allowed_users |-> {}, owner_id |-> Nobody,
     attachment_max_bytes |-> 20, attachment_max_count |-> 10, attachment_max_total_bytes |-> 50,
     attachment_pending_seconds |-> 600, media_group_debounce_seconds |-> 125,
     max_file_bytes |-> 8192, max_total_bytes |-> 40960, ttl_hours |-> 24,
     direct_send_limit |-> 50, cleanup_interval_seconds |-> 900,
     port |-> 4096, pin_default_model |-> FALSE, model_sync_seconds |-> 900,
     scout_interval_seconds |-> 8640000, task_workers |-> 2,
     task_poll_seconds |-> 500, worker_recovery_seconds |-> 3000,
     interval_seconds |-> 300, stale_task_seconds |-> 7200,
     restart_cooldown_seconds |-> 300, max_restarts_per_hour |-> 3,
     auto_strongest_free_model |-> TRUE, adaptive_workers |-> TRUE, scout_web_research |-> TRUE]

SettingNames == DOMAIN Defaults

\* What a source has, and the rest from those behind it.
Over(source, rest) == [n \in SettingNames |-> IF n \in DOMAIN source THEN source[n] ELSE rest[n]]

\* The process's environment comes before the .env file, both before the
\* configuration file.
Read(process, dotenv, file) == Over(process, Over(dotenv, Over(file, Defaults)))

\* Only the configuration file must know what it names.
KeysKnown(file) == DOMAIN file \subseteq SettingNames
-----------------------------------------------------------------------------
(* Ranges.                                                                 *)

AtLeast(v, low)      == v \in Int /\ v >= low
Within(v, low, high) == AtLeast(v, low) /\ v <= high

\* A float is compared with its bounds, and NaN is on no side of them.
Fraction(v, low, high) == v = NaN \/ Within(v, low, high)

TelegramAccepts(s) ==
    /\ s.allowed_users \subseteq Int
    /\ s.owner_id # Nobody => AtLeast(s.owner_id, 1) /\ s.owner_id \in s.allowed_users
    /\ \A n \in {"attachment_max_bytes", "attachment_max_count", "attachment_max_total_bytes"} :
           AtLeast(s[n], 1)
    /\ AtLeast(s.attachment_pending_seconds, 60)
    /\ Fraction(s.media_group_debounce_seconds, 25, 500)

OpenCodeAccepts(s) ==
    /\ Within(s.port, 1, 65535)
    /\ AtLeast(s.model_sync_seconds, 60)
    /\ s.pin_default_model \in BOOLEAN

AgentAccepts(s) ==
    /\ s.scout_interval_seconds = NaN \/ AtLeast(s.scout_interval_seconds, 360000)
    /\ Within(s.task_workers, 1, 8)
    /\ Fraction(s.task_poll_seconds, 50, 6000)
    /\ Fraction(s.worker_recovery_seconds, 100, 60000)

WatchdogAccepts(s) ==
    /\ AtLeast(s.interval_seconds, 60) /\ AtLeast(s.stale_task_seconds, 300)
    /\ AtLeast(s.restart_cooldown_seconds, 60)
    /\ Within(s.max_restarts_per_hour, 1, 10)

Features == {"auto_strongest_free_model", "adaptive_workers", "scout_web_research"}

FeaturesAccept(s) == \A n \in Features : s[n] \in BOOLEAN

DownloadsAccept(s) ==
    /\ \A n \in {"max_file_bytes", "max_total_bytes", "direct_send_limit"} : AtLeast(s[n], 1)
    /\ Within(s.ttl_hours, 1, 8760)
    /\ AtLeast(s.cleanup_interval_seconds, 60)

\* The limits of a prompt's files together leave room for the largest one.
Validated(s) == s.attachment_max_total_bytes >= s.attachment_max_bytes

Accepted(s) ==
    /\ TelegramAccepts(s) /\ OpenCodeAccepts(s) /\ AgentAccepts(s) /\ WatchdogAccepts(s)
    /\ FeaturesAccept(s) /\ DownloadsAccept(s) /\ Validated(s)
-----------------------------------------------------------------------------
(* The policies of single users, which the configuration file holds too.   *)

Whole == {"attachment_max_bytes", "attachment_max_count", "attachment_max_total_bytes",
          "attachment_pending_seconds", "task_workers"}

Overridable == Whole \cup {"task_poll_seconds"} \cup Features

OverrideParsed(o) ==
    \A n \in DOMAIN o :
        /\ n \in Whole => AtLeast(o[n], 1)
        /\ n = "task_poll_seconds" => Fraction(o[n], 50, 6000)
        /\ n \in Features => o[n] \in BOOLEAN

\* Whatever is asked for, two workers are the most.
Capped(s) == [s EXCEPT !.task_workers = Least(2, @)]

\* A user's policy over the settings of all.
Overridden(s, o) == Capped(Over(o, s))

\* The policy is one that can be applied.  When the program starts its names are
\* looked at, its values when it is applied.
Resolves(s, o) == DOMAIN o \subseteq Overridable /\ OverrideParsed(o) /\ Validated(Overridden(s, o))
-----------------------------------------------------------------------------
(* What is used of them.                                                   *)

\* The program starts on these sources, with these settings.
Starts(process, dotenv, file, policies) ==
    /\ KeysKnown(file)
    /\ Accepted(Read(process, dotenv, file))
    /\ \A u \in DOMAIN policies : DOMAIN policies[u] \subseteq Overridable

Loaded(process, dotenv, file) == Capped(Read(process, dotenv, file))

\* Nothing compares the two limits of the downloads: the service does.
DownloadLimits(s) ==
    LET total == Greatest(1, Least(40960, s.max_total_bytes))
    IN [total |-> total, file |-> Greatest(1, Least(total, s.max_file_bytes)),
        ttl |-> Greatest(1, Least(24, s.ttl_hours)), direct |-> Greatest(1, s.direct_send_limit)]

\* The default model is kept only where the strongest free one is not looked for.
Pinned(s) == s.pin_default_model /\ ~s.auto_strongest_free_model
=============================================================================
