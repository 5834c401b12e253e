------------------------------ MODULE Backups ------------------------------
(***************************************************************************)
(* The local snapshots of the database (admin_backups.py): made and        *)
(* deleted by the panel, pruned by age by the bot after each creation and  *)
(* by the daily maintenance, and purged by the maintenance, which runs in  *)
(* a process of its own, after a verified update (daily-maintenance.sh).   *)
(*                                                                         *)
(* A snapshot is a file and its metadata, written and removed in two       *)
(* steps, and either process may die between them.  Names carry the moment *)
(* of creation, so that snapshots are numbered in the order of their names.*)
(***************************************************************************)
EXTENDS Integers, FiniteSets

CONSTANTS
    MaxMade,     \* bound on the snapshots made
    Retention,   \* RETENTION_DAYS
    MaxStops,    \* bound on deaths of either process
    MaxRots      \* bound on files that become unreadable

Shown == 30      \* what list returns at most
Spare == 2       \* usable snapshots of each kind that a purge leaves

Snapshots == 1..MaxMade
Kinds == {"database", "encrypted"}
Actors == {"bot", "daily"}

VARIABLES
    file,    \* of each snapshot: "none", "sound" or "rotten"
    meta,    \* whether its .json is there
    kind, age,
    made,
    op,      \* where each process is
    at,      \* the snapshot it is dealing with
    todo,    \* those it has listed and not looked at
    kept,    \* those this purge found usable
    gone,    \* ghost: removed by others or by age since this purge began
    stops, rots

disk  == <<file, meta>>
local == <<op, at, todo>>
purge == <<kept, gone>>
vars  == <<disk, kind, age, made, local, purge, stops, rots>>

InPurge == {"purging", "doomed", "purged"}

Init ==
    /\ file = [s \in Snapshots |-> "none"] /\ meta = [s \in Snapshots |-> FALSE]
    /\ kind = [s \in Snapshots |-> "database"] /\ age = [s \in Snapshots |-> 0]
    /\ made = 0
    /\ op = [a \in Actors |-> "idle"] /\ at = [a \in Actors |-> 0]
    /\ todo = [a \in Actors |-> {}]
    /\ kept = {} /\ gone = {} /\ stops = 0 /\ rots = 0

Goes(a, point, s, left) ==
    /\ op' = [op EXCEPT ![a] = point]
    /\ at' = [at EXCEPT ![a] = s]
    /\ todo' = [todo EXCEPT ![a] = left]

\* A file goes, by the hand of the purge that is under way or by another's.
Unlink(s, byPurge) ==
    /\ file' = [file EXCEPT ![s] = "none"]
    /\ age' = [age EXCEPT ![s] = 0]
    /\ gone' = IF byPurge \/ op["daily"] \notin InPurge THEN gone ELSE gone \cup {s}

-----------------------------------------------------------------------------
(* Creation, by the panel under the lock.                                  *)

\* The snapshot is built aside and moved to its name.
Place(k) ==
    /\ op["bot"] = "idle" /\ made < MaxMade
    /\ made' = made + 1
    /\ file' = [file EXCEPT ![made'] = "sound"]
    /\ kind' = [kind EXCEPT ![made'] = k]
    /\ Goes("bot", "placed", made', {})
    /\ UNCHANGED <<meta, age, purge, stops, rots>>

\* Old is what metadata, or else the file, says was made before the cutoff.
Overdue == {s \in Snapshots : file[s] # "none" /\ age[s] >= Retention}

Describe ==
    /\ op["bot"] = "placed"
    /\ meta' = [meta EXCEPT ![at["bot"]] = TRUE]
    /\ Goes("bot", "pruning", 0, Overdue)
    /\ UNCHANGED <<file, kind, age, made, purge, stops, rots>>

\* Without its metadata an encrypted snapshot is taken back, another stays.
DescribeFails ==
    /\ op["bot"] = "placed"
    /\ IF kind[at["bot"]] = "encrypted" THEN Unlink(at["bot"], FALSE) ELSE UNCHANGED <<file, age, gone>>
    /\ Goes("bot", "idle", 0, {})
    /\ UNCHANGED <<meta, kind, made, kept, stops, rots>>

-----------------------------------------------------------------------------
(* Removal.                                                                *)

StartPrune ==
    /\ op["daily"] = "idle"
    /\ Goes("daily", "pruning", 0, Overdue)
    /\ UNCHANGED <<disk, kind, age, made, purge, stops, rots>>

\* One that another process has removed, or that cannot be removed, is passed over.
PruneOne(a) ==
    /\ op[a] = "pruning"
    /\ \E s \in todo[a] :
         \/ /\ file[s] # "none"
            /\ Unlink(s, FALSE) /\ Goes(a, "pruned", s, todo[a] \ {s})
         \/ /\ Goes(a, "pruning", 0, todo[a] \ {s})
            /\ UNCHANGED <<file, age, gone>>
    /\ UNCHANGED <<meta, kind, made, kept, stops, rots>>

PruneEnds(a) ==
    /\ op[a] = "pruning" /\ todo[a] = {}
    /\ Goes(a, "idle", 0, {})
    /\ UNCHANGED <<disk, kind, age, made, purge, stops, rots>>

\* list: what has readable metadata, the newest first.
Described == {s \in Snapshots : file[s] # "none" /\ meta[s]}
Listed == {s \in Described : Cardinality({t \in Described : t > s}) < Shown}

\* The owner confirmed the deletion of an entry.
Delete(s) ==
    /\ op["bot"] = "idle" /\ s \in Listed
    /\ Unlink(s, FALSE) /\ Goes("bot", "deleted", s, {})
    /\ UNCHANGED <<meta, kind, made, kept, stops, rots>>

\* The metadata goes after the file.
After == [pruned |-> "pruning", deleted |-> "idle", purged |-> "purging"]

DropMeta(a) ==
    /\ op[a] \in DOMAIN After
    /\ meta' = [meta EXCEPT ![at[a]] = FALSE]
    /\ Goes(a, After[op[a]], 0, todo[a])
    /\ UNCHANGED <<file, kind, age, made, purge, stops, rots>>

-----------------------------------------------------------------------------
(* The purge after a verified update.                                      *)

StartPurge ==
    /\ op["daily"] = "idle"
    /\ Goes("daily", "purging", 0, Listed)
    /\ UNCHANGED <<disk, kind, age, made, purge, stops, rots>>

\* Fault: what is listed counts, whether or not it can be read.
UsableIfThere(s) == file[s] # "none"

\* The checksum and the integrity of the file.
Usable(s) == file[s] = "sound"

LeavePurge == Goes("daily", "idle", 0, {}) /\ kept' = {} /\ gone' = {}

Purging == op["daily"] = "purging"

\* The newest that is left: of no use, one of the two to keep, or one too many.
Look ==
    /\ Purging
    /\ \E s \in todo["daily"] :
       LET rest == todo["daily"] \ {s}
           enough == Cardinality({t \in kept : kind[t] = kind[s]}) >= Spare
       IN  /\ \A t \in rest : t < s
           /\ Goes("daily", IF Usable(s) /\ enough THEN "doomed" ELSE "purging",
                   IF Usable(s) /\ enough THEN s ELSE 0, rest)
           /\ kept' = IF Usable(s) /\ ~enough THEN kept \cup {s} ELSE kept
    /\ UNCHANGED <<disk, kind, age, made, gone, stops, rots>>

\* One that the bot removed meanwhile ends the purge with an error.
PurgeOne ==
    /\ op["daily"] = "doomed"
    /\ LET s == at["daily"]
       IN  \/ /\ file[s] # "none"
              /\ Unlink(s, TRUE) /\ Goes("daily", "purged", s, todo["daily"])
              /\ UNCHANGED kept
           \/ file[s] = "none" /\ LeavePurge /\ UNCHANGED <<file, age>>
    /\ UNCHANGED <<meta, kind, made, stops, rots>>

PurgeEnds ==
    /\ Purging /\ todo["daily"] = {} /\ LeavePurge
    /\ UNCHANGED <<disk, kind, age, made, stops, rots>>

-----------------------------------------------------------------------------
(* Time and faults.                                                        *)

Day ==
    /\ age' = [s \in Snapshots |->
                 IF file[s] # "none" /\ age[s] < Retention THEN age[s] + 1 ELSE age[s]]
    /\ age' # age
    /\ UNCHANGED <<disk, kind, made, local, purge, stops, rots>>

\* A file goes bad, but not between a purge's look at it and the purge's end.
Rot(s) ==
    /\ op["daily"] = "idle" /\ rots < MaxRots
    /\ file[s] = "sound"
    /\ file' = [file EXCEPT ![s] = "rotten"] /\ rots' = rots + 1
    /\ UNCHANGED <<meta, kind, age, made, local, purge, stops>>

Die(a) ==
    /\ op[a] # "idle" /\ stops < MaxStops
    /\ IF a = "daily" THEN LeavePurge ELSE Goes("bot", "idle", 0, {}) /\ UNCHANGED purge
    /\ stops' = stops + 1
    /\ UNCHANGED <<disk, kind, age, made, rots>>

Next ==
    \/ \E k \in Kinds : Place(k)
    \/ Describe \/ DescribeFails
    \/ StartPrune \/ StartPurge \/ Look \/ PurgeOne \/ PurgeEnds
    \/ \E a \in Actors : PruneOne(a) \/ PruneEnds(a) \/ DropMeta(a) \/ Die(a)
    \/ \E s \in Snapshots : Delete(s) \/ Rot(s)
    \/ Day

Spec == Init /\ [][Next]_vars
-----------------------------------------------------------------------------
(* Properties.                                                             *)

TypeOK ==
    /\ file \in [Snapshots -> {"none", "sound", "rotten"}]
    /\ meta \in [Snapshots -> BOOLEAN] /\ kind \in [Snapshots -> Kinds]
    /\ age \in [Snapshots -> 0..Retention] /\ made \in 0..MaxMade
    /\ op \in [Actors -> {"idle", "placed", "pruning", "purging", "doomed"} \cup DOMAIN After]
    /\ at \in [Actors -> Snapshots \cup {0}] /\ todo \in [Actors -> SUBSET Snapshots]
    /\ kept \subseteq Snapshots /\ gone \subseteq Snapshots

\* What a purge removes leaves two newer snapshots of its kind that can be
\* restored, but for those the owner or age has taken since the purge began,
\* while the bot makes, prunes and deletes beside it and either may die.
TwoRemain ==
    [][\A s \in Snapshots :
          op["daily"] = "doomed" /\ file[s] # "none" /\ file'[s] = "none" /\ s \notin gone'
            => Cardinality({t \in Snapshots : /\ t > s /\ kind[t] = kind[s]
                                              /\ file[t] = "sound" \/ t \in gone}) >= Spare]_vars
=============================================================================
