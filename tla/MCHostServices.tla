--------------------------- MODULE MCHostServices ---------------------------
EXTENDS HostServices, TLC

CONSTANTS k1, k2, r1, r2, o1

\* The keys and the requests for them are alike.
Alike == Permutations({k1, k2}) \cup Permutations({r1, r2})

\* A free model that reasons, a weaker free one, and a paid one, in the places
\* the catalogue gives them.
Good == [cost |-> "zero", active |-> TRUE, score |-> 2, levels |-> {"high"}, image |-> TRUE]
Weak == [cost |-> "zero", active |-> TRUE, score |-> 1, levels |-> {}, image |-> FALSE]
Paid == [cost |-> "paid", active |-> TRUE, score |-> 3, levels |-> {"high"}, image |-> TRUE]

TwoCatalogs == {<<Good, Weak>>, <<Weak, Good>>, <<Paid, Weak>>}

\* A host with room, one short of cores, memory and time, and one out of memory.
Host(mem, load) ==
    [mem |-> mem, psi |-> 0, swap |-> 0, load |-> load, disk |-> 0,
     cpus |-> 1, total |-> "large"]

SomeHosts == {Host(0, 0), Host(1, 2), Host(3, 0)}

\* The settings on a few sources: the defaults let a program start; the environment
\* hides what the file says, legal or not; one value out of its range refuses them all;
\* and a user's policy is looked at when it is applied only.
ASSUME SettingsRead ==
    LET With(process, config) == Config!Starts(process, <<>>, config, <<>>)
        own == [u1 |-> [task_workers |-> 0]]
    IN /\ With(<<>>, <<>>) /\ Config!Loaded(<<>>, <<>>, <<>>).task_workers = 2
       /\ With([task_workers |-> 8], [task_workers |-> 9]) /\ ~With(<<>>, [task_workers |-> 9])
       /\ Config!Loaded([task_workers |-> 8], <<>>, <<>>).task_workers = 2
       /\ ~With([attachment_max_bytes |-> 51], <<>>) /\ ~With(<<>>, [workers |-> 1])
       /\ With([workers |-> 1], [task_poll_seconds |-> NaN])
       /\ ~With([owner_id |-> 1], <<>>) /\ With([owner_id |-> 1], [allowed_users |-> {1}])
       /\ Config!Starts(<<>>, <<>>, <<>>, own) /\ ~Config!Resolves(Config!Defaults, own.u1)
       /\ Config!Resolves(Config!Defaults, [attachment_pending_seconds |-> 1])
==============================================================================
