----------------------------- MODULE MCTaskPool -----------------------------
(* Instances of TaskPool for TLC: two workers and two rows.                *)
EXTENDS TaskPoolQueue, TLC

CONSTANTS a, b, w1, w2

Pool         == {w1, w2}
PoolSymmetry == Permutations(Pool)

SameChat == <<a, a>>
TwoChats == <<a, b>>

JobPlain       == <<"job", "plain">>
PlainJob       == <<"plain", "job">>
RecurringPlain == <<"recurring", "plain">>
PlainOnly      == <<"plain", "plain">>

NoFlags    == <<{}, {}>>
DailyFirst == <<{"daily"}, {}>>
=============================================================================
