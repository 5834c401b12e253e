-------------------------- MODULE OwnerQueueProofs --------------------------
(* What OwnerQueue promises follows from its actions, for any tasks.       *)
EXTENDS OwnerQueue, TLAPS

\* A change of some tasks' stages, with what leaves the list forgotten, keeps
\* the types.
LEMMA StageStep ==
    ASSUME TypeOK, stage' \in [Tasks -> Stages], Forget
    PROVE  TypeOK'
BY DEF TypeOK, Forget, Listed

LEMMA OutcomeStages == \A i \in Tasks : Outcomes(i) \subseteq Stages
BY DEF Outcomes, Stages

\* Stages and kept tasks are what they can be after any step.
LEMMA StepTypes == TypeOK /\ [Next]_vars => TypeOK'
<1> SUFFICES ASSUME TypeOK, [Next]_vars PROVE TypeOK'
    OBVIOUS
<1> USE DEF TypeOK
<1>1. ASSUME NEW i \in Tasks, Submit(i) PROVE TypeOK'
    BY <1>1 DEF Submit, Listed, Stages
<1>2. ASSUME NEW i \in Tasks, Keep(i) PROVE TypeOK'
    BY <1>2 DEF Keep, Listed
<1>3. ASSUME NEW i \in Tasks, Cancel(i) PROVE TypeOK'
    BY <1>3, StageStep DEF Cancel, Stages
<1>4. ASSUME NEW i \in Tasks, Again(i) PROVE TypeOK'
    BY <1>4 DEF Again, Listed, Stages
<1>5. ASSUME NEW o \in Owners, Remove(o) PROVE TypeOK'
    BY <1>5, StageStep DEF Remove, Stages
<1>6. ASSUME NEW S \in SUBSET Tasks, Promote(S) PROVE TypeOK'
    BY <1>6 DEF Promote, Listed, Stages
<1>7. ASSUME NEW S \in SUBSET Tasks, GiveUp(S) PROVE TypeOK'
    BY <1>7 DEF GiveUp, Listed, Working, Stages
<1>8. ASSUME NEW S \in SUBSET Tasks, NEW i \in Tasks, Take(S, i) PROVE TypeOK'
    BY <1>8 DEF Take, Listed, Working, Stages
<1>9. ASSUME NEW i \in Tasks, Report(i) PROVE TypeOK'
    BY <1>9, StageStep, OutcomeStages DEF Report, Stages
<1>10. ASSUME Recover PROVE TypeOK'
    BY <1>10, StageStep DEF Recover
<1>11. CASE UNCHANGED vars
    BY <1>11 DEF vars, Listed
<1> QED
    BY <1>1, <1>2, <1>3, <1>4, <1>5, <1>6, <1>7, <1>8, <1>9, <1>10, <1>11
    DEF Next, OwnerActs, ServiceActs

\* The stage of every task is one of Stages, and only listed tasks are kept.
THEOREM TypeCorrect == Spec => []TypeOK
<1>1. Init => TypeOK
    BY DEF Init, TypeOK, Listed, Stages
<1> QED
    BY <1>1, StepTypes, PTL DEF Spec

\* A step after which no task is working that was not keeps an owner to one.
LEMMA NoneTaken ==
    ASSUME OneAtATime, Working' \subseteq Working PROVE OneAtATime'
BY DEF OneAtATime, Mine, Working

\* Taking a task leaves its owner with that one.
LEMMA StepOne == TypeOK /\ OneAtATime /\ [Next]_vars => OneAtATime'
<1> SUFFICES ASSUME TypeOK, OneAtATime, [Next]_vars PROVE OneAtATime'
    OBVIOUS
<1> USE DEF TypeOK
<1>1. ASSUME NEW i \in Tasks, Submit(i) \/ Keep(i) \/ Cancel(i) \/ Again(i) PROVE OneAtATime'
    <2>1. Working' \subseteq Working
        BY <1>1 DEF Submit, Keep, Cancel, Again, Working
    <2> QED BY <2>1, NoneTaken
<1>2. ASSUME NEW o \in Owners, Remove(o) PROVE OneAtATime'
    <2>1. Working' \subseteq Working
        BY <1>2 DEF Remove, Working
    <2> QED BY <2>1, NoneTaken
<1>3. ASSUME NEW S \in SUBSET Tasks, Promote(S) \/ GiveUp(S) PROVE OneAtATime'
    <2>1. Working' \subseteq Working
        BY <1>3 DEF Promote, GiveUp, Working
    <2> QED BY <2>1, NoneTaken
<1>4. ASSUME NEW S \in SUBSET Tasks, NEW i \in Tasks, Take(S, i) PROVE OneAtATime'
    <2>1. Working' = (Working \ S) \cup {i}
        BY <1>4 DEF Take, Working
    <2>2. ASSUME NEW j \in Working' PROVE Mine(j)' \cap Working' = {j}
        <3>1. CASE j = i
            BY <1>4, <2>1, <3>1 DEF Take, Mine
        <3>2. CASE j # i
            <4>1. j \in Working /\ j \notin S
                BY <2>1, <2>2, <3>2
            <4>2. Mine(j) \cap Working = {j} /\ i \notin Mine(j)
                BY <1>4, <4>1 DEF OneAtATime, Take, Mine, Working
            <4> QED BY <2>1, <4>1, <4>2 DEF Mine
        <3> QED BY <3>1, <3>2
    <2> QED BY <2>2 DEF OneAtATime
<1>5. ASSUME NEW i \in Tasks, Report(i) PROVE OneAtATime'
    <2>1. Working' \subseteq Working
        BY <1>5 DEF Report, Outcomes, Working
    <2> QED BY <2>1, NoneTaken
<1>6. ASSUME Recover PROVE OneAtATime'
    <2>1. Working' \subseteq Working
        BY <1>6 DEF Recover, Outcomes, Working
    <2> QED BY <2>1, NoneTaken
<1>7. CASE UNCHANGED vars
    BY <1>7 DEF vars, OneAtATime, Working, Mine
<1> QED
    BY <1>1, <1>2, <1>3, <1>4, <1>5, <1>6, <1>7 DEF Next, OwnerActs, ServiceActs

\* The agent works on one task of an owner at a time, whatever is given up,
\* taken, reported and recovered.
THEOREM OneTask == Spec => []OneAtATime
<1>1. Init => OneAtATime
    BY DEF Init, OneAtATime, Working
<1> QED
    BY <1>1, StepOne, TypeCorrect, PTL DEF Spec

\* The service neither removes what is kept nor touches what is cancelled.
LEMMA ServiceLeaves ==
    TypeOK /\ ServiceActs =>
        kept \subseteq kept' /\ \A i \in Tasks : stage[i] = "cancelled" => stage'[i] = "cancelled"
<1> SUFFICES ASSUME TypeOK, ServiceActs
             PROVE  kept \subseteq kept' /\ \A i \in Tasks : stage[i] = "cancelled" => stage'[i] = "cancelled"
    OBVIOUS
<1> USE DEF TypeOK
<1>1. ASSUME NEW S \in SUBSET Tasks, Promote(S) \/ GiveUp(S) \/ \E i \in Tasks : Take(S, i)
      PROVE  kept \subseteq kept' /\ \A i \in Tasks : stage[i] = "cancelled" => stage'[i] = "cancelled"
    BY <1>1 DEF Promote, GiveUp, Take, Working
<1>2. ASSUME NEW i \in Tasks, Report(i)
      PROVE  kept \subseteq kept' /\ \A j \in Tasks : stage[j] = "cancelled" => stage'[j] = "cancelled"
    BY <1>2 DEF Report, Outcomes, Forget, Listed
<1>3. ASSUME Recover
      PROVE  kept \subseteq kept' /\ \A i \in Tasks : stage[i] = "cancelled" => stage'[i] = "cancelled"
    BY <1>3 DEF Recover, Outcomes, Forget, Listed, Working
<1> QED
    BY <1>1, <1>2, <1>3 DEF ServiceActs

\* So what is kept, and what is cancelled, leaves only by its owner's hand.
THEOREM ByOwnersHand == Spec => OwnersHand
<1>1. TypeOK /\ [Next]_vars =>
        [ServiceActs => kept \subseteq kept' /\ \A i \in Tasks :
                          stage[i] = "cancelled" => stage'[i] = "cancelled"]_vars
    BY ServiceLeaves
<1> QED
    BY <1>1, TypeCorrect, PTL DEF Spec, OwnersHand
=============================================================================
