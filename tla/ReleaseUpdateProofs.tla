------------------------- MODULE ReleaseUpdateProofs -------------------------
(***************************************************************************)
(* For any number of releases, updaters, crashes and restarts: two         *)
(* updaters never have one release under way, and a release that an        *)
(* updater rolled back is not checked out by an updater again.             *)
(*                                                                         *)
(* The argument is that a release enters Spent only by a claim and never   *)
(* leaves it, and that whoever deploys a release has claimed it.           *)
(*                                                                         *)
(* And the tree, the record and the bot agree whenever nobody deploys and  *)
(* nothing was botched since the last record: the deployment lock has one  *)
(* holder, whose stage tells how far each of the three has come, on the    *)
(* way there and on the way back.  On the way there this holds even after  *)
(* something was botched, which is why a deployment that succeeds mends it. *)
(***************************************************************************)
EXTENDS ReleaseUpdate, TLAPS

\* The stages an updater reaches only through its claim.
Claimed(u) == stage[u] \in {"claimed", "filing"} \cup Holding \cup Ended

\* An updater at work is concerned with a published release.
Concerned == \A u \in Updaters : stage[u] # "idle" => target[u] \in Releases

ClaimedIsSpent == \A u \in Updaters : Claimed(u) => phase[target[u]] \in Spent

OneApplying == \A r, s \in Releases : phase[r] = "applying" /\ phase[s] = "applying" => r = s

OwnTargets ==
    \A u, v \in Updaters : InDeployment(u) /\ InDeployment(v) /\ u # v => target[u] # target[v]

RolledBackIsSpent == \A r \in rolledBack : r \in Releases /\ phase[r] \in Spent

\* An updater on its way to a record is not at a release rolled back before.
FreshTargets ==
    \A u \in Updaters :
        stage[u] \in {"claimed"} \cup (Holding \ {"failing", "reverted"})
            => target[u] \notin rolledBack

LedgerInv ==
    /\ TypeOK /\ Concerned /\ ClaimedIsSpent /\ OneApplying
    /\ OwnTargets /\ RolledBackIsSpent /\ FreshTargets

-----------------------------------------------------------------------------
(* Types.                                                                  *)

LEMMA Installed == 0 \in Versions /\ Releases \subseteq Versions
BY UpdateAssumption DEF Versions, Releases

LEMMA InitType == Init => TypeOK
<1> SUFFICES ASSUME Init PROVE TypeOK
  OBVIOUS
<1>1. botched \in BOOLEAN
  BY Zenon DEF Init
<1> QED BY <1>1, UpdateAssumption
        DEF Init, TypeOK, Versions, Releases, Phases, Stages, Deployers

\* One step of the deployment script.
LEMMA DeployType ==
    ASSUME TypeOK, NEW d \in Deployers, Deploy(d)
    PROVE  TypeOK'
<1> USE DEF TypeOK, Goes, ledger, host, bots, counts, StartBot
<1>1. CASE TakeLock(d) \/ Refuse(d) \/ Finish(d)
  BY <1>1 DEF TakeLock, Refuse, Finish, Stages, Holding, Ended
<1>2. CASE Check(d)
  BY <1>2 DEF Check, Stages, Holding, Ended
<1>3. CASE CheckOut(d) \/ Record(d) \/ RevertTree(d)
  BY <1>3 DEF CheckOut, Record, RevertTree, Stages, Holding
<1>4. CASE RestartServices(d) \/ RevertServices(d)
  BY <1>4, Installed DEF RestartServices, RevertServices, Stages, Holding, Ended
<1>5. CASE Fail(d)
  BY <1>5, UpdateAssumption DEF Fail, Stages, Holding
<1> QED BY <1>1, <1>2, <1>3, <1>4, <1>5 DEF Deploy

LEMMA UpdatesType ==
    ASSUME TypeOK, NEW u \in Updaters, Updates(u)
    PROVE  TypeOK'
<1> USE DEF TypeOK, Goes, ledger, host, bots, counts
<1>0. u \in Deployers
  BY DEF Deployers
<1>1. CASE Decide(u) \/ Skip(u) \/ File(u) \/ Leave(u)
  BY <1>0, <1>1 DEF Decide, Skip, File, Leave, Stages
<1>2. CASE Verify(u) \/ Announce(u) \/ Claim(u) \/ Confirm(u) \/ Quarantine(u)
  BY <1>0, <1>2 DEF Verify, Announce, Claim, Confirm, Quarantine, Records, Phases, Stages
<1>3. CASE Reactivate(u) \/ Rewrite(u)
  BY <1>0, <1>3, Installed DEF Reactivate, Rewrite, StartBot, Stages
<1> QED BY <1>1, <1>2, <1>3 DEF Updates

LEMMA BotType ==
    ASSUME TypeOK, BotStarts
    PROVE  TypeOK'
<1> USE DEF TypeOK, ledger, host, bots, counts
<1>1. CASE BotReads
  <2>1. Interrupted # {} => (CHOOSE r \in Interrupted : TRUE) \in Versions
    BY Installed DEF Interrupted, Applying
  <2>2. pending' \in Versions /\ seenRef' \in Versions /\ bot' \in {"up", "resolving"}
    BY <1>1, <2>1, Installed DEF BotReads
  <2> QED BY <1>1, <2>2 DEF BotReads
<1>2. CASE BotResolves
  BY <1>2 DEF BotResolves, Verdict, Phases
<1>3. CASE BotFiles
  BY <1>3 DEF BotFiles
<1> QED BY <1>1, <1>2, <1>3 DEF BotStarts

LEMMA StepType == TypeOK /\ [Next]_vars => TypeOK'
<1> SUFFICES ASSUME TypeOK, [Next]_vars PROVE TypeOK'
  OBVIOUS
<1> USE DEF TypeOK, ledger, host, bots, counts
<1>0. Owner \in Deployers /\ Updaters \subseteq Deployers
  BY DEF Deployers
<1>1. CASE \E u \in Updaters : Updates(u)
  BY <1>1, UpdatesType
<1>2. CASE \E u \in Updaters : Timeout(u) \/ Kill(u)
  <2>1. PICK u \in Updaters : Timeout(u) \/ Kill(u)
    BY <1>2
  <2>2. botched' \in BOOLEAN
    BY <2>1, Zenon DEF Timeout, Kill
  <2>3. /\ stage' \in [Deployers -> Stages] /\ lock' \in Deployers \cup {Nobody}
        /\ upsets' \in 0..MaxUpsets /\ killed' \subseteq Updaters
    BY <1>0, <2>1, UpdateAssumption DEF Timeout, Kill, Goes, Stages, Ended
  <2> QED BY <2>1, <2>2, <2>3 DEF Timeout, Kill
<1>3. CASE \E d \in Deployers : Deploy(d)
  BY <1>3, DeployType
<1>4. CASE \E r \in Versions : Manual(r)
  BY <1>0, <1>4, UpdateAssumption DEF Manual, Goes, Stages
<1>5. CASE OwnerDone
  BY <1>0, <1>5 DEF OwnerDone, Goes, Stages
<1>9. CASE Publish
  <2>1. latest' \in Versions
    BY <1>9, UpdateAssumption DEF Publish, Versions
  <2> QED BY <1>9, <2>1 DEF Publish
<1>6. CASE BotStarts
  BY <1>6, BotType
<1>7. CASE BotRestarts
  BY <1>7, Installed, UpdateAssumption DEF BotRestarts, StartBot
<1>10. CASE HostCrash
  BY <1>10, Installed, UpdateAssumption DEF HostCrash, StartBot, Stages
<1>8. CASE UNCHANGED vars
  BY <1>8 DEF vars
<1> QED BY <1>1, <1>2, <1>3, <1>4, <1>5, <1>9, <1>6, <1>7, <1>10, <1>8 DEF Next

\* The tables, the files and the processes have the values they can have.
THEOREM TypeCorrect == Spec => []TypeOK
BY InitType, StepType, PTL DEF Spec

-----------------------------------------------------------------------------
(* The ledger and who is at work.                                          *)

\* Initially nobody is at work and every release is unknown to the ledger.
LEMMA InitLedger == Init => LedgerInv
BY InitType
   DEF Init, LedgerInv, Concerned, Claimed, ClaimedIsSpent, OneApplying, OwnTargets,
       RolledBackIsSpent, FreshTargets, InDeployment, Releases,
       Holding, Ended, Deployers

\* What a transition of updater u keeps, whichever phase it records: only a claim
\* takes a release into Spent, nothing takes it out, and one release at most is
\* in phase applying.
LEMMA TransitionFacts ==
    ASSUME LedgerInv, NEW r \in Releases, NEW new \in Phases \ {"none"}, MayEnter(r, new),
           phase' = [phase EXCEPT ![r] = new]
    PROVE  /\ phase' \in [Releases -> Phases]
           /\ \A s \in Releases : phase[s] \in Spent => phase'[s] \in Spent
           /\ OneApplying'
           /\ new = "applying" => phase[r] \notin Spent /\ phase'[r] \in Spent
<1>1. phase \in [Releases -> Phases]
  BY DEF LedgerInv, TypeOK
<1>2. phase' \in [Releases -> Phases]
  BY <1>1 DEF Phases
<1>3. \A s \in Releases : phase[s] \in Spent => phase'[s] \in Spent
  BY <1>1 DEF MayEnter, Before, Spent, Phases
<1>4. OneApplying'
  BY <1>1 DEF LedgerInv, OneApplying, MayEnter, Before, Applying
<1>5. new = "applying" => phase[r] \notin Spent /\ phase'[r] \in Spent
  BY <1>1 DEF MayEnter, Before, Spent
<1> QED BY <1>2, <1>3, <1>4, <1>5

\* A step that leaves the ledger, the targets and the releases rolled back alone
\* keeps the invariant if updaters only go on to stages their claim allows.
LEMMA StageSteps ==
    ASSUME LedgerInv,
           UNCHANGED <<phase, rolledBack>>, TypeOK',
           \A u \in Updaters : stage'[u] # "idle" => target'[u] = target[u] /\ stage[u] # "idle",
           \A u \in Updaters : Claimed(u)' => Claimed(u),
           \A u \in Updaters : InDeployment(u)' => InDeployment(u),
           \A u \in Updaters : stage'[u] \in {"failing", "reverted"} \/ ~InDeployment(u)'
                               \/ stage[u] \in {"claimed"} \cup (Holding \ {"failing", "reverted"})
    PROVE  LedgerInv'
<1>1. Concerned'
  BY DEF LedgerInv, Concerned
<1>2. ClaimedIsSpent'
  <2> SUFFICES ASSUME NEW u \in Updaters, Claimed(u)' PROVE phase'[target'[u]] \in Spent
    BY DEF ClaimedIsSpent
  <2>1. Claimed(u) /\ stage'[u] # "idle"
    BY DEF Claimed, Holding, Ended
  <2> QED BY <2>1 DEF LedgerInv, ClaimedIsSpent
<1>3. OneApplying' /\ RolledBackIsSpent'
  BY DEF LedgerInv, OneApplying, RolledBackIsSpent
<1>4. OwnTargets'
  <2> SUFFICES ASSUME NEW u \in Updaters, NEW v \in Updaters, InDeployment(u)', InDeployment(v)', u # v
               PROVE  target'[u] # target'[v]
    BY DEF OwnTargets
  <2>1. stage'[u] # "idle" /\ stage'[v] # "idle"
    BY DEF InDeployment, Holding
  <2> QED BY <2>1 DEF LedgerInv, OwnTargets
<1>5. FreshTargets'
  <2> SUFFICES ASSUME NEW u \in Updaters,
                      stage'[u] \in {"claimed"} \cup (Holding \ {"failing", "reverted"})
               PROVE  target'[u] \notin rolledBack
    BY DEF FreshTargets
  <2>1. stage'[u] # "idle" /\ stage'[u] \notin {"failing", "reverted"} /\ InDeployment(u)'
    BY DEF InDeployment, Holding
  <2>2. stage[u] \in {"claimed"} \cup (Holding \ {"failing", "reverted"})
    BY <2>1
  <2> QED BY <2>1, <2>2 DEF LedgerInv, FreshTargets
<1> QED BY <1>1, <1>2, <1>3, <1>4, <1>5 DEF LedgerInv

\* An updater's transition, other than its claim, with the stages it leads to.
LEMMA RecordsKeepsInv ==
    ASSUME LedgerInv, TypeOK', NEW u \in Updaters,
           \/ Verify(u) \/ Announce(u) \/ Claim(u) \/ Confirm(u) \/ Quarantine(u)
    PROVE  LedgerInv'
<1> DEFINE r == target[u]
<1>1. r \in Releases /\ u \in Deployers /\ stage[u] # "idle"
  BY DEF LedgerInv, Concerned, Verify, Announce, Claim, Confirm, Quarantine, Deployers
<1>2. PICK new \in Phases \ {"none"}, next \in Stages :
         /\ Records(u, new, next)
         /\ (new = "applying") = (next = "claimed")
         /\ \/ next \in {"idle", "verified", "claimed", "activated"}
            \/ Claimed(u) /\ next = "filing"
  <2>1. CASE Verify(u)
    BY <2>1 DEF Verify, Phases, Stages
  <2>2. CASE Announce(u)
    BY <2>2 DEF Announce, Phases, Stages
  <2>3. CASE Claim(u)
    BY <2>3 DEF Claim, Phases, Stages
  <2>4. CASE Confirm(u)
    BY <2>4 DEF Confirm, Phases, Stages
  <2>5. CASE Quarantine(u)
    BY <2>5 DEF Quarantine, Phases, Stages, Claimed, Ended
  <2> QED BY <2>1, <2>2, <2>3, <2>4, <2>5
<1>3. CASE ~MayEnter(r, new)
  <2>1. UNCHANGED <<latest, phase, rolledBack, target>> /\ stage' = [stage EXCEPT ![u] = "idle"]
    BY <1>2, <1>3 DEF Records, Goes
  <2> QED BY <1>1, <2>1, StageSteps
          DEF LedgerInv, TypeOK, Claimed, InDeployment, Stages, Holding, Ended
<1>4. CASE MayEnter(r, new)
  <2>1. /\ UNCHANGED <<latest, target, rolledBack>>
        /\ phase' = [phase EXCEPT ![r] = new]
        /\ stage' = [stage EXCEPT ![u] = next]
    BY <1>2, <1>4 DEF Records, Goes
  <2>2. /\ phase' \in [Releases -> Phases]
        /\ \A s \in Releases : phase[s] \in Spent => phase'[s] \in Spent
        /\ OneApplying'
        /\ new = "applying" => phase[r] \notin Spent /\ phase'[r] \in Spent
    BY <1>1, <1>4, <2>1, TransitionFacts
  <2>3. Concerned'
    BY <1>1, <2>1 DEF LedgerInv, TypeOK, Concerned
  <2>4. ClaimedIsSpent'
    <3> SUFFICES ASSUME NEW v \in Updaters, Claimed(v)' PROVE phase'[target[v]] \in Spent
      BY <2>1 DEF ClaimedIsSpent
    <3>1. CASE v = u /\ next = "claimed"
      BY <1>2, <2>2, <3>1
    <3>2. CASE ~(v = u /\ next = "claimed")
      <4>1. Claimed(v)
        BY <1>1, <1>2, <2>1, <3>2 DEF LedgerInv, TypeOK, Claimed, Holding, Ended
      <4>2. target[v] \in Releases /\ phase[target[v]] \in Spent
        BY <4>1 DEF LedgerInv, Concerned, ClaimedIsSpent, Claimed, Holding, Ended
      <4> QED BY <2>2, <4>2
    <3> QED BY <3>1, <3>2
  <2>5. OwnTargets'
    <3> SUFFICES ASSUME NEW v \in Updaters, NEW w \in Updaters,
                        InDeployment(v)', InDeployment(w)', v # w, target[v] = target[w]
                 PROVE  FALSE
      BY <2>1 DEF OwnTargets
    <3>1. \A x \in Updaters \ {u} : InDeployment(x)' => InDeployment(x) /\ Claimed(x)
      BY <2>1 DEF LedgerInv, TypeOK, InDeployment, Claimed, Deployers
    <3>2. InDeployment(u)' => next = "claimed"
      BY <1>1, <1>2, <2>1 DEF LedgerInv, TypeOK, InDeployment, Holding
    <3>3. v = u \/ w = u
      BY <3>1 DEF LedgerInv, OwnTargets
    <3>4. PICK x \in Updaters \ {u} : Claimed(x) /\ target[x] = r /\ next = "claimed"
      BY <3>1, <3>2, <3>3
    <3>5. phase[r] \in Spent
      BY <3>4 DEF LedgerInv, ClaimedIsSpent
    <3> QED BY <1>2, <2>2, <3>4, <3>5
  <2>6. RolledBackIsSpent'
    BY <2>1, <2>2 DEF LedgerInv, RolledBackIsSpent
  <2>7. FreshTargets'
    <3> SUFFICES ASSUME NEW v \in Updaters,
                        stage'[v] \in {"claimed"} \cup (Holding \ {"failing", "reverted"})
                 PROVE  target[v] \notin rolledBack
      BY <2>1 DEF FreshTargets
    <3>1. CASE v = u
      <4>1. new = "applying"
        BY <1>1, <1>2, <2>1, <3>1 DEF LedgerInv, TypeOK, Holding
      <4> QED BY <2>2, <3>1, <4>1 DEF LedgerInv, RolledBackIsSpent
    <3>2. CASE v # u
      BY <2>1, <3>2 DEF LedgerInv, TypeOK, FreshTargets, Deployers
    <3> QED BY <3>1, <3>2
  <2> QED BY <2>2, <2>3, <2>4, <2>5, <2>6, <2>7 DEF LedgerInv
<1> QED BY <1>3, <1>4

\* Decide concerns an idle updater with the newest release, a published one.
LEMMA DecideKeepsInv ==
    ASSUME LedgerInv, TypeOK', NEW u \in Updaters, Decide(u)
    PROVE  LedgerInv'
<1>1. UNCHANGED <<latest, phase, rolledBack>>
  BY DEF Decide, ledger
<1>2. /\ stage' = [stage EXCEPT ![u] = "decided"]
      /\ target' = [target EXCEPT ![u] = latest]
  BY DEF Decide, Goes
<1>3. \A v \in Updaters \ {u} : stage'[v] = stage[v] /\ target'[v] = target[v]
  BY <1>2 DEF LedgerInv, TypeOK, Deployers
<1>4. stage'[u] = "decided" /\ ~Claimed(u)' /\ ~InDeployment(u)'
  BY <1>2 DEF LedgerInv, TypeOK, Deployers, Claimed, InDeployment, Holding, Ended
<1>5. latest \in Releases
  BY UpdateAssumption DEF LedgerInv, TypeOK, Decide, Versions, Releases
<1>6. target'[u] = latest
  BY <1>2 DEF LedgerInv, TypeOK, Deployers
<1>7. Concerned'
  BY <1>3, <1>5, <1>6 DEF LedgerInv, Concerned
<1>8. ClaimedIsSpent'
  BY <1>1, <1>3, <1>4 DEF LedgerInv, ClaimedIsSpent, Claimed
<1>9. OneApplying' /\ RolledBackIsSpent'
  BY <1>1 DEF LedgerInv, OneApplying, RolledBackIsSpent
<1>10. OwnTargets'
  BY <1>3, <1>4 DEF LedgerInv, OwnTargets, InDeployment
<1>11. FreshTargets'
  BY <1>1, <1>3, <1>4 DEF LedgerInv, FreshTargets, Holding
<1> QED BY <1>7, <1>8, <1>9, <1>10, <1>11 DEF LedgerInv

\* A rollback makes its release spent goods for everybody; no other updater was
\* on its way to deploy the same one.
LEMMA FailKeepsInv ==
    ASSUME LedgerInv, TypeOK', NEW d \in Deployers, Fail(d)
    PROVE  LedgerInv'
<1>1. /\ UNCHANGED <<phase, target>>
      /\ stage' = [stage EXCEPT ![d] = "failing"]
      /\ stage[d] \in {"checked", "checkedOut", "restarted", "recorded"}
      /\ rolledBack' = IF d \in Updaters THEN rolledBack \cup {target[d]} ELSE rolledBack
  BY DEF Fail, ledger, Goes
<1>2. \A v \in Deployers \ {d} : stage'[v] = stage[v]
  BY <1>1 DEF LedgerInv, TypeOK
<1>3. stage'[d] = "failing"
  BY <1>1 DEF LedgerInv, TypeOK
<1>4. \A u \in Updaters : /\ stage'[u] # "idle" => stage[u] # "idle"
                          /\ Claimed(u)' => Claimed(u)
                          /\ InDeployment(u)' => InDeployment(u)
  BY <1>1, <1>2, <1>3 DEF Claimed, InDeployment, Holding, Deployers
<1>5. Concerned' /\ ClaimedIsSpent' /\ OneApplying' /\ OwnTargets'
  BY <1>1, <1>4 DEF LedgerInv, Concerned, ClaimedIsSpent, OneApplying, OwnTargets
<1>6. RolledBackIsSpent'
  <2>1. d \in Updaters => target[d] \in Releases /\ phase[target[d]] \in Spent
    BY <1>1 DEF LedgerInv, Concerned, ClaimedIsSpent, Claimed, Holding
  <2> QED BY <1>1, <2>1 DEF LedgerInv, RolledBackIsSpent
<1>7. FreshTargets'
  <2> SUFFICES ASSUME NEW u \in Updaters,
                      stage'[u] \in {"claimed"} \cup (Holding \ {"failing", "reverted"})
               PROVE  target[u] \notin rolledBack'
    BY <1>1 DEF FreshTargets
  <2>1. u # d /\ stage'[u] = stage[u]
    BY <1>2, <1>3 DEF Deployers
  <2>2. target[u] \notin rolledBack
    BY <2>1 DEF LedgerInv, FreshTargets
  <2>3. d \in Updaters => target[u] # target[d]
    BY <1>1, <2>1 DEF LedgerInv, OwnTargets, InDeployment, Holding
  <2> QED BY <1>1, <2>2, <2>3
<1> QED BY <1>5, <1>6, <1>7 DEF LedgerInv

\* The other steps of the deployment script only move its own stage on.
LEMMA DeployKeepsInv ==
    ASSUME LedgerInv, TypeOK', NEW d \in Deployers, Deploy(d)
    PROVE  LedgerInv'
<1>1. CASE Fail(d)
  BY <1>1, FailKeepsInv
<1>2. CASE ~Fail(d)
  <2>1. PICK to \in Holding \cup Ended :
          /\ UNCHANGED <<phase, rolledBack, target>>
          /\ stage' = [stage EXCEPT ![d] = to]
          /\ stage[d] \in {"claimed"} \cup Holding
          /\ to \in Holding \ {"failing", "reverted"}
                 => stage[d] \in {"claimed"} \cup (Holding \ {"failing", "reverted"})
    BY <1>2 DEF Deploy, TakeLock, Refuse, Check, CheckOut, RestartServices, Record, Finish,
                RevertTree, RevertServices, Goes, ledger, Holding, Ended
  <2>2. stage \in [Deployers -> Stages] /\ Updaters \subseteq Deployers
    BY DEF LedgerInv, TypeOK, Deployers
  <2>3. \A u \in Updaters : stage'[u] = IF u = d THEN to ELSE stage[u]
    BY <2>1, <2>2
  <2>4. \A u \in Updaters : stage'[u] # "idle" => target'[u] = target[u] /\ stage[u] # "idle"
    BY <2>1, <2>3 DEF Holding
  <2>5. \A u \in Updaters : Claimed(u)' => Claimed(u)
    BY <2>1, <2>3 DEF Claimed
  <2>6. \A u \in Updaters : InDeployment(u)' => InDeployment(u)
    BY <2>1, <2>3 DEF InDeployment
  <2>7. \A u \in Updaters : stage'[u] \in {"failing", "reverted"} \/ ~InDeployment(u)'
                            \/ stage[u] \in {"claimed"} \cup (Holding \ {"failing", "reverted"})
    BY <2>1, <2>3 DEF InDeployment, Holding, Ended
  <2> QED BY <2>1, <2>4, <2>5, <2>6, <2>7, StageSteps
<1> QED BY <1>1, <1>2

\* The bot moves one release from applying to a phase that is spent, too.
LEMMA BotKeepsInv ==
    ASSUME LedgerInv, TypeOK', BotStarts
    PROVE  LedgerInv'
<1>1. UNCHANGED <<stage, target, rolledBack>>
  BY DEF BotStarts, BotReads, BotResolves, BotFiles
<1>2. CASE phase' = phase
  BY <1>1, <1>2 DEF LedgerInv, Concerned, ClaimedIsSpent, OneApplying, OwnTargets,
     RolledBackIsSpent, FreshTargets, Claimed, InDeployment
<1>3. CASE phase' # phase
  <2>1. /\ MayEnter(pending, Verdict)
        /\ phase' = [phase EXCEPT ![pending] = Verdict]
        /\ Verdict \in {"healthy", "quarantined"}
    BY <1>3 DEF BotStarts, BotReads, BotResolves, BotFiles, Verdict, ledger
  <2>2. pending \in Releases
    BY <1>3, <2>1 DEF LedgerInv, TypeOK
  <2>3. /\ \A s \in Releases : phase[s] \in Spent => phase'[s] \in Spent
        /\ OneApplying'
    <3>1. Verdict \in Phases \ {"none"}
      BY <2>1 DEF Phases
    <3> QED BY <2>1, <2>2, <3>1, TransitionFacts
  <2>4. ClaimedIsSpent'
    BY <1>1, <2>3 DEF LedgerInv, Concerned, ClaimedIsSpent, Claimed, Holding, Ended
  <2>5. Concerned' /\ OwnTargets' /\ FreshTargets'
    BY <1>1 DEF LedgerInv, Concerned, OwnTargets, FreshTargets, InDeployment
  <2>6. RolledBackIsSpent'
    BY <1>1, <2>3 DEF LedgerInv, RolledBackIsSpent
  <2> QED BY <2>3, <2>4, <2>5, <2>6 DEF LedgerInv
<1> QED BY <1>2, <1>3

\* Endings, deaths and everything that does not concern an updater.
LEMMA OtherStepsKeepInv ==
    ASSUME LedgerInv, TypeOK',
           \/ \E u \in Updaters : Skip(u) \/ File(u) \/ Timeout(u) \/ Kill(u)
           \/ \E u \in Updaters : Leave(u) \/ Reactivate(u) \/ Rewrite(u)
           \/ \E r \in Versions : Manual(r)
           \/ OwnerDone \/ Publish \/ BotRestarts \/ HostCrash
    PROVE  LedgerInv'
<1> USE DEF Leave, Reactivate, Rewrite
<1>0. /\ stage \in [Deployers -> Stages] /\ target \in [Deployers -> Versions]
      /\ Updaters \subseteq Deployers /\ Owner \notin Updaters
  BY UpdateAssumption DEF LedgerInv, TypeOK, Deployers
<1>1. UNCHANGED <<phase, rolledBack>>
  BY DEF Skip, File, Timeout, Kill, Manual, OwnerDone, Publish, BotRestarts, HostCrash, ledger
<1>2. \A u \in Updaters :
        /\ target'[u] = target[u]
        /\ \/ stage'[u] = stage[u]
           \/ stage'[u] = "idle"
           \/ stage'[u] = "failed" /\ stage[u] \in Holding
           \/ stage'[u] = "reactivated" /\ stage[u] = "activated"
  BY <1>0 DEF Skip, File, Timeout, Kill, Manual, OwnerDone, Publish, BotRestarts, HostCrash, Goes
<1>3. \A u \in Updaters : stage'[u] # "idle" => target'[u] = target[u] /\ stage[u] # "idle"
  BY <1>2 DEF Holding
<1>4. \A u \in Updaters : Claimed(u)' => Claimed(u)
  BY <1>2 DEF Claimed, Holding, Ended
<1>5. \A u \in Updaters : InDeployment(u)' => InDeployment(u)
  BY <1>2 DEF InDeployment, Holding
<1>6. \A u \in Updaters : stage'[u] \in {"failing", "reverted"} \/ ~InDeployment(u)'
                          \/ stage[u] \in {"claimed"} \cup (Holding \ {"failing", "reverted"})
  BY <1>2 DEF InDeployment, Holding
<1> QED BY <1>1, <1>3, <1>4, <1>5, <1>6, StageSteps

LEMMA StepLedger == LedgerInv /\ [Next]_vars => LedgerInv'
<1> SUFFICES ASSUME LedgerInv, [Next]_vars PROVE LedgerInv'
  OBVIOUS
<1>0. TypeOK'
  BY StepType DEF LedgerInv
<1>1. CASE \E u \in Updaters : Updates(u)
  BY <1>0, <1>1, RecordsKeepsInv, DecideKeepsInv, OtherStepsKeepInv DEF Updates
<1>2. CASE \E d \in Deployers : Deploy(d)
  BY <1>0, <1>2, DeployKeepsInv
<1>3. CASE BotStarts
  BY <1>0, <1>3, BotKeepsInv
<1>4. CASE \/ \E u \in Updaters : Timeout(u) \/ Kill(u)
           \/ \E r \in Versions : Manual(r)
           \/ OwnerDone \/ Publish \/ BotRestarts \/ HostCrash
  BY <1>0, <1>4, OtherStepsKeepInv
<1>5. CASE UNCHANGED vars
  BY <1>0, <1>5 DEF vars, ledger, LedgerInv, Concerned, ClaimedIsSpent, OneApplying, OwnTargets,
     RolledBackIsSpent, FreshTargets, Claimed, InDeployment
<1> QED BY <1>1, <1>2, <1>3, <1>4, <1>5 DEF Next

\* The ledger's phases agree with what the updaters are doing.
THEOREM LedgerAgrees == Spec => []LedgerInv
BY InitLedger, StepLedger, PTL DEF Spec

\* Two updaters never have one release, nor two releases in phase applying,
\* under way.
THEOREM OneActivation == Spec => []SingleClaim
<1>1. LedgerInv => SingleClaim
  <2> SUFFICES ASSUME LedgerInv, NEW u \in Updaters, NEW v \in Updaters,
                      InDeployment(u), InDeployment(v), u # v
               PROVE  /\ target[u] # target[v]
                      /\ {phase[target[u]], phase[target[v]]} # {"applying"}
    BY DEF SingleClaim
  <2>1. target[u] # target[v]
    BY DEF LedgerInv, OwnTargets
  <2>2. target[u] \in Releases /\ target[v] \in Releases
    BY DEF LedgerInv, Concerned, InDeployment, Holding
  <2> QED BY <2>1, <2>2 DEF LedgerInv, OneApplying
<1> QED BY <1>1, LedgerAgrees, PTL

\* A release whose activation an updater rolled back is never activated again.
THEOREM FailedStaysOut == Spec => []FailedNotRetried
<1>1. LedgerInv => FailedNotRetried
  BY DEF LedgerInv, FreshTargets, FailedNotRetried, Holding
<1> QED BY <1>1, LedgerAgrees, PTL
-----------------------------------------------------------------------------
(* The host: what a deployment leaves behind when it lets go of the lock.    *)

\* The lock is held by the deployer whose script is between taking it and
\* letting it go.
OneHolder == \A d \in Deployers : stage[d] \in Holding <=> lock = d

\* How far the holder has come tells what is checked out, running and recorded.
\* If nothing was botched before, its own note says what was deployed before and
\* the three agreed when it began.
UnderWay(d) ==
    /\ stage[d] \in {"checkedOut", "restarted", "recorded"} => tree = target[d]
    /\ stage[d] \in {"restarted", "recorded"} => running = target[d]
    /\ stage[d] = "recorded" => ref = target[d]
    /\ ~botched =>
          /\ stage[d] \in {"locked", "checked"} => tree = ref /\ running = ref
          /\ stage[d] \in {"checked", "checkedOut", "restarted", "failing", "reverted"}
                => before[d] = ref
          /\ stage[d] = "reverted" => tree = ref

HostInv == OneHolder /\ SettledTree /\ \A d \in Deployers : UnderWay(d)

\* Initially nobody deploys and the first release is checked out, recorded and
\* running.
LEMMA InitHost == Init => HostInv
BY UpdateAssumption DEF Init, HostInv, OneHolder, UnderWay, SettledTree, Holding, Deployers

\* A step of the script is one of the lock's holder, except for taking the lock;
\* the others, which are not between, stay where they are.
LEMMA DeployKeepsHost ==
    ASSUME TypeOK, HostInv, NEW d \in Deployers, Deploy(d)
    PROVE  HostInv'
<1>1. /\ stage \in [Deployers -> Stages] /\ before \in [Deployers -> Versions]
      /\ Nobody \notin Deployers /\ botched \in BOOLEAN
  BY UpdateAssumption DEF TypeOK, Deployers
<1>3. OneHolder /\ SettledTree /\ UnderWay(d)
  BY DEF HostInv
<1>4. CASE TakeLock(d)
  BY <1>1, <1>3, <1>4
     DEF HostInv, TakeLock, OneHolder, UnderWay, SettledTree, Goes, Holding
<1>5. CASE ~TakeLock(d)
  <2>1. /\ stage[d] \in Holding /\ lock = d
        /\ \E to \in Stages : stage' = [stage EXCEPT ![d] = to]
    BY <1>3, <1>5
       DEF Deploy, Refuse, Check, CheckOut, RestartServices, Record, Finish, Fail,
           RevertTree, RevertServices, Goes, OneHolder, Holding, Stages, Ended
  <2>2. \A e \in Deployers \ {d} : stage'[e] = stage[e] /\ stage[e] \notin Holding
    BY <1>1, <1>3, <2>1 DEF OneHolder
  <2>3. OneHolder' /\ SettledTree' /\ UnderWay(d)'
    <3>1. CASE Refuse(d) \/ Finish(d)
      BY <1>1, <1>3, <2>1, <2>2, <3>1
         DEF Refuse, Finish, OneHolder, UnderWay, SettledTree, Goes, Holding
    <3>2. CASE Check(d)
      BY <1>1, <1>3, <2>1, <2>2, <3>2
         DEF Check, OneHolder, UnderWay, SettledTree, Goes, Holding
    <3>3. CASE CheckOut(d) \/ RestartServices(d)
      BY <1>1, <1>3, <2>1, <2>2, <3>3
         DEF CheckOut, RestartServices, StartBot, OneHolder, UnderWay, SettledTree, Goes, Holding
    <3>4. CASE Record(d)
      BY <1>1, <1>3, <2>1, <2>2, <3>4
         DEF Record, OneHolder, UnderWay, SettledTree, Goes, Holding
    <3>5. CASE Fail(d)
      BY <1>1, <1>3, <2>1, <2>2, <3>5
         DEF Fail, host, OneHolder, UnderWay, SettledTree, Goes, Holding
    <3>6. CASE RevertTree(d)
      BY <1>1, <1>3, <2>1, <2>2, <3>6
         DEF RevertTree, OneHolder, UnderWay, SettledTree, Goes, Holding
    <3>7. CASE RevertServices(d)
      <4>1. /\ stage'[d] = "failed" /\ lock' = Nobody
            /\ UNCHANGED <<tree, ref>>
            /\ ~botched' => ~botched /\ running' = tree
        BY <1>1, <3>7 DEF RevertServices, StartBot, Goes
      <4>2. ~botched => tree = ref
        BY <1>3, <3>7 DEF RevertServices, UnderWay
      <4> QED BY <1>1, <2>2, <4>1, <4>2 DEF OneHolder, UnderWay, SettledTree, Holding
    <3> QED BY <1>5, <3>1, <3>2, <3>3, <3>4, <3>5, <3>6, <3>7 DEF Deploy
  <2>4. \A e \in Deployers \ {d} : UnderWay(e)'
    BY <2>2 DEF UnderWay, Holding
  <2> QED BY <2>3, <2>4 DEF HostInv
<1> QED BY <1>4, <1>5

\* The updaters' own steps, the owner's and the bot's leave the tree and the lock
\* alone and start nothing in the middle of the script; a bot that is restarted
\* runs what is checked out.  What the maintenance writes is checked out, and in
\* the middle of a deployment it is marked as botched.
LEMMA OthersKeepHost ==
    ASSUME TypeOK, HostInv,
           \/ \E u \in Updaters : Updates(u)
           \/ \E r \in Versions : Manual(r)
           \/ OwnerDone \/ BotStarts \/ Publish \/ BotRestarts \/ UNCHANGED vars
    PROVE  HostInv'
<1>1. /\ stage \in [Deployers -> Stages] /\ target \in [Deployers -> Versions]
      /\ Updaters \subseteq Deployers /\ Owner \in Deployers /\ Nobody \notin Deployers
      /\ botched \in BOOLEAN
  BY UpdateAssumption DEF TypeOK, Deployers
<1>2. /\ UNCHANGED <<tree, lock, before>> /\ running' \in {running, tree}
      /\ \/ UNCHANGED <<ref, botched>>
         \/ ref' = tree /\ botched' = (botched \/ lock # Nobody)
  BY DEF Updates, Decide, Skip, Verify, Announce, Claim, Confirm, Quarantine, File, Records,
         Leave, Reactivate, Rewrite, Manual, OwnerDone, BotStarts, BotReads, BotResolves,
         BotFiles, Publish, BotRestarts, StartBot, host, vars
<1>3. \A d \in Deployers :
        \/ stage'[d] = stage[d] /\ target'[d] = target[d]
        \/ stage[d] \notin Holding /\ stage'[d] \notin Holding
  <2>1. CASE \E u \in Updaters : Updates(u)
    BY <1>1, <2>1
       DEF Updates, Decide, Skip, Verify, Announce, Claim, Confirm, Quarantine, File, Records,
           Leave, Reactivate, Rewrite, Goes, Holding, Ended
  <2>2. CASE \/ \E r \in Versions : Manual(r)
             \/ OwnerDone
    BY <1>1, <2>2 DEF Manual, OwnerDone, Goes, Holding, Ended
  <2>3. CASE BotStarts \/ Publish \/ BotRestarts \/ UNCHANGED vars
    BY <2>3 DEF BotStarts, BotReads, BotResolves, BotFiles, Publish, BotRestarts, vars
  <2> QED BY <2>1, <2>2, <2>3
<1>4. OneHolder /\ SettledTree /\ \A d \in Deployers : UnderWay(d)
  BY DEF HostInv
<1>5. OneHolder' /\ SettledTree'
  <2>1. OneHolder'
    BY <1>2, <1>3, <1>4 DEF OneHolder
  <2>2. SettledTree'
    <3>1. CASE UNCHANGED <<ref, botched>>
      BY <1>2, <1>4, <3>1 DEF SettledTree
    <3>2. CASE ref' = tree /\ botched' = (botched \/ lock # Nobody)
      <4>1. botched => botched'
        BY <1>1, <3>2, Zenon
      <4> QED BY <1>2, <1>4, <3>2, <4>1 DEF SettledTree
    <3> QED BY <1>2, <3>1, <3>2
  <2> QED BY <2>1, <2>2
<1>6. ASSUME NEW d \in Deployers PROVE UnderWay(d)'
  <2>1. CASE stage'[d] \notin Holding
    BY <2>1 DEF UnderWay, Holding
  <2>2. CASE stage'[d] = stage[d] /\ target'[d] = target[d] /\ stage[d] \in Holding
    <3>1. lock # Nobody
      BY <1>1, <1>4, <2>2 DEF OneHolder
    <3>2. CASE UNCHANGED <<ref, botched>>
      BY <1>2, <1>4, <2>2, <3>2 DEF UnderWay
    <3>3. CASE ref' = tree /\ botched' = (botched \/ lock # Nobody)
      <4>1. botched'
        BY <3>1, <3>3, Zenon
      <4> QED BY <1>2, <1>4, <2>2, <3>3, <4>1 DEF UnderWay
    <3> QED BY <1>2, <3>2, <3>3
  <2> QED BY <1>3, <2>1, <2>2
<1> QED BY <1>5, <1>6 DEF HostInv

\* Who is cut off in the middle lets go of the lock and is marked; the others'
\* deaths leave the tree, the record and the bot as they were.
LEMMA DeathsKeepHost ==
    ASSUME TypeOK, HostInv,
           (\E u \in Updaters : Timeout(u) \/ Kill(u)) \/ HostCrash
    PROVE  HostInv'
<1>1. /\ stage \in [Deployers -> Stages] /\ botched \in BOOLEAN
      /\ Updaters \subseteq Deployers /\ Nobody \notin Deployers
  BY UpdateAssumption DEF TypeOK, Deployers
<1>2. OneHolder /\ SettledTree /\ \A d \in Deployers : UnderWay(d)
  BY DEF HostInv
<1>3. CASE \E u \in Updaters : Timeout(u) \/ Kill(u)
  <2>1. PICK u \in Updaters : Timeout(u) \/ Kill(u)
    BY <1>3
  <2>2. /\ UNCHANGED <<tree, ref, running, target, before>>
        /\ stage'[u] \notin Holding
        /\ \A d \in Deployers \ {u} : stage'[d] = stage[d]
        /\ lock' = IF lock = u THEN Nobody ELSE lock
        /\ botched' = (botched \/ lock = u)
    BY <1>1, <1>2, <2>1 DEF Timeout, Kill, Goes, OneHolder, Holding
  <2>3. OneHolder'
    BY <1>1, <1>2, <2>2 DEF OneHolder
  <2>4. SettledTree'
    BY <1>1, <1>2, <2>2 DEF SettledTree
  <2>5. ASSUME NEW d \in Deployers PROVE UnderWay(d)'
    <3>1. CASE d = u
      BY <2>2, <3>1 DEF UnderWay, Holding
    <3>2. CASE d # u
      BY <1>1, <1>2, <2>2, <3>2 DEF UnderWay
    <3> QED BY <3>1, <3>2
  <2> QED BY <2>3, <2>4, <2>5 DEF HostInv
<1>4. CASE HostCrash
  <2>1. /\ UNCHANGED <<tree, ref>> /\ running' = tree /\ lock' = Nobody
        /\ stage' = [d \in Deployers |-> "idle"]
        /\ botched' = (botched \/ lock # Nobody)
    BY <1>4 DEF HostCrash, StartBot
  <2> QED BY <1>1, <1>2, <2>1 DEF HostInv, OneHolder, SettledTree, UnderWay, Holding
<1> QED BY <1>3, <1>4

LEMMA StepHost == TypeOK /\ HostInv /\ [Next]_vars => HostInv'
BY DeployKeepsHost, OthersKeepHost, DeathsKeepHost DEF Next

\* Whenever nobody deploys, the recorded release is the one checked out and the
\* one the bot runs, unless something was botched since the last record: a
\* deployment that fails on its own, with a rollback whose commands succeed,
\* leaves nothing of itself behind.
THEOREM TreeSettles == Spec => []SettledTree
<1>1. HostInv => SettledTree
  BY DEF HostInv
<1> QED BY <1>1, InitHost, StepHost, TypeCorrect, PTL DEF Spec
=============================================================================
