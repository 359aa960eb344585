---------------------- MODULE ProviderAdmissionProofs ----------------------
(* Proofs about ProviderAdmission for every set of executions and every    *)
(* value of MaxConcurrency and MaxAttempts.                                *)
EXTENDS ProviderAdmission, FiniteSetTheorems, TLAPS

-----------------------------------------------------------------------------
(* Types of the values that actions assign.                                *)

LEMMA HelperTypes ==
  ASSUME TypeOK
  PROVE  /\ NoEpisode \in Episodes
         /\ Vacated \in Episodes
         /\ NotifyAll \in [Executions -> Labels]
         /\ \A l \in Executions \union {NoLeader} :
              Started(l, TRUE) \in Episodes /\ Started(l, FALSE) \in Episodes
<1> USE DEF TypeOK, Episodes
<1>1. NoEpisode \in Episodes BY DEF NoEpisode
<1>2. Vacated \in Episodes BY DEF Vacated
<1>3. NotifyAll \in [Executions -> Labels] BY DEF NotifyAll, Labels
<1>4. \A l \in Executions \union {NoLeader} :
        Started(l, TRUE) \in Episodes /\ Started(l, FALSE) \in Episodes
  BY DEF Started
<1> QED BY <1>1, <1>2, <1>3, <1>4

LEMMA AbandonTypes ==
  ASSUME TypeOK, NEW e \in Executions, NEW p, NEW label \in Labels,
         AbandonPermit(e, p, label)
  PROVE  episode' \in Episodes /\ pc' \in [Executions -> Labels]
<1>1. CASE MatchingProbe(e, p)
  <2>1. /\ episode' = Vacated
        /\ pc' = [NotifyAll EXCEPT ![e] = label]
    BY <1>1 DEF AbandonPermit
  <2> QED BY <2>1, HelperTypes
<1>2. CASE ~MatchingProbe(e, p)
  BY <1>2 DEF AbandonPermit, TypeOK
<1> QED BY <1>1, <1>2

LEMMA LeaveTypes ==
  ASSUME TypeOK, NEW e \in Executions, Leave(e)
  PROVE  /\ state' \in [Executions -> States]
         /\ permit' \in [Executions -> Permits]
         /\ outcome' \in [Executions -> Outcomes]
  BY DEF TypeOK, Leave, States, Permits, NormalPermit, Outcomes

(* What the gate makes of the episode, type and all.                       *)
LEMMA GateTypes ==
  ASSUME TypeOK, NEW e \in Executions
  PROVE  /\ EpisodeAtGate(e) \in Episodes
         /\ GenerationAtGate \in Nat
<1>1. CASE episode.phase = "cooled"
  <2>1. Started(e, TRUE) \in Episodes BY HelperTypes
  <2>2. EpisodeAtGate(e) = Started(e, TRUE) BY <1>1 DEF EpisodeAtGate
  <2>3. GenerationAtGate \in Nat BY DEF GenerationAtGate, TypeOK
  <2> QED BY <2>1, <2>2, <2>3
<1>2. CASE episode.phase # "cooled" /\ episode.leader = NoLeader
  <2>1. [episode EXCEPT !.leader = e, !.waiters = @ \ {e}] \in Episodes
    BY DEF TypeOK, Episodes
  <2> QED BY <1>2, <2>1 DEF EpisodeAtGate, GenerationAtGate, TypeOK
<1>3. CASE episode.phase # "cooled" /\ episode.leader # NoLeader
  BY <1>3 DEF EpisodeAtGate, GenerationAtGate, TypeOK
<1> QED BY <1>1, <1>2, <1>3

(* Every action keeps the variables in their types.                        *)
LEMMA TypeStep == TypeOK /\ [Next]_vars => TypeOK'
<1> SUFFICES ASSUME TypeOK, [Next]_vars PROVE TypeOK'
  OBVIOUS
<1> USE AdmissionAssumption, HelperTypes DEF TypeOK
<1>1. ASSUME NEW e \in Executions, Gate(e) PROVE TypeOK'
  <2>1. CASE OpenAttempt(e)
    BY <2>1 DEF OpenAttempt, Labels, Outcomes
  <2>2. CASE PassGate(e)
    BY <2>2 DEF PassGate, Labels, Permits, NormalPermit
  <2>3. CASE RefuseGate(e)
    BY <2>3, LeaveTypes DEF RefuseGate, Labels
  <2>4. CASE LeadGate(e)
    <3> DEFINE ep == EpisodeAtGate(e)
    <3>1. ep \in Episodes /\ GenerationAtGate \in Nat BY GateTypes
    <3>2. [ep EXCEPT !.probe = ep.ready] \in Episodes BY <3>1 DEF Episodes
    <3>3. [probe |-> ep.ready, generation |-> ep.generation] \in Permits
      BY <3>1 DEF Episodes, Permits
    <3> HIDE DEF ep
    <3> QED BY <2>4, <3>1, <3>2, <3>3 DEF LeadGate, Labels, ep
  <2>5. CASE FollowGate(e)
    <3> DEFINE ep == EpisodeAtGate(e)
    <3>1. ep \in Episodes BY GateTypes
    <3>2. [ep EXCEPT !.waiters = @ \union {e}] \in Episodes
      BY <3>1 DEF Episodes
    <3> HIDE DEF ep
    <3> QED BY <2>5, <3>1, <3>2 DEF FollowGate, Labels, ep
  <2>6. CASE WakeLeader(e)
    BY <2>6 DEF WakeLeader, Labels, Permits, Episodes, ProbePermit
  <2> QED BY <1>1, <2>1, <2>2, <2>3, <2>4, <2>5, <2>6 DEF Gate
<1>2. ASSUME NEW e \in Executions, Admit(e) PROVE TypeOK'
  <2>1. CASE PassLimiter(e) BY <2>1 DEF PassLimiter, Labels
  <2>2. CASE RejectAtLimiter(e) \/ RejectAtSlot(e)
    BY <2>2, AbandonTypes DEF RejectAtLimiter, RejectAtSlot, Labels
  <2>3. CASE StartAttempt(e) BY <2>3 DEF StartAttempt, CanAttempt, Labels
  <2> QED BY <1>2, <2>1, <2>2, <2>3 DEF Admit
<1>3. ASSUME NEW e \in Executions, Settle(e) PROVE TypeOK'
  <2>0. Failed(e) \in [Executions -> States] BY DEF Failed, States
  <2>1. CASE SettleAnswer(e)
    <3>1. pc' \in [Executions -> Labels] /\ episode' \in Episodes
      BY <2>1 DEF SettleAnswer, Labels
    <3> QED BY <2>0, <2>1, <3>1 DEF SettleAnswer
  <2>2. CASE SettleCorrection(e)
    <3>1. [episode EXCEPT !.probe = FALSE, !.ready = TRUE] \in Episodes
      BY DEF Episodes
    <3> QED BY <2>2, <3>1 DEF SettleCorrection, Labels
  <2>3. CASE FailureOpensEpisode(e)
    <3>1. Started(e, FALSE) \in Episodes BY HelperTypes
    <3>2. episode' \in Episodes BY <2>3, <3>1 DEF FailureOpensEpisode
    <3>3. pc' \in [Executions -> Labels]
      BY <2>3 DEF FailureOpensEpisode, SettlingFailure, Labels
    <3>4. nextGeneration' \in Nat BY <2>3 DEF FailureOpensEpisode
    <3>5. UNCHANGED <<state, attempts, permit, outcome, free, detached>>
      BY <2>3 DEF FailureOpensEpisode, SettlingFailure
    <3> QED BY <3>2, <3>3, <3>4, <3>5
  <2>4. CASE FailureOfProbe(e)
    BY <2>4 DEF FailureOfProbe, SettlingFailure, Labels, Episodes
  <2>5. CASE FailureAfterExhaustion(e)
    BY <2>0, <2>5 DEF FailureAfterExhaustion, SettlingFailure, Labels
  <2>6. CASE FailureJoinsEpisode(e)
    BY <2>6 DEF FailureJoinsEpisode, SettlingFailure, Labels, Episodes
  <2>7. CASE ExhaustEpisode(e)
    <3> DEFINE ep == IF episode.phase = "none" THEN Started(NoLeader, TRUE)
                                               ELSE episode
    <3>0. Started(NoLeader, TRUE) \in Episodes BY HelperTypes
    <3>1. ep \in Episodes BY <3>0
    <3>2. [ep EXCEPT !.phase = "cooling", !.leader = NoLeader,
                     !.probe = FALSE, !.waiters = {}] \in Episodes
      BY <3>1 DEF Episodes
    <3>3. episode' \in Episodes BY <2>7, <3>2 DEF ExhaustEpisode
    <3>4. state' = [x \in Executions |->
                      IF (x = e \/ x \in ep.waiters) /\ state[x] = "active"
                      THEN "failed" ELSE state[x]]
      BY <2>7 DEF ExhaustEpisode
    <3>5. state' \in [Executions -> States]
      <4> HIDE DEF ep
      <4> QED BY <3>4 DEF States
    <3>6. [NotifyAll EXCEPT ![e] = "resolved"] \in [Executions -> Labels]
      BY DEF Labels
    <3>7. pc' \in [Executions -> Labels] /\ nextGeneration' \in Nat
      BY <2>7, <3>6 DEF ExhaustEpisode
    <3> QED BY <2>7, <3>3, <3>5, <3>7 DEF ExhaustEpisode
  <2>8. CASE ExhaustAlone(e) BY <2>0, <2>8 DEF ExhaustAlone, Labels
  <2> QED BY <1>3, <2>1, <2>2, <2>3, <2>4, <2>5, <2>6, <2>7, <2>8 DEF Settle
<1>4. ASSUME NEW e \in Executions, Close(e) PROVE TypeOK'
  <2>1. CASE CloseAttempt(e)
    BY <2>1 DEF CloseAttempt, Labels, Permits, NormalPermit
  <2>2. CASE CloseAbandoned(e)
    BY <2>2, AbandonTypes, LeaveTypes DEF CloseAbandoned, Labels
  <2> QED BY <1>4, <2>1, <2>2 DEF Close
<1>5. ASSUME NEW e \in Executions, Cancel(e) PROVE TypeOK'
  <2>1. CASE CancelGate(e)
    BY <2>1, LeaveTypes DEF CancelGate, Labels, Episodes
  <2>2. CASE CancelWaiting(e)
    BY <2>2, LeaveTypes DEF CancelWaiting, Labels, Episodes
  <2>3. CASE CancelBackoff(e)
    <3>1. [episode EXCEPT !.leader = NoLeader] \in Episodes BY DEF Episodes
    <3>2. episode' \in Episodes BY <2>3, <3>1 DEF CancelBackoff
    <3>3. pc' \in [Executions -> Labels] BY <2>3 DEF CancelBackoff, Labels
    <3> QED BY <2>3, <3>2, <3>3, LeaveTypes DEF CancelBackoff
  <2>4. CASE CancelPermit(e)
    BY <2>4, AbandonTypes, LeaveTypes DEF CancelPermit, Labels
  <2>5. CASE CancelAttempt(e) BY <2>5 DEF CancelAttempt, Labels, Outcomes
  <2>6. CASE CloseDetached(e)
    BY <2>6, LeaveTypes DEF CloseDetached, Labels, Permits
  <2> QED BY <1>5, <2>1, <2>2, <2>3, <2>4, <2>5, <2>6 DEF Cancel
<1>6. ASSUME NEW e \in Executions, Finish(e) \/ Quit(e) PROVE TypeOK'
  BY <1>6, LeaveTypes DEF Finish, Quit, Labels
<1>7. ASSUME NEW e \in Executions, NEW o \in Outcomes, Respond(e, o)
      PROVE TypeOK'
  BY <1>7 DEF Respond, Labels
<1>8. ASSUME NEW d \in detached, FinishDetached(d) PROVE TypeOK'
  BY <1>8, AbandonTypes DEF FinishDetached, Labels
<1>9. CASE BackoffElapses BY <1>9 DEF BackoffElapses, Episodes
<1>10. CASE CooldownElapses BY <1>10 DEF CooldownElapses, Episodes
<1>11. CASE UNCHANGED vars BY <1>11 DEF vars
<1> QED
  BY <1>1, <1>2, <1>3, <1>4, <1>5, <1>6, <1>7, <1>8, <1>9, <1>10, <1>11
     DEF Next, Quiescent

(* Type correctness of the admission controller.                           *)
THEOREM TypeCorrect == Spec => []TypeOK
<1>1. Init => TypeOK
  BY AdmissionAssumption, SMT
     DEF Init, TypeOK, NoEpisode, NormalPermit, Permits, Episodes, Labels,
         States, Outcomes
<1> QED BY <1>1, TypeStep, PTL DEF Spec

-----------------------------------------------------------------------------
(* The half-open probe has one owner.                                      *)

(* While the leader, its generation and every unsettled probe stay, an     *)
(* active probe keeps its owner.                                           *)
LEMMA OwnerStays ==
  ASSUME EpisodeInv, TypeOK',
         episode'.leader = episode.leader,
         episode'.generation = episode.generation,
         episode'.probe => episode.probe,
         \A x \in Executions :
           InAdmission(x) /\ permit[x].probe =>
             (InAdmission(x))' /\ permit'[x] = permit[x],
         detached \subseteq detached'
  PROVE  ProbeOwned'
  BY DEF EpisodeInv, ProbeOwned, ProbePermit

(* The execution that carries the probe is the leader, and the only one.   *)
LEMMA SoleProbe ==
  ASSUME EpisodeInv, NEW e \in Executions, InAdmission(e), permit[e].probe
  PROVE  /\ MatchingProbe(e, permit[e])
         /\ episode.leader = e
         /\ detached = {}
         /\ \A x \in Executions :
              x # e /\ InAdmission(x) => ~permit[x].probe
<1> USE DEF EpisodeInv, EpisodeCoherent, ProbesAreCurrent
<1>1. \A x \in Executions :
        InAdmission(x) /\ permit[x].probe => episode.leader = x
  BY DEF MatchingProbe
<1>2. \A d \in detached : FALSE
  BY <1>1 DEF MatchingProbe, DetachedAreDone, InAdmission, TypeOK
<1> QED BY <1>1, <1>2

(* A leader gives the probe back: it settles, abandons or leaves, and all  *)
(* parked tasks run again.                                                 *)
LEMMA ProbeReleased ==
  ASSUME EpisodeInv, TypeOK', NEW e \in Executions,
         NEW label \in {"done", "resolved"},
         episode.leader = e,
         \A x \in Executions : x # e /\ InAdmission(x) => ~permit[x].probe,
         pc' = [NotifyAll EXCEPT ![e] = label],
         state'[e] = "ended" <=> label = "done",
         \A x \in Executions :
           x # e => state'[x] = state[x] /\ permit'[x] = permit[x],
         attempts' = attempts,
         detached' = {},
         ~episode'.probe,
         episode'.leader \in {NoLeader, e},
         episode'.waiters \subseteq episode.waiters,
         episode'.phase # "recovering" =>
           episode'.leader = NoLeader /\ episode'.waiters = {}
  PROVE  ProbeOwned' /\ EpisodeCoherent'
<1>1. \A x \in Executions :
        pc'[x] = IF x = e THEN label
                 ELSE IF pc[x] = "waiting" THEN "gate" ELSE pc[x]
  BY DEF NotifyAll, EpisodeInv, TypeOK
<1>2. ProbeOwned' BY DEF ProbeOwned
<1> USE <1>1, AdmissionAssumption DEF EpisodeInv, EpisodeCoherent, TypeOK
<1>3. ProbesAreCurrent' BY DEF ProbesAreCurrent, InAdmission
<1>4. ParkedIsRegistered' BY DEF ParkedIsRegistered
<1>5. AdmittedCanAttempt' BY DEF AdmittedCanAttempt, CanAttempt
<1>6. ClosedIsEmpty' BY DEF ClosedIsEmpty
<1>7. DetachedAreDone' BY DEF DetachedAreDone
<1>8. EndedAreDone' BY DEF EndedAreDone
<1>9. LeaderIsNoWaiter' BY DEF LeaderIsNoWaiter, Episodes
<1>10. AdmittedIsNoWaiter'
  BY DEF AdmittedIsNoWaiter, LeaderIsNoWaiter, InAdmission
<1>11. NormalIsNoLeader' BY DEF NormalIsNoLeader, InAdmission
<1>12. RequestsHaveBudget' BY DEF RequestsHaveBudget, Requesting
<1> QED
  BY <1>2, <1>3, <1>4, <1>5, <1>6, <1>7, <1>8, <1>9, <1>10, <1>11, <1>12

-----------------------------------------------------------------------------
(* EpisodeInv is inductive: first the gate.                                *)

LEMMA GateStep ==
  ASSUME EpisodeInv, TypeOK', NEW e \in Executions, Gate(e)
  PROVE  ProbeOwned' /\ EpisodeCoherent'
<1> USE AdmissionAssumption
    DEF TypeOK, Episodes, EpisodeInv, EpisodeCoherent, ProbesAreCurrent,
        ParkedIsRegistered, AdmittedCanAttempt, ClosedIsEmpty,
        DetachedAreDone, EndedAreDone, LeaderIsNoWaiter, AdmittedIsNoWaiter,
        NormalIsNoLeader, RequestsHaveBudget, InAdmission, Requesting,
        CanAttempt, MatchingProbe
<1>1. CASE OpenAttempt(e)
  <2>1. ProbeOwned' BY <1>1, OwnerStays DEF OpenAttempt
  <2>2. EpisodeCoherent' BY <1>1 DEF OpenAttempt
  <2> QED BY <2>1, <2>2
<1>2. CASE PassGate(e)
  <2>1. ProbeOwned' BY <1>2, OwnerStays DEF PassGate
  <2>2. CanAttempt(e) BY <1>2 DEF PassGate, States
  <2>3. EpisodeCoherent'
    BY <1>2, <2>2 DEF PassGate, Permits, NormalPermit
  <2> QED BY <2>1, <2>3
<1>3. CASE RefuseGate(e)
  <2>1. ProbeOwned' BY <1>3, OwnerStays DEF RefuseGate, Leave
  <2>2. EpisodeCoherent' BY <1>3 DEF RefuseGate, Leave, NormalPermit
  <2> QED BY <2>1, <2>2
<1>4. CASE LeadGate(e)
  <2>1. CanAttempt(e) BY <1>4 DEF LeadGate, States
  <2>2. ~episode.probe
    BY <1>4 DEF LeadGate, EpisodeAtGate
  <2>3. ProbeOwned'
    BY <1>4, <2>2
       DEF LeadGate, ProbeOwned, EpisodeAtGate, Started, ProbePermit
  <2>4. EpisodeCoherent'
    BY <1>4, <2>1, <2>2 DEF LeadGate, EpisodeAtGate, Started, Permits
  <2> QED BY <2>3, <2>4
<1>5. CASE FollowGate(e)
  <2>1. episode.leader \notin {NoLeader, e}
    BY <1>5 DEF FollowGate, EpisodeAtGate, ProbeOwned
  <2>2. /\ episode' = [episode EXCEPT !.waiters = @ \union {e}]
        /\ pc' = [pc EXCEPT ![e] = "waiting"]
        /\ episode.phase = "recovering"
        /\ UNCHANGED <<state, attempts, permit, detached>>
    BY <1>5, <2>1 DEF FollowGate, EpisodeAtGate
  <2>3. ProbeOwned' BY <1>5, <2>2, OwnerStays DEF FollowGate
  <2>4. state[e] = "active" BY <1>5 DEF FollowGate, States
  <2>5. EpisodeCoherent' BY <1>5, <2>1, <2>2, <2>4 DEF FollowGate
  <2> QED BY <2>3, <2>5
<1>6. CASE WakeLeader(e)
  <2>1. ProbeOwned'
    <3>1. CASE episode'.probe /\ ~episode.probe
      BY <1>6, <3>1 DEF WakeLeader, ProbeOwned, ProbePermit
    <3>2. CASE episode'.probe => episode.probe
      BY <1>6, <3>2, OwnerStays DEF WakeLeader
    <3> QED BY <3>1, <3>2
  <2>2. EpisodeCoherent' BY <1>6 DEF WakeLeader, ProbePermit, Permits
  <2> QED BY <2>1, <2>2
<1> QED BY <1>1, <1>2, <1>3, <1>4, <1>5, <1>6 DEF Gate

LEMMA AdmitStep ==
  ASSUME EpisodeInv, TypeOK', NEW e \in Executions, Admit(e)
  PROVE  ProbeOwned' /\ EpisodeCoherent'
<1> USE AdmissionAssumption
    DEF TypeOK, Episodes, EpisodeInv, EpisodeCoherent, ProbesAreCurrent,
        ParkedIsRegistered, AdmittedCanAttempt, ClosedIsEmpty,
        DetachedAreDone, EndedAreDone, LeaderIsNoWaiter, AdmittedIsNoWaiter,
        NormalIsNoLeader, RequestsHaveBudget, InAdmission, Requesting,
        CanAttempt, MatchingProbe
<1>1. CASE PassLimiter(e)
  <2>1. ProbeOwned' BY <1>1, OwnerStays DEF PassLimiter
  <2>2. EpisodeCoherent' BY <1>1 DEF PassLimiter
  <2> QED BY <2>1, <2>2
<1>2. CASE StartAttempt(e)
  <2>1. ProbeOwned' BY <1>2, OwnerStays DEF StartAttempt
  <2>2. EpisodeCoherent' BY <1>2 DEF StartAttempt
  <2> QED BY <2>1, <2>2
<1>3. CASE RejectAtLimiter(e) \/ RejectAtSlot(e)
  <2>1. ~permit[e].probe
    BY <1>3 DEF RejectAtLimiter, RejectAtSlot, PermitIsCurrent
  <2>2. /\ pc' = [pc EXCEPT ![e] = "gate"]
        /\ UNCHANGED <<state, attempts, permit, episode, detached>>
        /\ pc[e] \in {"limiter", "slot"}
    BY <1>3, <2>1 DEF RejectAtLimiter, RejectAtSlot, AbandonPermit
  <2>3. ProbeOwned' BY <2>1, <2>2, OwnerStays
  <2>4. EpisodeCoherent' BY <2>2
  <2> QED BY <2>3, <2>4
<1> QED BY <1>1, <1>2, <1>3 DEF Admit

(* A caller that abandons its permit and leaves.                           *)
LEMMA AbandonStep ==
  ASSUME EpisodeInv, TypeOK', NEW e \in Executions, InAdmission(e),
         AbandonPermit(e, permit[e], "done"), Leave(e),
         UNCHANGED <<attempts, detached>>
  PROVE  ProbeOwned' /\ EpisodeCoherent'
<1> USE AdmissionAssumption
    DEF TypeOK, Episodes, EpisodeInv, EpisodeCoherent, ProbesAreCurrent,
        ParkedIsRegistered, AdmittedCanAttempt, ClosedIsEmpty,
        DetachedAreDone, EndedAreDone, LeaderIsNoWaiter, AdmittedIsNoWaiter,
        NormalIsNoLeader, RequestsHaveBudget, InAdmission, Requesting,
        CanAttempt, MatchingProbe
<1>1. CASE permit[e].probe
  <2>1. /\ MatchingProbe(e, permit[e])
        /\ episode.leader = e
        /\ detached = {}
        /\ \A x \in Executions :
             x # e /\ InAdmission(x) => ~permit[x].probe
    BY <1>1, SoleProbe
  <2>2. /\ episode' = Vacated
        /\ pc' = [NotifyAll EXCEPT ![e] = "done"]
    BY <2>1 DEF AbandonPermit
  <2>3. /\ ~episode'.probe
        /\ episode'.leader = NoLeader
        /\ episode'.waiters = episode.waiters
        /\ episode'.phase = episode.phase
    BY <2>2 DEF Vacated
  <2>4. /\ state'[e] = "ended"
        /\ \A x \in Executions :
             x # e => state'[x] = state[x] /\ permit'[x] = permit[x]
    BY DEF Leave
  <2>5. episode'.phase # "recovering" => episode'.waiters = {}
    BY <2>3
  <2> HIDE DEF TypeOK, EpisodeInv, EpisodeCoherent
  <2> QED BY <2>1, <2>2, <2>3, <2>4, <2>5, ProbeReleased
<1>2. CASE ~permit[e].probe
  <2>1. UNCHANGED episode /\ pc' = [pc EXCEPT ![e] = "done"]
    BY <1>2 DEF AbandonPermit
  <2>2. ProbeOwned' BY <1>2, <2>1, OwnerStays DEF Leave
  <2>3. EpisodeCoherent' BY <2>1 DEF Leave, NormalPermit
  <2> QED BY <2>2, <2>3
<1> QED BY <1>1, <1>2

LEMMA SettleStep ==
  ASSUME EpisodeInv, TypeOK', NEW e \in Executions, Settle(e)
  PROVE  ProbeOwned' /\ EpisodeCoherent'
<1> DEFINE Matching == MatchingProbe(e, permit[e])
<1> USE AdmissionAssumption
    DEF TypeOK, Episodes, EpisodeInv, EpisodeCoherent, ProbesAreCurrent,
        ParkedIsRegistered, AdmittedCanAttempt, ClosedIsEmpty,
        DetachedAreDone, EndedAreDone, LeaderIsNoWaiter, AdmittedIsNoWaiter,
        NormalIsNoLeader, RequestsHaveBudget, InAdmission, Requesting,
        CanAttempt, MatchingProbe
<1>1. CASE (SettleAnswer(e) \/ SettleCorrection(e)) /\ Matching
  <2>1. pc[e] = "settling"
    BY <1>1 DEF SettleAnswer, SettleCorrection
  <2>2. /\ episode.leader = e
        /\ detached = {}
        /\ \A x \in Executions :
             x # e /\ InAdmission(x) => ~permit[x].probe
    BY <1>1, <2>1, SoleProbe
  <2>3. /\ pc' = [NotifyAll EXCEPT ![e] = "resolved"]
        /\ UNCHANGED <<attempts, permit, detached>>
    BY <1>1 DEF SettleAnswer, SettleCorrection
  <2>4. /\ state'[e] # "ended"
        /\ \A x \in Executions : x # e => state'[x] = state[x]
    BY <1>1, <2>1 DEF SettleAnswer, SettleCorrection, Failed
  <2>5. /\ ~episode'.probe
        /\ episode'.leader \in {NoLeader, e}
        /\ episode'.waiters \subseteq episode.waiters
        /\ episode'.phase # "recovering" =>
             episode'.leader = NoLeader /\ episode'.waiters = {}
    <3>1. CASE SettleAnswer(e)
      BY <1>1, <3>1 DEF SettleAnswer, NoEpisode
    <3>2. CASE SettleCorrection(e)
      <4>1. episode' = [episode EXCEPT !.probe = FALSE, !.ready = TRUE]
        BY <1>1, <3>2 DEF SettleCorrection
      <4>2. episode.phase = "recovering" BY <2>2
      <4> QED BY <2>2, <4>1, <4>2
    <3> QED BY <1>1, <3>1, <3>2
  <2>6. \A x \in Executions : x # e => permit'[x] = permit[x] BY <2>3
  <2>7. detached' = {} BY <2>2, <2>3
  <2> HIDE DEF TypeOK, EpisodeInv, EpisodeCoherent
  <2> QED
    BY <2>2, <2>3, <2>4, <2>5, <2>6, <2>7, ProbeReleased
<1>2. CASE (SettleAnswer(e) \/ SettleCorrection(e)) /\ ~Matching
  <2>1. /\ pc[e] = "settling"
        /\ ~permit[e].probe
        /\ pc' = [pc EXCEPT ![e] = "resolved"]
        /\ UNCHANGED <<episode, attempts, permit, detached>>
        /\ state' \in {state, Failed(e)}
    BY <1>2 DEF SettleAnswer, SettleCorrection
  <2>2. ProbeOwned' BY <2>1, OwnerStays
  <2>3. EpisodeCoherent' BY <2>1 DEF Failed
  <2> QED BY <2>2, <2>3
<1>3. CASE FailureOpensEpisode(e)
  <2>1. ProbeOwned'
    BY <1>3 DEF FailureOpensEpisode, Started, ProbeOwned
  <2>2. EpisodeCoherent'
    BY <1>3 DEF FailureOpensEpisode, SettlingFailure, Started, NotifyAll
  <2> QED BY <2>1, <2>2
<1>4. CASE FailureOfProbe(e)
  <2>1. ProbeOwned' BY <1>4 DEF FailureOfProbe, ProbeOwned
  <2>2. EpisodeCoherent'
    BY <1>4 DEF FailureOfProbe, SettlingFailure, NotifyAll
  <2> QED BY <2>1, <2>2
<1>5. CASE FailureAfterExhaustion(e)
  <2>1. ProbeOwned'
    BY <1>5 DEF FailureAfterExhaustion, ProbeOwned
  <2>2. EpisodeCoherent'
    BY <1>5 DEF FailureAfterExhaustion, SettlingFailure, Failed, NotifyAll
  <2> QED BY <2>1, <2>2
<1>6. CASE FailureJoinsEpisode(e)
  <2>1. /\ pc[e] = "settling" /\ ~permit[e].probe
        /\ UNCHANGED <<permit, detached>>
        /\ \A x \in Executions :
             pc'[x] = IF x = e THEN "resolved"
                      ELSE IF pc[x] = "waiting" THEN "gate" ELSE pc[x]
    BY <1>6 DEF FailureJoinsEpisode, SettlingFailure, NotifyAll
  <2>2. ProbeOwned' BY <1>6, <2>1, OwnerStays DEF FailureJoinsEpisode
  <2>3. EpisodeCoherent'
    BY <1>6 DEF FailureJoinsEpisode, SettlingFailure, NotifyAll
  <2> QED BY <2>2, <2>3
<1>7. CASE ExhaustEpisode(e)
  <2>1. ProbeOwned' BY <1>7 DEF ExhaustEpisode, Started, ProbeOwned
  <2>2. EpisodeCoherent' BY <1>7 DEF ExhaustEpisode, Started, NotifyAll
  <2> QED BY <2>1, <2>2
<1>8. CASE ExhaustAlone(e)
  <2>1. ProbeOwned' BY <1>8, OwnerStays DEF ExhaustAlone
  <2>2. EpisodeCoherent' BY <1>8 DEF ExhaustAlone, Failed
  <2> QED BY <2>1, <2>2
<1> QED BY <1>1, <1>2, <1>3, <1>4, <1>5, <1>6, <1>7, <1>8 DEF Settle

LEMMA CloseStep ==
  ASSUME EpisodeInv, TypeOK', NEW e \in Executions,
         Close(e) \/ Finish(e) \/ Quit(e)
  PROVE  ProbeOwned' /\ EpisodeCoherent'
<1> USE AdmissionAssumption
    DEF TypeOK, Episodes, EpisodeInv, EpisodeCoherent, ProbesAreCurrent,
        ParkedIsRegistered, AdmittedCanAttempt, ClosedIsEmpty,
        DetachedAreDone, EndedAreDone, LeaderIsNoWaiter, AdmittedIsNoWaiter,
        NormalIsNoLeader, RequestsHaveBudget, InAdmission, Requesting,
        CanAttempt, MatchingProbe
<1>1. CASE CloseAttempt(e)
  <2>1. ProbeOwned' BY <1>1, OwnerStays DEF CloseAttempt
  <2>2. EpisodeCoherent' BY <1>1 DEF CloseAttempt, NormalPermit
  <2> QED BY <2>1, <2>2
<1>2. CASE CloseAbandoned(e)
  BY <1>2, AbandonStep DEF CloseAbandoned
<1>3. CASE Finish(e) \/ Quit(e)
  <2>1. ProbeOwned' BY <1>3, OwnerStays DEF Finish, Quit, Leave
  <2>2. EpisodeCoherent' BY <1>3 DEF Finish, Quit, Leave, NormalPermit
  <2> QED BY <2>1, <2>2
<1> QED BY <1>1, <1>2, <1>3 DEF Close

LEMMA CancelStep ==
  ASSUME EpisodeInv, TypeOK', NEW e \in Executions, Cancel(e)
  PROVE  ProbeOwned' /\ EpisodeCoherent'
<1> DEFINE Leads == /\ episode.phase # "none"
                    /\ episode.generation = permit[e].generation
                    /\ episode.leader = e
                    /\ ~episode.probe
<1> USE AdmissionAssumption
    DEF TypeOK, Episodes, EpisodeInv, EpisodeCoherent, ProbesAreCurrent,
        ParkedIsRegistered, AdmittedCanAttempt, ClosedIsEmpty,
        DetachedAreDone, EndedAreDone, LeaderIsNoWaiter, AdmittedIsNoWaiter,
        NormalIsNoLeader, RequestsHaveBudget, InAdmission, Requesting,
        CanAttempt, MatchingProbe
<1>1. CASE CancelGate(e) \/ CancelWaiting(e)
  <2>1. ProbeOwned'
    BY <1>1, OwnerStays DEF CancelGate, CancelWaiting, Leave
  <2>2. EpisodeCoherent'
    BY <1>1 DEF CancelGate, CancelWaiting, Leave, NormalPermit
  <2> QED BY <2>1, <2>2
<1>2. CASE CancelBackoff(e) /\ Leads
  <2>1. episode.leader = e /\ ~episode.probe /\ pc[e] = "backoff"
    BY <1>2 DEF CancelBackoff
  <2>2. detached = {} BY <2>1
  <2>3. \A x \in Executions : x # e /\ InAdmission(x) => ~permit[x].probe
    BY <2>1
  <2>4. /\ pc' = [NotifyAll EXCEPT ![e] = "done"]
        /\ episode' = [episode EXCEPT !.leader = NoLeader]
        /\ UNCHANGED <<attempts, detached>>
    BY <1>2 DEF CancelBackoff
  <2>5. /\ ~episode'.probe
        /\ episode'.leader = NoLeader
        /\ episode'.waiters = episode.waiters
        /\ episode'.phase = episode.phase
    BY <2>1, <2>4
  <2>6. /\ state'[e] = "ended"
        /\ \A x \in Executions :
             x # e => state'[x] = state[x] /\ permit'[x] = permit[x]
    BY <1>2 DEF CancelBackoff, Leave
  <2>7. episode'.phase # "recovering" => episode'.waiters = {}
    BY <2>5
  <2> HIDE DEF TypeOK, EpisodeInv, EpisodeCoherent, Leads
  <2> QED BY <2>1, <2>2, <2>3, <2>4, <2>5, <2>6, <2>7, ProbeReleased
<1>3. CASE CancelBackoff(e) /\ ~Leads
  <2>1. ProbeOwned' BY <1>3, OwnerStays DEF CancelBackoff, Leave
  <2>2. EpisodeCoherent' BY <1>3 DEF CancelBackoff, Leave, NormalPermit
  <2> QED BY <2>1, <2>2
<1>4. CASE CancelPermit(e)
  BY <1>4, AbandonStep DEF CancelPermit
<1>5. CASE CancelAttempt(e)
  <2>1. ProbeOwned' BY <1>5, OwnerStays DEF CancelAttempt
  <2>2. EpisodeCoherent' BY <1>5 DEF CancelAttempt
  <2> QED BY <2>1, <2>2
<1>6. CASE CloseDetached(e)
  <2>1. ProbeOwned'
    BY <1>6 DEF CloseDetached, Leave, ProbeOwned, NormalPermit, ProbePermit
  <2>2. EpisodeCoherent'
    BY <1>6 DEF CloseDetached, Leave, NormalPermit, ProbePermit
  <2> QED BY <2>1, <2>2
<1> QED BY <1>1, <1>2, <1>3, <1>4, <1>5, <1>6 DEF Cancel

(* The shielded abandonment whose task is gone, the answers and the clock. *)
LEMMA OtherStep ==
  ASSUME EpisodeInv, TypeOK',
         \/ \E e \in Executions : \E o \in Outcomes \ {"none"} : Respond(e, o)
         \/ \E d \in detached : FinishDetached(d)
         \/ BackoffElapses \/ CooldownElapses \/ UNCHANGED vars
  PROVE  ProbeOwned' /\ EpisodeCoherent'
<1> USE AdmissionAssumption
    DEF TypeOK, Episodes, EpisodeInv, EpisodeCoherent, ProbesAreCurrent,
        ParkedIsRegistered, AdmittedCanAttempt, ClosedIsEmpty,
        DetachedAreDone, EndedAreDone, LeaderIsNoWaiter, AdmittedIsNoWaiter,
        NormalIsNoLeader, RequestsHaveBudget, InAdmission, Requesting,
        CanAttempt, MatchingProbe
<1>1. ASSUME NEW e \in Executions, NEW o \in Outcomes, Respond(e, o)
      PROVE  ProbeOwned' /\ EpisodeCoherent'
  <2>1. ProbeOwned' BY <1>1, OwnerStays DEF Respond
  <2>2. EpisodeCoherent' BY <1>1 DEF Respond
  <2> QED BY <2>1, <2>2
<1>2. ASSUME NEW d \in detached, FinishDetached(d)
      PROVE  ProbeOwned' /\ EpisodeCoherent'
  <2> DEFINE e == d.execution
  <2>1. e \in Executions /\ pc[e] = "done" OBVIOUS
  <2>2. MatchingProbe(e, ProbePermit(d.generation)) OBVIOUS
  <2>3. episode.leader = e /\ d.generation = episode.generation
    BY <2>2 DEF ProbePermit
  <2>4. \A x \in Executions : x # e /\ InAdmission(x) => ~permit[x].probe
    BY <2>3
  <2>5. detached = {d}
    <3>1. ASSUME NEW c \in detached PROVE c = d
      <4>1. MatchingProbe(c.execution, ProbePermit(c.generation)) OBVIOUS
      <4> QED BY <2>3, <4>1 DEF ProbePermit
    <3> QED BY <3>1
  <2>6. /\ pc' = [NotifyAll EXCEPT ![e] = "done"]
        /\ episode' = Vacated
        /\ detached' = {}
        /\ UNCHANGED <<state, attempts, permit>>
    BY <1>2, <2>2, <2>5 DEF FinishDetached, AbandonPermit
  <2> HIDE DEF e
  <2> QED
    BY <2>1, <2>3, <2>4, <2>6, ProbeReleased DEF Vacated
<1>3. CASE BackoffElapses
  <2>1. ProbeOwned' BY <1>3, OwnerStays DEF BackoffElapses
  <2>2. EpisodeCoherent' BY <1>3 DEF BackoffElapses
  <2> QED BY <2>1, <2>2
<1>4. CASE CooldownElapses
  <2>1. ProbeOwned' BY <1>4, OwnerStays DEF CooldownElapses
  <2>2. EpisodeCoherent' BY <1>4 DEF CooldownElapses
  <2> QED BY <2>1, <2>2
<1>5. CASE UNCHANGED vars
  <2>1. ProbeOwned' BY <1>5 DEF vars, ProbeOwned
  <2>2. EpisodeCoherent' BY <1>5 DEF vars
  <2> QED BY <2>1, <2>2
<1> QED BY <1>1, <1>2, <1>3, <1>4, <1>5

LEMMA EpisodeStep == EpisodeInv /\ [Next]_vars => EpisodeInv'
<1> SUFFICES ASSUME EpisodeInv, [Next]_vars PROVE EpisodeInv'
  OBVIOUS
<1>1. TypeOK' BY TypeStep DEF EpisodeInv
<1>2. ProbeOwned' /\ EpisodeCoherent'
  BY <1>1, GateStep, AdmitStep, SettleStep, CloseStep, CancelStep, OtherStep
     DEF Next, Quiescent
<1> QED BY <1>1, <1>2 DEF EpisodeInv

LEMMA EpisodeInit == Init => EpisodeInv
<1> SUFFICES ASSUME Init PROVE EpisodeInv
  OBVIOUS
<1>1. TypeOK
  BY AdmissionAssumption
     DEF Init, TypeOK, NoEpisode, NormalPermit, Permits, Episodes, Labels,
         States, Outcomes
<1>2. ProbeOwned BY DEF Init, ProbeOwned, NoEpisode
<1>3. EpisodeCoherent
  BY AdmissionAssumption
     DEF Init, NoEpisode, EpisodeCoherent, ProbesAreCurrent,
         ParkedIsRegistered, AdmittedCanAttempt, ClosedIsEmpty,
         DetachedAreDone, EndedAreDone, LeaderIsNoWaiter, AdmittedIsNoWaiter,
         NormalIsNoLeader, RequestsHaveBudget, InAdmission, Requesting
<1> QED BY <1>1, <1>2, <1>3 DEF EpisodeInv

(* The inductive invariant holds in every reachable state.                 *)
THEOREM EpisodeInvariant == Spec => []EpisodeInv
  BY EpisodeInit, EpisodeStep, PTL DEF Spec

(* An active probe always has exactly one owner that will settle it or     *)
(* give it back: the leader (admission.py, probe_active and leader).       *)
THEOREM ProbeHasOneOwner == Spec => [](ProbeOwned /\ ProbesAreCurrent)
<1>1. EpisodeInv => ProbeOwned /\ ProbesAreCurrent
  BY DEF EpisodeInv, EpisodeCoherent
<1> QED BY <1>1, EpisodeInvariant, PTL

(* A parked caller is registered with an episode that somebody leads.      *)
THEOREM NoLostWakeup == Spec => []ParkedIsRegistered
<1>1. EpisodeInv => ParkedIsRegistered
  BY DEF EpisodeInv, EpisodeCoherent
<1> QED BY <1>1, EpisodeInvariant, PTL

(* _claim_attempt never raises: whoever the gate admitted may still start. *)
THEOREM AdmittedMayStart == Spec => []AdmittedCanAttempt
<1>1. EpisodeInv => AdmittedCanAttempt
  BY DEF EpisodeInv, EpisodeCoherent
<1> QED BY <1>1, EpisodeInvariant, PTL

-----------------------------------------------------------------------------
(* Leadership and the end of an episode, as an action property.            *)

HandOver ==
  /\ episode.leader # NoLeader /\ episode'.leader # episode.leader =>
        episode'.leader = NoLeader
  /\ episode.phase \in {"recovering", "cooling", "cooled"}
     /\ episode'.phase = "none" =>
       \E e \in Executions :
         /\ episode.leader = e
         /\ pc[e] = "settling"
         /\ permit[e] = ProbePermit(episode.generation)

LEMMA HandOverStep == EpisodeInv /\ [Next]_vars => HandOver
<1> SUFFICES ASSUME EpisodeInv, [Next]_vars PROVE HandOver
  OBVIOUS
<1> USE DEF EpisodeInv, EpisodeCoherent, ClosedIsEmpty, TypeOK, Episodes,
            HandOver
<1>1. CASE UNCHANGED episode BY <1>1
<1>2. ASSUME NEW e \in Executions, Gate(e) PROVE HandOver
  BY <1>2 DEF Gate, OpenAttempt, PassGate, RefuseGate, LeadGate, FollowGate,
              WakeLeader, EpisodeAtGate, Started
<1>3. ASSUME NEW e \in Executions, Settle(e) PROVE HandOver
  <2>1. CASE SettleAnswer(e) /\ MatchingProbe(e, permit[e])
    <3>1. permit[e] = ProbePermit(episode.generation)
      BY <2>1 DEF MatchingProbe, ProbePermit, Permits
    <3>2. episode.leader = e /\ pc[e] = "settling"
      BY <2>1 DEF SettleAnswer, MatchingProbe
    <3>3. episode'.leader = NoLeader BY <2>1 DEF SettleAnswer, NoEpisode
    <3> QED BY <3>1, <3>2, <3>3
  <2>2. CASE SettleAnswer(e) /\ ~MatchingProbe(e, permit[e])
    BY <2>2 DEF SettleAnswer
  <2>3. CASE ~SettleAnswer(e)
    BY <1>3, <2>3
       DEF Settle, SettleCorrection, FailureOpensEpisode, FailureOfProbe,
           FailureAfterExhaustion, FailureJoinsEpisode, ExhaustEpisode,
           ExhaustAlone, Started
  <2> QED BY <2>1, <2>2, <2>3
<1>4. ASSUME NEW e \in Executions, NEW p, NEW label,
             AbandonPermit(e, p, label)
      PROVE  HandOver
  BY <1>4 DEF AbandonPermit, Vacated, MatchingProbe
<1>5. ASSUME NEW e \in Executions, Admit(e) \/ Close(e) PROVE HandOver
  BY <1>1, <1>4, <1>5
     DEF Admit, PassLimiter, StartAttempt, RejectAtLimiter, RejectAtSlot,
         Close, CloseAttempt, CloseAbandoned
<1>6. ASSUME NEW e \in Executions, Cancel(e) PROVE HandOver
  <2>1. CASE CancelPermit(e) BY <1>4, <2>1 DEF CancelPermit
  <2>2. CASE ~CancelPermit(e)
    BY <1>6, <2>2 DEF Cancel, CancelGate, CancelWaiting, CancelBackoff,
                      CancelAttempt, CloseDetached
  <2> QED BY <2>1, <2>2
<1>7. ASSUME NEW e \in Executions,
             \/ Finish(e) \/ Quit(e)
             \/ \E o \in Outcomes \ {"none"} : Respond(e, o)
      PROVE  HandOver
  BY <1>1, <1>7 DEF Finish, Quit, Respond
<1>8. ASSUME NEW d \in detached, FinishDetached(d) PROVE HandOver
  BY <1>4, <1>8 DEF FinishDetached
<1>9. CASE BackoffElapses BY <1>9 DEF BackoffElapses
<1>10. CASE CooldownElapses BY <1>10 DEF CooldownElapses
<1> QED
  BY <1>1, <1>2, <1>3, <1>5, <1>6, <1>7, <1>8, <1>9, <1>10
     DEF Next, Quiescent, vars

(* Leadership passes through "nobody", and only the answer to an episode's *)
(* own probe closes it.                                                    *)
THEOREM LeadershipPasses == Spec => LeadershipIsHandedOver
<1>1. EpisodeInv /\ [Next]_vars => [HandOver]_vars
  BY HandOverStep
<1> QED
  BY <1>1, EpisodeInvariant, PTL
     DEF Spec, LeadershipIsHandedOver, HandOver

-----------------------------------------------------------------------------
(* The semaphore.                                                          *)

Holders == {e \in Executions : HoldsSlot(e)}

SlotInv == EpisodeInv /\ free + Cardinality(Holders) = MaxConcurrency

(* Taking and giving back a slot.                                          *)
LEMMA SlotTaken ==
  ASSUME SlotInv, NEW e \in Executions, ~HoldsSlot(e),
         Holders' = Holders \union {e}, free > 0, free' = free - 1
  PROVE  free' + Cardinality(Holders') = MaxConcurrency
<1>1. IsFiniteSet(Holders) /\ e \notin Holders
  BY AdmissionAssumption, FS_Subset DEF Holders
<1>2. Cardinality(Holders') = Cardinality(Holders) + 1
  BY <1>1, FS_AddElement
<1>3. Cardinality(Holders) \in Nat BY <1>1, FS_CardinalityType
<1> QED
  BY <1>2, <1>3, AdmissionAssumption DEF SlotInv, EpisodeInv, TypeOK

LEMMA SlotReleased ==
  ASSUME SlotInv, NEW e \in Executions, HoldsSlot(e),
         Holders' = Holders \ {e}, free' = free + 1
  PROVE  free' + Cardinality(Holders') = MaxConcurrency
<1>1. IsFiniteSet(Holders) /\ e \in Holders
  BY AdmissionAssumption, FS_Subset DEF Holders
<1>2. Cardinality(Holders') = Cardinality(Holders) - 1
  BY <1>1, FS_RemoveElement
<1>3. Cardinality(Holders) \in Nat BY <1>1, FS_CardinalityType
<1> QED
  BY <1>2, <1>3, AdmissionAssumption DEF SlotInv, EpisodeInv, TypeOK

LEMMA SlotStep == SlotInv /\ [Next]_vars => SlotInv'
<1> SUFFICES ASSUME SlotInv, [Next]_vars PROVE SlotInv'
  OBVIOUS
<1>0. EpisodeInv' BY EpisodeStep DEF SlotInv
<1> USE DEF SlotInv, EpisodeInv, TypeOK
<1>1. ASSUME UNCHANGED free,
             \A x \in Executions : HoldsSlot(x) <=> (HoldsSlot(x))'
      PROVE  SlotInv'
  <2>1. Holders' = Holders BY <1>1 DEF Holders
  <2> QED BY <1>0, <1>1, <2>1
<1>2. ASSUME NEW e \in Executions, Gate(e) PROVE SlotInv'
  BY <1>1, <1>2
     DEF Gate, OpenAttempt, PassGate, RefuseGate, LeadGate, FollowGate,
         WakeLeader, HoldsSlot
<1>3. ASSUME NEW e \in Executions, Admit(e) PROVE SlotInv'
  <2>1. CASE StartAttempt(e)
    <3>1. Holders' = Holders \union {e}
      BY <2>1 DEF StartAttempt, Holders, HoldsSlot
    <3>2. ~HoldsSlot(e) BY <2>1 DEF StartAttempt, HoldsSlot
    <3>3. free > 0 /\ free' = free - 1 BY <2>1 DEF StartAttempt
    <3> QED BY <1>0, <3>1, <3>2, <3>3, SlotTaken
  <2>2. CASE ~StartAttempt(e)
    BY <1>1, <1>3, <2>2
       DEF Admit, PassLimiter, RejectAtLimiter, RejectAtSlot, AbandonPermit,
           NotifyAll, HoldsSlot
  <2> QED BY <2>1, <2>2
<1>4. ASSUME NEW e \in Executions, Settle(e) PROVE SlotInv'
  BY <1>1, <1>4
     DEF Settle, SettleAnswer, SettleCorrection, FailureOpensEpisode,
         FailureOfProbe, FailureAfterExhaustion, FailureJoinsEpisode,
         SettlingFailure, ExhaustEpisode, ExhaustAlone, NotifyAll, HoldsSlot
<1>5. ASSUME NEW e \in Executions, Close(e) \/ CloseDetached(e)
      PROVE  SlotInv'
  <2>1. HoldsSlot(e) /\ free' = free + 1
    BY <1>5 DEF Close, CloseAttempt, CloseAbandoned, CloseDetached, HoldsSlot
  <2>2. Holders' = Holders \ {e}
    BY <1>5 DEF Close, CloseAttempt, CloseAbandoned, CloseDetached,
                AbandonPermit, NotifyAll, Holders, HoldsSlot
  <2> QED BY <1>0, <2>1, <2>2, SlotReleased
<1>6. ASSUME NEW e \in Executions, Cancel(e), ~CloseDetached(e)
      PROVE  SlotInv'
  BY <1>1, <1>6
     DEF Cancel, CancelGate, CancelWaiting, CancelBackoff, CancelPermit,
         CancelAttempt, AbandonPermit, NotifyAll, HoldsSlot
<1>7. ASSUME NEW e \in Executions,
             \/ Finish(e) \/ Quit(e)
             \/ \E o \in Outcomes \ {"none"} : Respond(e, o)
      PROVE  SlotInv'
  BY <1>1, <1>7 DEF Finish, Quit, Respond, HoldsSlot
<1>8. ASSUME NEW d \in detached, FinishDetached(d) PROVE SlotInv'
  <2>1. pc[d.execution] = "done" /\ d.execution \in Executions
    BY DEF EpisodeCoherent, DetachedAreDone
  <2> QED
    BY <1>1, <1>8, <2>1 DEF FinishDetached, AbandonPermit, NotifyAll, HoldsSlot
<1>9. CASE BackoffElapses \/ CooldownElapses \/ UNCHANGED vars
  BY <1>1, <1>9 DEF BackoffElapses, CooldownElapses, vars, HoldsSlot
<1> QED
  BY <1>2, <1>3, <1>4, <1>5, <1>6, <1>7, <1>8, <1>9 DEF Next, Quiescent

(* No path through an attempt leaks a slot or returns one twice.           *)
THEOREM SlotsConserved == Spec => []SlotsAccounted
<1>1. Init => SlotInv
  <2> SUFFICES ASSUME Init PROVE SlotInv
    OBVIOUS
  <2>1. Holders = {} BY DEF Init, Holders, HoldsSlot
  <2>2. EpisodeInv BY EpisodeInit
  <2> QED
    BY <2>1, <2>2, FS_EmptySet, AdmissionAssumption DEF Init, SlotInv
<1>2. SlotInv => SlotsAccounted BY DEF SlotInv, SlotsAccounted, Holders
<1> QED BY <1>1, <1>2, SlotStep, PTL DEF Spec

=============================================================================
