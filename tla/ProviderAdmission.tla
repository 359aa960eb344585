-------------------------- MODULE ProviderAdmission --------------------------
(***************************************************************************)
(* Admission control of one upstream provider (providers/admission.py).    *)
(*                                                                         *)
(* Logical executions share one controller.  Each physical call passes the *)
(* recovery gate, then the sliding-window limiter, then a concurrency      *)
(* semaphore.  The first transient failure opens a recovery episode: one   *)
(* execution leads it and sends half-open probes, the others wait on the   *)
(* controller's condition until the episode closes, changes leader, or is  *)
(* exhausted.                                                              *)
(*                                                                         *)
(* One step is what a task does between two suspension points.  The        *)
(* condition's critical sections never suspend, so each is one step; a     *)
(* task that must queue for the condition's lock is at a program point of  *)
(* its own ("gate", "settling", "closing").  Time is abstract: `ready'     *)
(* and the phases "cooling"/"cooled" say whether ready_at and              *)
(* terminal_until have passed.  The limiter's capacity is abstract here    *)
(* and modelled in RateWindow: admission may come at any later time.       *)
(***************************************************************************)
EXTENDS Naturals, FiniteSets

CONSTANTS
  Executions,       (* the logical operations that use this controller      *)
  NoLeader,         (* episode.leader is None                               *)
  MaxConcurrency,   (* slots of the semaphore                               *)
  MaxAttempts       (* physical calls one execution may start               *)

ASSUME AdmissionAssumption ==
  /\ IsFiniteSet(Executions)
  /\ NoLeader \notin Executions
  /\ MaxConcurrency \in Nat \ {0}
  /\ MaxAttempts \in Nat \ {0}

VARIABLES
  pc,               (* where each execution's caller is                     *)
  state,            (* ProviderExecutionState                               *)
  attempts,         (* _attempts_started                                    *)
  permit,           (* the last _GatePermit the execution received          *)
  outcome,          (* how its latest attempt was answered                  *)
  episode,          (* the controller's _RecoveryEpisode                    *)
  nextGeneration,
  free,             (* value of _concurrency_sem                            *)
  detached          (* shielded abandonments whose awaiting task is gone    *)

vars == <<pc, state, attempts, permit, outcome, episode, nextGeneration,
          free, detached>>

-----------------------------------------------------------------------------
(* ProviderExecutionState, as the controller tells it apart: "failed" once *)
(* an attempt or the exhausted episode failed it, "ended" once its caller  *)
(* called succeed(), fail() or abandon() and left.                         *)
States == {"active", "failed", "ended"}

(* "idle": between attempts, in the caller.  "gate": about to enter the    *)
(* gate's critical section.  "waiting": parked on the condition.           *)
(* "backoff": the leader asleep.  "limiter", "slot": holding a permit,     *)
(* waiting for the limiter, for the semaphore.  "call": the physical call  *)
(* is in flight.  "settling": the answer is known, the condition's lock is *)
(* not held yet.  "resolved": settled, slot still held.  "closing":        *)
(* aclose() of an unresolved attempt.                                      *)
Labels == {"idle", "gate", "waiting", "backoff", "limiter", "slot", "call",
           "settling", "resolved", "closing", "done"}

Outcomes == {"none", "accept", "correct", "reject", "fail", "exhaust"}

Permits == [probe : BOOLEAN, generation : Nat]

Episodes == [phase      : {"none", "recovering", "cooling", "cooled"},
             generation : Nat,
             leader     : Executions \union {NoLeader},
             ready      : BOOLEAN,
             probe      : BOOLEAN,
             waiters    : SUBSET Executions]

NormalPermit == [probe |-> FALSE, generation |-> 0]
ProbePermit(g) == [probe |-> TRUE, generation |-> g]

NoEpisode == [phase |-> "none", generation |-> 0, leader |-> NoLeader,
              ready |-> TRUE, probe |-> FALSE, waiters |-> {}]

(* _start_recovery_episode                                                 *)
Started(l, isReady) ==
  [phase |-> "recovering", generation |-> nextGeneration, leader |-> l,
   ready |-> isReady, probe |-> FALSE, waiters |-> {}]

(* What _attempt_abandoned and _abandon_probe_permit leave behind.         *)
Vacated ==
  [episode EXCEPT !.leader = NoLeader, !.probe = FALSE, !.ready = TRUE]

CanAttempt(e) == state[e] = "active" /\ attempts[e] < MaxAttempts

PermitIsCurrent(e) ==
  IF permit[e].probe
  THEN /\ episode.phase = "recovering"
       /\ episode.generation = permit[e].generation
       /\ episode.leader = e
       /\ episode.probe
  ELSE episode.phase = "none"

(* _matching_probe: the episode this permit's probe still speaks for.      *)
MatchingProbe(e, p) ==
  /\ p.probe
  /\ episode.phase # "none"
  /\ episode.generation = p.generation
  /\ episode.leader = e
  /\ episode.probe

(* Mutant of NotifyAll: a state change that wakes nobody.                  *)
MutantNotifyAll == pc

(* condition.notify_all(): every parked task goes back to the gate.        *)
NotifyAll ==
  [x \in Executions |-> IF pc[x] = "waiting" THEN "gate" ELSE pc[x]]

(* execution.fail() acts on an active execution only.                      *)
Failed(e) == [state EXCEPT ![e] = IF @ = "active" THEN "failed" ELSE @]

(* The caller leaves: what only its task knew is forgotten.                *)
Leave(e) ==
  /\ state' = [state EXCEPT ![e] = "ended"]
  /\ permit' = [permit EXCEPT ![e] = NormalPermit]
  /\ outcome' = [outcome EXCEPT ![e] = "none"]

Init ==
  /\ pc = [e \in Executions |-> "idle"]
  /\ state = [e \in Executions |-> "active"]
  /\ attempts = [e \in Executions |-> 0]
  /\ permit = [e \in Executions |-> NormalPermit]
  /\ outcome = [e \in Executions |-> "none"]
  /\ episode = NoEpisode
  /\ nextGeneration = 1
  /\ free = MaxConcurrency
  /\ detached = {}

-----------------------------------------------------------------------------
(* The gate: _open_attempt's checks and _wait_for_gate.                    *)

OpenAttempt(e) ==
  /\ pc[e] = "idle"
  /\ CanAttempt(e)
  /\ pc' = [pc EXCEPT ![e] = "gate"]
  /\ outcome' = [outcome EXCEPT ![e] = "none"]
  /\ UNCHANGED <<state, attempts, permit, episode, nextGeneration, free,
                 detached>>

(* Mutant of PassGate: a woken waiter does not look at its own state.      *)
MutantPassGate(e) ==
  /\ pc[e] = "gate"
  /\ episode.phase = "none"
  /\ permit' = [permit EXCEPT ![e] = NormalPermit]
  /\ pc' = [pc EXCEPT ![e] = "limiter"]
  /\ UNCHANGED <<state, attempts, outcome, episode, nextGeneration, free,
                 detached>>

PassGate(e) ==
  /\ pc[e] = "gate"
  /\ state[e] # "failed"
  /\ episode.phase = "none"
  /\ permit' = [permit EXCEPT ![e] = NormalPermit]
  /\ pc' = [pc EXCEPT ![e] = "limiter"]
  /\ UNCHANGED <<state, attempts, outcome, episode, nextGeneration, free,
                 detached>>

(* A waiter that the exhausted leader failed, or an arrival during the     *)
(* cooldown, gets ProviderRecoveryExhausted; its caller ends the execution. *)
RefuseGate(e) ==
  /\ pc[e] = "gate"
  /\ state[e] = "failed" \/ episode.phase = "cooling"
  /\ Leave(e)
  /\ pc' = [pc EXCEPT ![e] = "done"]
  /\ UNCHANGED <<attempts, episode, nextGeneration, free, detached>>

(* Mutant of EpisodeAtGate: once ready_at has passed, leadership is taken  *)
(* over from a leader that still holds it.                                 *)
MutantEpisodeAtGate(e) ==
  IF episode.phase = "cooled"
  THEN Started(e, TRUE)
  ELSE IF episode.leader = NoLeader \/ episode.ready
       THEN [episode EXCEPT !.leader = e, !.waiters = @ \ {e}]
       ELSE episode

(* The first arrival after the cooldown opens a new episode; a vacant      *)
(* leadership goes to whoever runs first.                                  *)
EpisodeAtGate(e) ==
  IF episode.phase = "cooled"
  THEN Started(e, TRUE)
  ELSE IF episode.leader = NoLeader
       THEN [episode EXCEPT !.leader = e, !.waiters = @ \ {e}]
       ELSE episode

GenerationAtGate ==
  IF episode.phase = "cooled" THEN nextGeneration + 1 ELSE nextGeneration

LeadGate(e) ==
  LET ep == EpisodeAtGate(e) IN
  /\ pc[e] = "gate"
  /\ state[e] # "failed"
  /\ episode.phase \in {"recovering", "cooled"}
  /\ ep.leader = e
  /\ ~ep.probe
  /\ nextGeneration' = GenerationAtGate
  /\ episode' = [ep EXCEPT !.probe = ep.ready]
  /\ permit' = [permit EXCEPT ![e] =
                  [probe |-> ep.ready, generation |-> ep.generation]]
  /\ pc' = [pc EXCEPT ![e] = IF ep.ready THEN "limiter" ELSE "backoff"]
  /\ UNCHANGED <<state, attempts, outcome, free, detached>>

(* Everybody else parks; so would a leader that found a probe in flight.   *)
FollowGate(e) ==
  /\ pc[e] = "gate"
  /\ state[e] # "failed"
  /\ episode.phase = "recovering"
  /\ LET ep == EpisodeAtGate(e) IN
     /\ ep.leader = e => ep.probe
     /\ episode' = IF ep.leader = e
                   THEN ep
                   ELSE [ep EXCEPT !.waiters = @ \union {e}]
  /\ pc' = [pc EXCEPT ![e] = "waiting"]
  /\ UNCHANGED <<state, attempts, permit, outcome, nextGeneration, free,
                 detached>>

(* The leader's sleep ends at ready_at; it probes if it still leads.       *)
WakeLeader(e) ==
  LET leads == /\ episode.phase = "recovering"
               /\ episode.generation = permit[e].generation
               /\ episode.leader = e
               /\ ~episode.probe
  IN
  /\ pc[e] = "backoff"
  /\ leads => episode.ready
  /\ episode' = IF leads THEN [episode EXCEPT !.probe = TRUE] ELSE episode
  /\ permit' = IF leads
               THEN [permit EXCEPT ![e] = ProbePermit(episode.generation)]
               ELSE permit
  /\ pc' = [pc EXCEPT ![e] = IF leads THEN "limiter" ELSE "gate"]
  /\ UNCHANGED <<state, attempts, outcome, nextGeneration, free, detached>>

-----------------------------------------------------------------------------
(* Limiter and semaphore.  A permit is checked again after each wait.      *)

(* Mutant of AbandonPermit: the probe is not given back.                   *)
MutantAbandonPermit(e, p, label) ==
  /\ UNCHANGED episode
  /\ pc' = [pc EXCEPT ![e] = label]

(* _abandon_probe_permit, after which the execution continues at `label`.  *)
AbandonPermit(e, p, label) ==
  IF MatchingProbe(e, p)
  THEN /\ episode' = Vacated
       /\ pc' = [NotifyAll EXCEPT ![e] = label]
  ELSE /\ UNCHANGED episode
       /\ pc' = [pc EXCEPT ![e] = label]

PassLimiter(e) ==
  /\ pc[e] = "limiter"
  /\ PermitIsCurrent(e)
  /\ pc' = [pc EXCEPT ![e] = "slot"]
  /\ UNCHANGED <<state, attempts, permit, outcome, episode, nextGeneration,
                 free, detached>>

(* acquire_if found the permit stale: no quota is used, back to the gate.  *)
RejectAtLimiter(e) ==
  /\ pc[e] = "limiter"
  /\ ~PermitIsCurrent(e)
  /\ AbandonPermit(e, permit[e], "gate")
  /\ UNCHANGED <<state, attempts, permit, outcome, nextGeneration, free,
                 detached>>

StartAttempt(e) ==
  /\ pc[e] = "slot"
  /\ free > 0
  /\ PermitIsCurrent(e)
  /\ CanAttempt(e)
  /\ free' = free - 1
  /\ attempts' = [attempts EXCEPT ![e] = @ + 1]
  /\ pc' = [pc EXCEPT ![e] = "call"]
  /\ UNCHANGED <<state, permit, outcome, episode, nextGeneration, detached>>

(* Mutant of RejectAtSlot: the slot that came too late is kept.            *)
MutantRejectAtSlot(e) ==
  /\ pc[e] = "slot"
  /\ free > 0
  /\ ~PermitIsCurrent(e)
  /\ AbandonPermit(e, permit[e], "gate")
  /\ free' = free - 1
  /\ UNCHANGED <<state, attempts, permit, outcome, nextGeneration, detached>>

(* The slot came too late: it is released at once, back to the gate.       *)
RejectAtSlot(e) ==
  /\ pc[e] = "slot"
  /\ free > 0
  /\ ~PermitIsCurrent(e)
  /\ AbandonPermit(e, permit[e], "gate")
  /\ UNCHANGED <<state, attempts, permit, outcome, nextGeneration, free,
                 detached>>

-----------------------------------------------------------------------------
(* The physical call and its resolution.  The budget is read (correct(),   *)
(* fail()) before the condition's lock is taken, and used after it.        *)

Respond(e, o) ==
  /\ pc[e] = "call"
  /\ o \in {"correct", "fail"} => CanAttempt(e)
  /\ o = "exhaust" => ~CanAttempt(e)
  /\ outcome' = [outcome EXCEPT ![e] = o]
  /\ pc' = [pc EXCEPT ![e] = "settling"]
  /\ UNCHANGED <<state, attempts, permit, episode, nextGeneration, free,
                 detached>>

(* _attempt_accepted and _attempt_rejected close the episode they probed.  *)
SettleAnswer(e) ==
  /\ pc[e] = "settling"
  /\ outcome[e] \in {"accept", "reject"}
  /\ IF MatchingProbe(e, permit[e])
     THEN /\ episode' = NoEpisode
          /\ pc' = [NotifyAll EXCEPT ![e] = "resolved"]
     ELSE /\ UNCHANGED episode
          /\ pc' = [pc EXCEPT ![e] = "resolved"]
  /\ state' = IF outcome[e] = "reject" THEN Failed(e) ELSE state
  /\ UNCHANGED <<attempts, permit, outcome, nextGeneration, free, detached>>

(* _attempt_corrected: the leader keeps the episode and may probe at once. *)
SettleCorrection(e) ==
  /\ pc[e] = "settling"
  /\ outcome[e] = "correct"
  /\ IF MatchingProbe(e, permit[e])
     THEN /\ episode' = [episode EXCEPT !.probe = FALSE, !.ready = TRUE]
          /\ pc' = [NotifyAll EXCEPT ![e] = "resolved"]
     ELSE /\ UNCHANGED episode
          /\ pc' = [pc EXCEPT ![e] = "resolved"]
  /\ UNCHANGED <<state, attempts, permit, outcome, nextGeneration, free,
                 detached>>

(* _attempt_failed with budget left: the four cases of its if-chain.       *)
SettlingFailure(e) ==
  /\ pc[e] = "settling"
  /\ outcome[e] = "fail"
  /\ pc' = [NotifyAll EXCEPT ![e] = "resolved"]
  /\ UNCHANGED <<attempts, permit, outcome, free, detached>>

FailureOpensEpisode(e) ==
  /\ SettlingFailure(e)
  /\ episode.phase = "none"
  /\ episode' = Started(e, FALSE)
  /\ nextGeneration' = nextGeneration + 1
  /\ UNCHANGED state

FailureOfProbe(e) ==
  /\ SettlingFailure(e)
  /\ MatchingProbe(e, permit[e])
  /\ episode' = [episode EXCEPT !.probe = FALSE, !.ready = FALSE]
  /\ UNCHANGED <<state, nextGeneration>>

FailureAfterExhaustion(e) ==
  /\ SettlingFailure(e)
  /\ episode.phase \in {"cooling", "cooled"}
  /\ ~MatchingProbe(e, permit[e])
  /\ state' = Failed(e)
  /\ UNCHANGED <<episode, nextGeneration>>

FailureJoinsEpisode(e) ==
  /\ SettlingFailure(e)
  /\ episode.phase = "recovering"
  /\ ~MatchingProbe(e, permit[e])
  /\ episode' = [episode EXCEPT !.waiters = @ \union {e}]
  /\ UNCHANGED <<state, nextGeneration>>

(* _attempt_failed without budget: a probe, or a failure that finds no     *)
(* episode, exhausts the episode and fails all its waiters.                *)
ExhaustEpisode(e) ==
  LET ep == IF episode.phase = "none" THEN Started(NoLeader, TRUE) ELSE episode
  IN
  /\ pc[e] = "settling"
  /\ outcome[e] = "exhaust"
  /\ episode.phase = "none" \/ MatchingProbe(e, permit[e])
  /\ episode' = [ep EXCEPT !.phase = "cooling", !.leader = NoLeader,
                           !.probe = FALSE, !.waiters = {}]
  /\ nextGeneration' = IF episode.phase = "none" THEN nextGeneration + 1
                                                 ELSE nextGeneration
  /\ state' = [x \in Executions |->
                 IF (x = e \/ x \in ep.waiters) /\ state[x] = "active"
                 THEN "failed" ELSE state[x]]
  /\ pc' = [NotifyAll EXCEPT ![e] = "resolved"]
  /\ UNCHANGED <<attempts, permit, outcome, free, detached>>

(* ... and a late exhausted failure changes nothing but its own execution. *)
ExhaustAlone(e) ==
  /\ pc[e] = "settling"
  /\ outcome[e] = "exhaust"
  /\ episode.phase # "none"
  /\ ~MatchingProbe(e, permit[e])
  /\ state' = Failed(e)
  /\ pc' = [pc EXCEPT ![e] = "resolved"]
  /\ UNCHANGED <<attempts, permit, outcome, episode, nextGeneration, free,
                 detached>>

(* aclose() of a resolved attempt only releases the slot.                  *)
CloseAttempt(e) ==
  /\ pc[e] = "resolved"
  /\ free' = free + 1
  /\ pc' = [pc EXCEPT ![e] = "idle"]
  /\ permit' = [permit EXCEPT ![e] = NormalPermit]
  /\ UNCHANGED <<state, attempts, outcome, episode, nextGeneration, detached>>

-----------------------------------------------------------------------------
(* The end of the logical operation.  Finish: after an accepted attempt    *)
(* the caller may stop, and it must once no attempt is left.               *)
Finish(e) ==
  /\ pc[e] = "idle"
  /\ outcome[e] = "accept" \/ ~CanAttempt(e)
  /\ Leave(e)
  /\ pc' = [pc EXCEPT ![e] = "done"]
  /\ UNCHANGED <<attempts, episode, nextGeneration, free, detached>>

(* A caller that awaits other work between two attempts (the Codex loop's  *)
(* auth.access() and recover_unauthorized(), closing a stream) may raise   *)
(* or be cancelled there: fail()/abandon() tell the controller nothing.    *)
Quit(e) ==
  /\ pc[e] = "idle"
  /\ outcome[e] \in {"correct", "fail"}
  /\ CanAttempt(e)
  /\ Leave(e)
  /\ pc' = [pc EXCEPT ![e] = "done"]
  /\ UNCHANGED <<attempts, episode, nextGeneration, free, detached>>

-----------------------------------------------------------------------------
(* Cancellation of the caller's task, at each suspension point.            *)

(* Queued for the condition's lock: a woken waiter leaves the waiters, a   *)
(* fresh arrival changes nothing.                                          *)
CancelGate(e) ==
  /\ pc[e] = "gate"
  /\ \E w \in {episode.waiters, episode.waiters \ {e}} :
       episode' = [episode EXCEPT !.waiters = w]
  /\ Leave(e)
  /\ pc' = [pc EXCEPT ![e] = "done"]
  /\ UNCHANGED <<attempts, nextGeneration, free, detached>>

CancelWaiting(e) ==
  /\ pc[e] = "waiting"
  /\ episode' = [episode EXCEPT !.waiters = @ \ {e}]
  /\ Leave(e)
  /\ pc' = [pc EXCEPT ![e] = "done"]
  /\ UNCHANGED <<attempts, nextGeneration, free, detached>>

(* _abandon_waiting_leader                                                 *)
CancelBackoff(e) ==
  /\ pc[e] = "backoff"
  /\ IF /\ episode.phase # "none"
        /\ episode.generation = permit[e].generation
        /\ episode.leader = e
        /\ ~episode.probe
     THEN /\ episode' = [episode EXCEPT !.leader = NoLeader]
          /\ pc' = [NotifyAll EXCEPT ![e] = "done"]
     ELSE /\ UNCHANGED episode
          /\ pc' = [pc EXCEPT ![e] = "done"]
  /\ Leave(e)
  /\ UNCHANGED <<attempts, nextGeneration, free, detached>>

CancelPermit(e) ==
  /\ pc[e] \in {"limiter", "slot"}
  /\ AbandonPermit(e, permit[e], "done")
  /\ Leave(e)
  /\ UNCHANGED <<attempts, nextGeneration, free, detached>>

(* Before the attempt is resolved: aclose() will abandon it.               *)
CancelAttempt(e) ==
  /\ pc[e] \in {"call", "settling"}
  /\ pc' = [pc EXCEPT ![e] = "closing"]
  /\ outcome' = [outcome EXCEPT ![e] = "none"]
  /\ UNCHANGED <<state, attempts, permit, episode, nextGeneration, free,
                 detached>>

CloseAbandoned(e) ==
  /\ pc[e] = "closing"
  /\ AbandonPermit(e, permit[e], "done")
  /\ Leave(e)
  /\ free' = free + 1
  /\ UNCHANGED <<attempts, nextGeneration, detached>>

(* Cancelled again inside aclose(): the slot is released now, the shielded *)
(* abandonment runs on by itself.                                          *)
CloseDetached(e) ==
  /\ pc[e] = "closing"
  /\ permit[e].probe
  /\ detached' = detached \union
                    {[execution |-> e, generation |-> permit[e].generation]}
  /\ Leave(e)
  /\ free' = free + 1
  /\ pc' = [pc EXCEPT ![e] = "done"]
  /\ UNCHANGED <<attempts, episode, nextGeneration>>

FinishDetached(d) ==
  /\ d \in detached
  /\ detached' = detached \ {d}
  /\ AbandonPermit(d.execution, ProbePermit(d.generation), "done")
  /\ UNCHANGED <<state, attempts, permit, outcome, nextGeneration, free>>

-----------------------------------------------------------------------------
BackoffElapses ==
  /\ episode.phase = "recovering"
  /\ ~episode.ready
  /\ episode' = [episode EXCEPT !.ready = TRUE]
  /\ UNCHANGED <<pc, state, attempts, permit, outcome, nextGeneration, free,
                 detached>>

CooldownElapses ==
  /\ episode.phase = "cooling"
  /\ episode' = [episode EXCEPT !.phase = "cooled"]
  /\ UNCHANGED <<pc, state, attempts, permit, outcome, nextGeneration, free,
                 detached>>

(* All operations are over.                                                *)
Quiescent ==
  /\ \A e \in Executions : pc[e] = "done"
  /\ detached = {}
  /\ UNCHANGED vars

Gate(e) == \/ OpenAttempt(e) \/ PassGate(e) \/ RefuseGate(e) \/ LeadGate(e)
           \/ FollowGate(e) \/ WakeLeader(e)

Admit(e) == \/ PassLimiter(e) \/ RejectAtLimiter(e)
            \/ StartAttempt(e) \/ RejectAtSlot(e)

Settle(e) == \/ SettleAnswer(e) \/ SettleCorrection(e)
             \/ FailureOpensEpisode(e) \/ FailureOfProbe(e)
             \/ FailureAfterExhaustion(e) \/ FailureJoinsEpisode(e)
             \/ ExhaustEpisode(e) \/ ExhaustAlone(e)

Close(e) == CloseAttempt(e) \/ CloseAbandoned(e)

Cancel(e) == \/ CancelGate(e) \/ CancelWaiting(e) \/ CancelBackoff(e)
             \/ CancelPermit(e) \/ CancelAttempt(e) \/ CloseDetached(e)

Next ==
  \/ \E e \in Executions :
       \/ Gate(e) \/ Admit(e) \/ Settle(e) \/ Close(e) \/ Cancel(e)
       \/ Finish(e) \/ Quit(e)
       \/ \E o \in Outcomes \ {"none"} : Respond(e, o)
  \/ \E d \in detached : FinishDetached(d)
  \/ BackoffElapses \/ CooldownElapses
  \/ Quiescent

Spec == Init /\ [][Next]_vars

(* What an execution's task does by itself, and what the clock does.       *)
Run(e) == \/ Gate(e) \/ Settle(e) \/ Close(e) \/ Finish(e)
          \/ \E o \in Outcomes \ {"none"} : Respond(e, o)

Elapse == \/ BackoffElapses \/ CooldownElapses
          \/ \E d \in detached : FinishDetached(d)

(* A task that can run is run by the event loop, and a physical call is    *)
(* answered (the clients have read timeouts).  Admission is strongly fair: *)
(* the limiter frees capacity and the semaphore is FIFO.  The clock        *)
(* advances.  Nobody has to cancel, to quit or to succeed.                 *)
Fairness ==
  /\ \A e \in Executions : WF_vars(Run(e)) /\ SF_vars(Admit(e))
  /\ WF_vars(Elapse)

FairSpec == Spec /\ Fairness

-----------------------------------------------------------------------------
TypeOK ==
  /\ pc \in [Executions -> Labels]
  /\ state \in [Executions -> States]
  /\ attempts \in [Executions -> 0..MaxAttempts]
  /\ permit \in [Executions -> Permits]
  /\ outcome \in [Executions -> Outcomes]
  /\ episode \in Episodes
  /\ nextGeneration \in Nat
  /\ free \in Nat
  /\ detached \in SUBSET [execution : Executions, generation : Nat]
-----------------------------------------------------------------------------
(* Executions that hold a semaphore slot.                                  *)
HoldsSlot(e) == pc[e] \in {"call", "settling", "resolved", "closing"}

(* Executions between the gate and the settling of their attempt.          *)
InAdmission(e) ==
  pc[e] \in {"limiter", "slot", "call", "settling", "closing"}

(* In _open_attempt, before its attempt starts.                            *)
Requesting(e) == pc[e] \in {"gate", "waiting", "backoff", "limiter", "slot"}

(* Every slot taken is given back exactly once, whatever path an attempt   *)
(* leaves by: _concurrency_sem plus the open attempts is max_concurrency.  *)
SlotsAccounted ==
  free + Cardinality({e \in Executions : HoldsSlot(e)}) = MaxConcurrency

(* Exactly one execution owns the half-open probe: an active probe belongs *)
(* to the leader, which is on its way to settle it (or its shielded        *)
(* abandonment is), so that probe_active can always be cleared again.      *)
ProbeOwned ==
  episode.probe =>
    LET leader == episode.leader IN
    /\ leader \in Executions
    /\ \/ InAdmission(leader)
          /\ permit[leader] = ProbePermit(episode.generation)
       \/ [execution |-> leader, generation |-> episode.generation]
            \in detached

(* Nobody else carries a probe: every unsettled probe permit speaks for    *)
(* the current episode and is its leader's.                                *)
ProbesAreCurrent ==
  /\ \A e \in Executions :
       InAdmission(e) /\ permit[e].probe => MatchingProbe(e, permit[e])
  /\ \A d \in detached :
       MatchingProbe(d.execution, ProbePermit(d.generation))

(* No lost wake-up: a task parked on the condition is registered with an   *)
(* open episode that somebody leads, so the leader's outcome reaches it.   *)
ParkedIsRegistered ==
  \A e \in Executions :
    pc[e] = "waiting" =>
      /\ episode.phase = "recovering"
      /\ episode.leader # NoLeader
      /\ episode.leader # e
      /\ e \in episode.waiters
      /\ state[e] = "active"

(* An execution that was let through the gate can still attempt when its   *)
(* slot comes: no exhausted episode fails it on the way, so the            *)
(* RuntimeErrors of _claim_attempt (admission.py:198-201) are unreachable. *)
AdmittedCanAttempt ==
  \A e \in Executions :
    pc[e] \in {"backoff", "limiter", "slot"} => CanAttempt(e)

(* An open episode never loses its leadership to another execution         *)
(* directly, and it closes only when its own probe is answered.            *)
LeadershipIsHandedOver ==
  [][/\ episode.leader # NoLeader /\ episode'.leader # episode.leader =>
          \/ episode'.leader = NoLeader
     /\ episode.phase \in {"recovering", "cooling", "cooled"}
        /\ episode'.phase = "none" =>
          \E e \in Executions :
            /\ episode.leader = e
            /\ pc[e] = "settling"
            /\ permit[e] = ProbePermit(episode.generation)]_vars

(* The inductive invariant of ProviderAdmissionProofs: the above and ...   *)

(* ... a closed or exhausted episode has no leader, probe or waiter;       *)
ClosedIsEmpty ==
  episode.phase # "recovering" =>
    /\ episode.leader = NoLeader
    /\ ~episode.probe
    /\ episode.waiters = {}

(* ... a detached abandonment outlives its caller, and a caller that has   *)
(* left stays away;                                                        *)
DetachedAreDone == \A d \in detached : pc[d.execution] = "done"
EndedAreDone == \A e \in Executions : state[e] = "ended" <=> pc[e] = "done"

(* ... the leader, and an execution past the gate, wait for nobody, and an *)
(* attempt with a normal permit is not the leader's.                       *)
LeaderIsNoWaiter == episode.leader \notin episode.waiters
AdmittedIsNoWaiter ==
  \A e \in Executions :
    InAdmission(e) \/ pc[e] = "backoff" => e \notin episode.waiters
NormalIsNoLeader ==
  \A e \in Executions :
    InAdmission(e) /\ ~permit[e].probe => episode.leader # e

(* ... a task asks for an attempt only while it has budget for one.        *)
RequestsHaveBudget ==
  \A e \in Executions : Requesting(e) => attempts[e] < MaxAttempts

EpisodeCoherent ==
  /\ ProbesAreCurrent
  /\ ParkedIsRegistered
  /\ AdmittedCanAttempt
  /\ ClosedIsEmpty
  /\ DetachedAreDone
  /\ EndedAreDone
  /\ LeaderIsNoWaiter
  /\ AdmittedIsNoWaiter
  /\ NormalIsNoLeader
  /\ RequestsHaveBudget

EpisodeInv == TypeOK /\ ProbeOwned /\ EpisodeCoherent

(* The leader recorded by its last failure or correction ended without     *)
(* ever reopening an attempt.                                              *)
LeaderGone ==
  /\ episode.phase = "recovering"
  /\ ~episode.probe
  /\ \E e \in Executions : episode.leader = e /\ pc[e] = "done"

Answered(e) == pc[e] \in {"call", "done"}

(* A caller that asks for an attempt gets it or is refused, however        *)
(* failures, cancellations and exhausted episodes interleave, unless the   *)
(* leader is gone ...                                                      *)
AnsweredOrLeaderGone(e) == Requesting(e) ~> (Answered(e) \/ LeaderGone)

(* ... and what the class promises without that exception: concurrent      *)
(* callers wait for the episode, which its one owner drives to an end      *)
(* (admission.py:402-404).                                                 *)
RequestsAnswered ==
  \A e \in Executions : Requesting(e) ~> Answered(e)
=============================================================================
