------------------------- MODULE ProviderGenerations -------------------------
(* ProviderRuntimeManager (runtime/provider_manager.py): generations of    *)
(* provider clients, the leases that keep one alive, replacement by an     *)
(* administrator, model refreshes, and shutdown.                           *)
(*                                                                         *)
(* Generation g is the g-th runtime published.  The operations "replace",  *)
(* "refresh" and "connect" run under _replace_lock; "close" holds it only  *)
(* while it is "cancelling".  A label is the await an operation is at.     *)
EXTENDS Naturals, FiniteSets

CONSTANTS
  Clients,            (* requests, each holding at most one lease          *)
  MaxGeneration,      (* bound: generations ever published                 *)
  MaxUnpublished      (* bound: rejected candidates not cleaned up yet     *)

ASSUME GenerationsAssumption ==
  /\ IsFiniteSet(Clients)
  /\ MaxGeneration \in Nat \ {0}
  /\ MaxUnpublished \in Nat

Generations == 1..MaxGeneration
None == 0

VARIABLES
  current,      (* _current.generation_id                                  *)
  leases,       (* active_leases of each generation                        *)
  retired,      (* generations whose `retired' flag is set                 *)
  tracked,      (* keys of the _retired dictionary                         *)
  cleanups,     (* number of cleanups that run, of each generation         *)
  cleanupTask,  (* generations whose cleanup_task is set                   *)
  shut,         (* generations whose `closed' flag is set                  *)
  unpublished,  (* number of runtimes in _unpublished                      *)
  hold,         (* the generation each client's lease is for               *)
  background,   (* the background refresh of each generation               *)
  refreshTask,  (* _refresh_task, by its generation                        *)
  pc,           (* where each operation is                                 *)
  stopping,     (* the refresh the holder of the lock waits to be over     *)
  joining,      (* generations close() still waits for                     *)
  joined,       (* no cleanup close() waited for has failed                *)
  closing, closed

vars == <<current, leases, retired, tracked, cleanups, cleanupTask, shut, unpublished,
          hold, background, refreshTask, pc, stopping, joining, joined,
          closing, closed>>

Operations == {"replace", "refresh", "connect", "close"}

Labels == {"idle", "waiting", "cancelling", "preparing", "discarding",
           "retiring", "using", "draining", "joining", "sweeping"}

Refreshes == {"none", "created", "running", "cancelled", "over"}

(* _replace_lock is free.                                                  *)
LockFree ==
  /\ \A op \in Operations \ {"close"} : pc[op] = "idle"
  /\ pc["close"] # "cancelling"

Init ==
  /\ current = 1
  /\ leases = [g \in Generations |-> 0]
  /\ retired = {}
  /\ tracked = {}
  /\ cleanups = [g \in Generations |-> 0]
  /\ cleanupTask = {}
  /\ shut = {}
  /\ unpublished = 0
  /\ hold = [c \in Clients |-> None]
  /\ background = [g \in Generations |-> IF g = 1 THEN "created" ELSE "none"]
  /\ refreshTask = 1
  /\ pc = [op \in Operations |-> "idle"]
  /\ stopping = None
  /\ joining = {}
  /\ joined = TRUE
  /\ closing = FALSE
  /\ closed = FALSE

(* The generations that are being cleaned up.                              *)
cleaning == {g \in Generations : cleanups[g] > 0}

(* Mutant of CloseGeneration: every caller starts a cleanup of its own.    *)
MutantCloseGeneration(gs) ==
  /\ cleanups' = [g \in Generations |->
                    IF g \in gs \ shut THEN cleanups[g] + 1 ELSE cleanups[g]]
  /\ cleanupTask' = cleanupTask \union (gs \ shut)

(* _close_generation, of several at once: what is closed is left alone, a  *)
(* cleanup that runs is waited for, and the others are started.            *)
CloseGeneration(gs) ==
  /\ cleanups' = [g \in Generations |->
                    IF g \in gs \ (shut \union cleanupTask)
                    THEN cleanups[g] + 1 ELSE cleanups[g]]
  /\ cleanupTask' = cleanupTask \union (gs \ shut)

-----------------------------------------------------------------------------
(* Leases.                                                                 *)

Lease(g) == leases' = [leases EXCEPT ![g] = @ + 1]

(* _release: the last lease of a retired generation closes it, unless      *)
(* close() will.                                                           *)
Release(g) ==
  /\ leases' = [leases EXCEPT ![g] = @ - 1]
  /\ CloseGeneration({g} \intersect
                     IF leases[g] = 1 /\ ~closing THEN retired ELSE {})

Acquire(c) ==
  /\ hold[c] = None
  /\ ~closing /\ ~closed
  /\ Lease(current)
  /\ hold' = [hold EXCEPT ![c] = current]
  /\ UNCHANGED <<current, retired, tracked, cleanups, cleanupTask, shut, unpublished,
                 background, refreshTask, pc, stopping, joining, joined,
                 closing, closed>>

Return(c) ==
  /\ hold[c] # None
  /\ Release(hold[c])
  /\ hold' = [hold EXCEPT ![c] = None]
  /\ UNCHANGED <<current, retired, tracked, shut, unpublished, background,
                 refreshTask, pc, stopping, joining, joined, closing, closed>>

-----------------------------------------------------------------------------
(* The background refresh of a generation.                                 *)

BackgroundStarts(g) ==
  /\ background[g] = "created"
  /\ IF g \in shut
     THEN background' = [background EXCEPT ![g] = "over"] /\ UNCHANGED leases
     ELSE background' = [background EXCEPT ![g] = "running"] /\ Lease(g)
  /\ UNCHANGED <<current, retired, tracked, cleanups, cleanupTask, shut,
                 unpublished, hold,
                 refreshTask, pc, stopping, joining, joined, closing, closed>>

BackgroundEnds(g) ==
  /\ background[g] \in {"running", "cancelled"}
  /\ Release(g)
  /\ background' = [background EXCEPT ![g] = "over"]
  /\ UNCHANGED <<current, retired, tracked, shut, unpublished, hold,
                 refreshTask, pc, stopping, joining, joined, closing, closed>>

(* _cancel_refresh: a task that has not run yet never will; a running one  *)
(* is cancelled and waited for.                                            *)
CancelRefresh ==
  /\ background' =
       [g \in Generations |->
          IF g # refreshTask THEN background[g]
          ELSE CASE background[g] = "created" -> "over"
                 [] background[g] = "running" -> "cancelled"
                 [] OTHER -> background[g]]
  /\ stopping' = refreshTask
  /\ refreshTask' = None

RefreshStopped == stopping # None => background[stopping] = "over"

-----------------------------------------------------------------------------
(* Operations under the lock.                                              *)

(* replace() and refresh_model_list_cache() begin alike.                   *)
Begin(op) ==
  /\ op \in {"replace", "refresh"}
  /\ LockFree
  /\ ~closing /\ ~closed
  /\ CancelRefresh
  /\ pc' = [pc EXCEPT ![op] = "cancelling"]
  /\ UNCHANGED <<current, leases, retired, tracked, cleanups, cleanupTask, shut,
                 unpublished, hold, joining, joined, closing, closed>>

(* Earlier rejected candidates are cleaned up first, as far as they can be. *)
Prepare ==
  /\ pc["replace"] = "cancelling"
  /\ RefreshStopped
  /\ unpublished' \in 0..unpublished
  /\ stopping' = None
  /\ pc' = [pc EXCEPT !["replace"] = "preparing"]
  /\ UNCHANGED <<current, leases, retired, tracked, cleanups, cleanupTask, shut, hold,
                 background, refreshTask, joining, joined, closing, closed>>

(* The factory or commit() raised: the old generation stays published.     *)
RejectCandidate ==
  /\ pc["replace"] = "preparing"
  /\ \/ /\ pc' = [pc EXCEPT !["replace"] = "idle"]
        /\ UNCHANGED unpublished
     \/ /\ unpublished < MaxUnpublished
        /\ unpublished' = unpublished + 1
        /\ pc' = [pc EXCEPT !["replace"] = "discarding"]
  /\ UNCHANGED <<current, leases, retired, tracked, cleanups, cleanupTask, shut, hold,
                 background, refreshTask, stopping, joining, joined, closing,
                 closed>>

DiscardCandidate ==
  /\ pc["replace"] = "discarding"
  /\ unpublished' \in {unpublished, unpublished - 1}
  /\ pc' = [pc EXCEPT !["replace"] = "idle"]
  /\ UNCHANGED <<current, leases, retired, tracked, cleanups, cleanupTask, shut, hold,
                 background, refreshTask, stopping, joining, joined, closing,
                 closed>>

(* Mutant of Idle: a retired generation is closed at once.                 *)
MutantIdle(g) == TRUE

(* active_leases == 0                                                      *)
Idle(g) == leases[g] = 0

(* The candidate becomes current; an idle predecessor is closed at once.   *)
Publish ==
  /\ pc["replace"] = "preparing"
  /\ current < MaxGeneration
  /\ current' = current + 1
  /\ retired' = retired \union {current}
  /\ tracked' = tracked \union {current}
  /\ background' = [background EXCEPT ![current + 1] = "created"]
  /\ refreshTask' = current + 1
  /\ CloseGeneration(IF Idle(current) THEN {current} ELSE {})
  /\ pc' = [pc EXCEPT !["replace"] =
              IF Idle(current) THEN "retiring" ELSE "idle"]
  /\ UNCHANGED <<leases, shut, unpublished, hold, stopping, joining, joined,
                 closing, closed>>

EndReplace ==
  /\ pc["replace"] = "retiring"
  /\ current - 1 \notin cleaning
  /\ pc' = [pc EXCEPT !["replace"] = "idle"]
  /\ UNCHANGED <<current, leases, retired, tracked, cleanups, cleanupTask, shut,
                 unpublished, hold, background, refreshTask, stopping,
                 joining, joined, closing, closed>>

Refresh ==
  /\ pc["refresh"] = "cancelling"
  /\ RefreshStopped
  /\ Lease(current)
  /\ stopping' = None
  /\ pc' = [pc EXCEPT !["refresh"] = "using"]
  /\ UNCHANGED <<current, retired, tracked, cleanups, cleanupTask, shut,
                 unpublished, hold, background, refreshTask, joining, joined, closing, closed>>

EndRefresh ==
  /\ pc["refresh"] = "using"
  /\ Release(current)
  /\ pc' = [pc EXCEPT !["refresh"] = "idle"]
  /\ UNCHANGED <<current, retired, tracked, shut, unpublished, hold,
                 background, refreshTask, stopping, joining, joined, closing,
                 closed>>

(* connected_provider_changed uses the current runtime without a lease.    *)
Connect ==
  /\ LockFree
  /\ ~closing /\ ~closed
  /\ pc' = [pc EXCEPT !["connect"] = "using"]
  /\ UNCHANGED <<current, leases, retired, tracked, cleanups, cleanupTask, shut,
                 unpublished, hold, background, refreshTask, stopping,
                 joining, joined, closing, closed>>

EndConnect ==
  /\ pc["connect"] = "using"
  /\ pc' = [pc EXCEPT !["connect"] = "idle"]
  /\ UNCHANGED <<current, leases, retired, tracked, cleanups, cleanupTask, shut,
                 unpublished, hold, background, refreshTask, stopping,
                 joining, joined, closing, closed>>

-----------------------------------------------------------------------------
(* Cleanup tasks, shared by everybody who waits for one (and shielded).    *)

CleanupSucceeds(g) ==
  /\ g \in cleaning
  /\ cleanups' = [cleanups EXCEPT ![g] = @ - 1]
  /\ shut' = shut \union {g}
  /\ tracked' = tracked \ {g}
  /\ joining' = IF pc["close"] = "joining" THEN joining \ {g} ELSE joining
  /\ UNCHANGED <<current, leases, retired, cleanupTask, unpublished, hold,
                 background, refreshTask, pc, stopping, joined, closing, closed>>

CleanupFails(g) ==
  /\ g \in cleaning
  /\ cleanups' = [cleanups EXCEPT ![g] = @ - 1]
  /\ cleanupTask' = IF g \in shut THEN cleanupTask ELSE cleanupTask \ {g}
  /\ IF pc["close"] = "joining" /\ g \in joining
     THEN joining' = joining \ {g} /\ joined' = FALSE
     ELSE UNCHANGED <<joining, joined>>
  /\ UNCHANGED <<current, leases, retired, tracked, shut, unpublished, hold,
                 background, refreshTask, pc, stopping, closing, closed>>

-----------------------------------------------------------------------------
(* Shutdown.  A failed or cancelled close() may be called again.           *)

Close ==
  /\ pc["close"] = "idle"
  /\ ~closed
  /\ pc' = [pc EXCEPT !["close"] = "waiting"]
  /\ UNCHANGED <<current, leases, retired, tracked, cleanups, cleanupTask, shut,
                 unpublished, hold, background, refreshTask, stopping,
                 joining, joined, closing, closed>>

StopLeasing ==
  /\ pc["close"] = "waiting"
  /\ LockFree
  /\ closing' = TRUE
  /\ CancelRefresh
  /\ pc' = [pc EXCEPT !["close"] = "cancelling"]
  /\ UNCHANGED <<current, leases, retired, tracked, cleanups, cleanupTask, shut,
                 unpublished, hold, joining, joined, closed>>

RetireCurrent ==
  /\ pc["close"] = "cancelling"
  /\ RefreshStopped
  /\ retired' = retired \union {current}
  /\ tracked' = IF current \in retired THEN tracked
                ELSE tracked \union {current}
  /\ joining' = tracked'
  /\ stopping' = None
  /\ pc' = [pc EXCEPT !["close"] = "draining"]
  /\ UNCHANGED <<current, leases, cleanups, cleanupTask, shut, unpublished, hold,
                 background, refreshTask, joined, closing, closed>>

Unclosed == joining \ shut

(* All drained: every generation close() found is closed, by the cleanup   *)
(* that already runs or by a new one.                                      *)
Drained ==
  /\ pc["close"] = "draining"
  /\ \A g \in joining : Idle(g)
  /\ CloseGeneration(joining)
  /\ joining' = Unclosed
  /\ joined' = TRUE
  /\ pc' = [pc EXCEPT !["close"] = "joining"]
  /\ UNCHANGED <<current, leases, retired, tracked, shut, unpublished, hold,
                 background, refreshTask, stopping, closing, closed>>

Joined ==
  /\ pc["close"] = "joining"
  /\ joining = {}
  /\ pc' = [pc EXCEPT !["close"] = "sweeping"]
  /\ UNCHANGED <<current, leases, retired, tracked, cleanups, cleanupTask, shut,
                 unpublished, hold, background, refreshTask, stopping,
                 joining, joined, closing, closed>>

(* Mutant of AllClosed: a failed cleanup does not fail close().            *)
MutantAllClosed == unpublished' = 0

AllClosed == joined /\ unpublished' = 0

EndClose ==
  /\ pc["close"] = "sweeping"
  /\ unpublished' \in 0..unpublished
  /\ closed' = AllClosed
  /\ pc' = [pc EXCEPT !["close"] = "idle"]
  /\ UNCHANGED <<current, leases, retired, tracked, cleanups, cleanupTask, shut, hold,
                 background, refreshTask, stopping, joining, joined, closing>>

(* Mutant of GiveBack: the lease is not released in a finally clause.      *)
MutantGiveBack(op) == UNCHANGED <<leases, cleanups, cleanupTask>>

(* A cancelled refresh gives its lease back.                               *)
GiveBack(op) ==
  IF op = "refresh" /\ pc[op] = "using"
  THEN Release(current)
  ELSE UNCHANGED <<leases, cleanups, cleanupTask>>

(* An operation is cancelled at its await.                                 *)
(* A cancelled gather() still waits for the refresh task it has cancelled. *)
Cancel(op) ==
  /\ pc[op] # "idle"
  /\ pc[op] = "cancelling" => RefreshStopped
  /\ pc' = [pc EXCEPT ![op] = "idle"]
  /\ stopping' = IF pc[op] = "cancelling" THEN None ELSE stopping
  /\ GiveBack(op)
  /\ joining' = IF op = "close" THEN {} ELSE joining
  /\ UNCHANGED <<current, retired, tracked, shut, unpublished, hold,
                 background, refreshTask, joined, closing, closed>>

Holders == \E c \in Clients : Return(c)

Tasks ==
  \E g \in Generations : \/ BackgroundStarts(g) \/ BackgroundEnds(g)
                         \/ CleanupSucceeds(g) \/ CleanupFails(g)

UnderLock == \/ Prepare \/ RejectCandidate \/ DiscardCandidate \/ Publish
             \/ EndReplace \/ Refresh \/ EndRefresh \/ EndConnect

Shutdown == RetireCurrent \/ Drained \/ Joined \/ EndClose

(* After a successful close() nothing has to happen any more.              *)
Quiescent ==
  /\ closed
  /\ \A op \in Operations : pc[op] = "idle"
  /\ UNCHANGED vars

Next ==
  \/ \E c \in Clients : Acquire(c)
  \/ Holders
  \/ Tasks
  \/ \E op \in {"replace", "refresh"} : Begin(op)
  \/ Connect
  \/ UnderLock
  \/ Close \/ StopLeasing \/ Shutdown
  \/ \E op \in Operations : Cancel(op)
  \/ Quiescent

Spec == Init /\ [][Next]_vars

(* Requests end and give their lease back, tasks run, cleanups and         *)
(* discoveries return (the clients have timeouts), and asyncio.Lock is     *)
(* FIFO.                                                                   *)
Fairness ==
  /\ \A c \in Clients : WF_vars(Return(c))
  /\ \A g \in Generations :
       /\ WF_vars(BackgroundStarts(g) \/ BackgroundEnds(g))
       /\ WF_vars(CleanupSucceeds(g) \/ CleanupFails(g))
  /\ WF_vars(UnderLock)
  /\ SF_vars(StopLeasing)
  /\ WF_vars(Shutdown)

FairSpec == Spec /\ Fairness

-----------------------------------------------------------------------------
TypeOK ==
  /\ current \in Generations
  /\ leases \in [Generations -> Nat]
  /\ retired \in SUBSET Generations
  /\ tracked \in SUBSET Generations
  /\ cleanups \in [Generations -> Nat]
  /\ cleanupTask \in SUBSET Generations
  /\ shut \in SUBSET Generations
  /\ unpublished \in Nat
  /\ hold \in [Clients -> Generations \union {None}]
  /\ background \in [Generations -> Refreshes]
  /\ refreshTask \in Generations \union {None}
  /\ pc \in [Operations -> Labels]
  /\ stopping \in Generations \union {None}
  /\ joining \in SUBSET Generations
  /\ joined \in BOOLEAN
  /\ closing \in BOOLEAN
  /\ closed \in BOOLEAN

(* Somebody works with the clients of this generation.                     *)
InUse(g) ==
  \/ \E c \in Clients : hold[c] = g
  \/ background[g] \in {"running", "cancelled"}
  \/ g = current /\ \E op \in {"refresh", "connect"} : pc[op] = "using"

(* The clients of a generation are not being closed, or closed already,    *)
(* while anybody works with them.                                          *)
NeverClosedInUse == \A g \in Generations : InUse(g) => g \notin cleaning \union shut

(* The published generation stays usable until close() is called.          *)
CurrentIsOpen == ~closing => current \notin retired \union cleaning \union shut

(* A retired generation is tracked until it is closed, so that close() can *)
(* find and retry it; once close() has succeeded nothing is left.          *)
NothingLeaks ==
  /\ tracked = retired \ shut
  /\ closed => /\ 1..current \subseteq shut
               /\ unpublished = 0
               /\ \A g \in Generations : ~InUse(g)

(* active_leases counts exactly the uses that hold a lease.                *)
LeasesCounted ==
  \A g \in Generations :
    leases[g] = Cardinality({c \in Clients : hold[c] = g})
              + (IF background[g] \in {"running", "cancelled"} THEN 1 ELSE 0)
              + (IF g = current /\ pc["refresh"] = "using" THEN 1 ELSE 0)

(* The last release, replace() and close() share one cleanup: whoever      *)
(* begins one, no other cleanup of the generation runs and none has        *)
(* succeeded; and what is closed stays closed.                             *)
CleanedUpOnce ==
  [][\A g \in Generations :
       /\ g \in shut => g \in shut'
       /\ cleanups'[g] > cleanups[g] =>
            cleanups[g] = 0 /\ cleanups'[g] = 1 /\ g \notin shut]_vars

(* close() comes to an end, and so does whatever holds the lock: nobody    *)
(* waits for a task that waits for him.                                    *)
OperationsEnd ==
  /\ pc["close"] # "idle" ~> pc["close"] = "idle"
  /\ ~LockFree ~> LockFree
=============================================================================
