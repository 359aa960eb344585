---------------------- MODULE ProviderGenerationsProofs ----------------------
(* Proofs about ProviderGenerations, for any number of clients, generations *)
(* and rejected candidates.                                                *)
EXTENDS ProviderGenerations, FiniteSetTheorems, TLAPS

-----------------------------------------------------------------------------
(* The inductive invariant.                                                *)

(* Where the operations can be, and what their places exclude: whoever holds *)
(* the lock is alone, and close() has stopped everybody else for good.     *)
LockInv ==
  /\ pc["connect"] \in {"idle", "using"}
  /\ pc["refresh"] \in {"idle", "cancelling", "using"}
  /\ pc["replace"] \in {"idle", "cancelling", "preparing", "discarding", "retiring"}
  /\ pc["close"] \in {"idle", "waiting", "cancelling", "draining", "joining", "sweeping"}
  /\ \A o, p \in Operations \ {"close"} : o # p => pc[o] = "idle" \/ pc[p] = "idle"
  /\ closing => \A o \in Operations \ {"close"} : pc[o] = "idle"
  /\ pc["close"] \in {"cancelling", "draining", "joining", "sweeping"} => closing
  /\ closed => closing /\ pc["close"] = "idle"
  /\ pc["replace"] = "discarding" => unpublished > 0

(* The published generation is the newest; all before it are retired.      *)
AgesInv ==
  /\ retired \subseteq 1..current
  /\ 1..(current - 1) \subseteq retired
  /\ current \in retired => closing
  /\ \A c \in Clients : hold[c] <= current
  /\ \A g \in Generations : g > current => background[g] = "none"

(* A refresh that has not run yet is that of the published generation, and *)
(* who is about to replace or close it has stopped the refresh before.     *)
RefreshInv ==
  /\ \A g \in Generations : background[g] = "created" => g = current /\ g = refreshTask
  /\ pc["replace"] \in {"cancelling", "preparing", "discarding"} => refreshTask = None
  /\ closing => refreshTask = None

(* What is cleaned up is retired and nobody holds a lease of it; its one   *)
(* cleanup is the one that cleanup_task names.                             *)
CleanInv ==
  /\ tracked = retired \ shut
  /\ shut \subseteq retired
  /\ cleaning \subseteq retired \ shut
  /\ cleanupTask = cleaning \union shut
  /\ \A g \in Generations : cleanups[g] \in {0, 1}
  /\ \A g \in cleaning \union shut : leases[g] = 0

(* close() waits for whatever it leaves behind that is not closed yet.     *)
CloseInv ==
  /\ joining \subseteq retired
  /\ pc["close"] = "draining" => (1..current) \ shut \subseteq joining
  /\ pc["close"] = "joining" /\ joined => (1..current) \ shut \subseteq joining
  /\ pc["close"] = "sweeping" /\ joined => 1..current \subseteq shut
  /\ closed => 1..current \subseteq shut /\ unpublished = 0

GenerationsInv ==
  /\ TypeOK /\ LockInv /\ AgesInv /\ RefreshInv
  /\ LeasesCounted /\ CleanInv /\ CloseInv

-----------------------------------------------------------------------------
(* Leases and their number.                                                *)

Held(g) == Cardinality({c \in Clients : hold[c] = g})

LEMMA HeldIsFinite ==
  ASSUME NEW g
  PROVE  IsFiniteSet({c \in Clients : hold[c] = g}) /\ Held(g) \in Nat
<1>1. IsFiniteSet({c \in Clients : hold[c] = g})
  BY GenerationsAssumption, FS_Subset, {c \in Clients : hold[c] = g} \subseteq Clients
<1> QED
  BY <1>1, FS_CardinalityType DEF Held

(* A client that takes a lease of g is one more that holds one.            *)
LEMMA OneMoreHolder ==
  ASSUME TypeOK, NEW c \in Clients, NEW g \in Generations,
         hold[c] = None, hold' = [hold EXCEPT ![c] = g], NEW x \in Generations
  PROVE  Held(x)' = Held(x) + (IF x = g THEN 1 ELSE 0)
<1> DEFINE Before == {d \in Clients : hold[d] = x}
           After == {d \in Clients : hold'[d] = x}
<1>1. IsFiniteSet(Before) /\ Cardinality(Before) \in Nat /\ Held(x) = Cardinality(Before)
  BY HeldIsFinite DEF Held
<1>2. Held(x)' = Cardinality(After)
  BY DEF Held
<1>3. c \notin Before
  BY DEF None, Generations
<1>4. CASE x = g
  <2>1. After = Before \union {c}
    BY <1>4 DEF TypeOK
  <2> HIDE DEF Before, After
  <2> QED
    BY <1>1, <1>2, <1>3, <1>4, <2>1, FS_AddElement
<1>5. CASE x # g
  <2>1. After = Before
    BY <1>5 DEF TypeOK, None, Generations
  <2> HIDE DEF Before, After
  <2> QED
    BY <1>1, <1>2, <1>5, <2>1
<1> QED
  BY <1>4, <1>5

(* A client that gives its lease of g back is one less, and was one.       *)
LEMMA OneHolderLess ==
  ASSUME TypeOK, NEW c \in Clients, NEW g \in Generations,
         hold[c] = g, hold' = [hold EXCEPT ![c] = None], NEW x \in Generations
  PROVE  Held(x)' = Held(x) - (IF x = g THEN 1 ELSE 0) /\ Held(g) > 0
<1> DEFINE Before == {d \in Clients : hold[d] = x}
           After == {d \in Clients : hold'[d] = x}
<1>1. IsFiniteSet(Before) /\ Cardinality(Before) \in Nat /\ Held(x) = Cardinality(Before)
  BY HeldIsFinite DEF Held
<1>2. Held(x)' = Cardinality(After)
  BY DEF Held
<1>3. Held(g) > 0
  <2>1. c \in {d \in Clients : hold[d] = g}
    OBVIOUS
  <2>2. Held(g) \in Nat /\ Held(g) # 0
    BY <2>1, HeldIsFinite, FS_EmptySet DEF Held
  <2> QED
    BY <2>2
<1>4. CASE x = g
  <2>1. After = Before \ {c} /\ c \in Before
    BY <1>4 DEF TypeOK, None, Generations
  <2> HIDE DEF Before, After
  <2> QED
    BY <1>1, <1>2, <1>3, <1>4, <2>1, FS_RemoveElement
<1>5. CASE x # g
  <2>1. After = Before
    BY <1>5 DEF TypeOK, None, Generations
  <2> HIDE DEF Before, After
  <2> QED
    BY <1>1, <1>2, <1>3, <1>5, <2>1
<1> QED
  BY <1>4, <1>5

(* The users of a generation that are no clients.                          *)
Others(g) ==
  (IF background[g] \in {"running", "cancelled"} THEN 1 ELSE 0)
  + (IF g = current /\ pc["refresh"] = "using" THEN 1 ELSE 0)

LEMMA OthersType == ASSUME NEW g PROVE Others(g) \in Nat
  BY DEF Others

LEMMA Counted == LeasesCounted <=> \A g \in Generations : leases[g] = Held(g) + Others(g)
<1>1. \A g \in Generations : Held(g) \in Nat
  BY HeldIsFinite
<1> QED
  BY <1>1 DEF LeasesCounted, Held, Others

LEMMA CountedNext ==
  ASSUME \A g \in Generations : leases'[g] = Held(g)' + Others(g)'
  PROVE  LeasesCounted'
<1>1. ASSUME NEW g \in Generations PROVE Held(g)' \in Nat
  <2>1. IsFiniteSet({c \in Clients : hold'[c] = g})
    BY GenerationsAssumption, FS_Subset, {c \in Clients : hold'[c] = g} \subseteq Clients
  <2> QED
    BY <2>1, FS_CardinalityType DEF Held
<1> QED
  BY <1>1 DEF LeasesCounted, Held, Others

(* A user holds a lease.                                                   *)
LEMMA UserHoldsLease ==
  ASSUME GenerationsInv, NEW g \in Generations
  PROVE  /\ leases[g] \in Nat
         /\ (\E c \in Clients : hold[c] = g) => leases[g] > 0
         /\ background[g] \in {"running", "cancelled"} => leases[g] > 0
         /\ g = current /\ pc["refresh"] = "using" => leases[g] > 0
<1>1. leases[g] = Held(g) + Others(g) /\ Held(g) \in Nat
  BY Counted, HeldIsFinite DEF GenerationsInv
<1>2. ASSUME NEW c \in Clients, hold[c] = g PROVE Held(g) # 0
  <2>1. c \in {d \in Clients : hold[d] = g}
    BY <1>2
  <2> QED
    BY <2>1, HeldIsFinite, FS_EmptySet DEF Held
<1>3. leases[g] \in Nat
  BY DEF GenerationsInv, TypeOK
<1> QED
  BY <1>1, <1>2, <1>3 DEF Others

(* What is cleaned up afterwards, whoever starts it: what was, and what is  *)
(* asked for and is not closed; nothing is cleaned up a second time.       *)
LEMMA CloseGenerationShares ==
  ASSUME TypeOK, CleanInv, NEW gs \in SUBSET Generations, CloseGeneration(gs)
  PROVE  /\ cleanups' \in [Generations -> Nat] /\ cleanupTask' \in SUBSET Generations
         /\ cleaning' = cleaning \union (gs \ shut)
         /\ cleanupTask' = cleaning' \union shut
         /\ \A g \in Generations : cleanups'[g] \in {0, 1}
<1> USE DEF TypeOK, CleanInv, CloseGeneration, cleaning
<1>1. ASSUME NEW g \in Generations
      PROVE  /\ cleanups'[g] \in {0, 1}
             /\ cleanups'[g] = 1 <=> cleanups[g] = 1 \/ g \in gs \ shut
  <2>1. cleanups[g] \in {0, 1} /\ (g \in cleanupTask <=> cleanups[g] = 1 \/ g \in shut)
    OBVIOUS
  <2> QED
    BY <2>1
<1>2. cleanups' \in [Generations -> Nat] /\ cleanupTask' \in SUBSET Generations
  OBVIOUS
<1>3. cleaning' = cleaning \union (gs \ shut)
  BY <1>1
<1> QED
  BY <1>1, <1>2, <1>3

(* What a step that starts or ends no cleanup leaves as it is.             *)
LEMMA CleaningStays ==
  ASSUME UNCHANGED cleanups
  PROVE  cleaning' = cleaning
  BY DEF cleaning

(* Giving a lease back starts the cleanup of a generation only when nobody *)
(* is left that works with it.                                             *)
LEMMA ReleaseKeeps ==
  ASSUME GenerationsInv, NEW g \in Generations, leases[g] > 0, Release(g),
         UNCHANGED <<retired, tracked, shut>>
  PROVE  /\ leases' \in [Generations -> Nat]
         /\ cleanups' \in [Generations -> Nat] /\ cleanupTask' \in SUBSET Generations
         /\ CleanInv'
<1> DEFINE last == {g} \intersect IF leases[g] = 1 /\ ~closing THEN retired ELSE {}
<1>1. leases \in [Generations -> Nat] /\ leases' = [leases EXCEPT ![g] = @ - 1]
  BY DEF GenerationsInv, TypeOK, Release
<1>2. leases[g] - 1 \in Nat /\ g \notin cleaning \union shut
  BY <1>1 DEF GenerationsInv, CleanInv
<1>3. last \in SUBSET Generations /\ CloseGeneration(last)
  BY DEF Release
<1>4. last \subseteq retired /\ (g \in last => leases[g] = 1) /\ last \subseteq {g}
  OBVIOUS
<1> HIDE DEF last
<1>5. /\ cleanups' \in [Generations -> Nat] /\ cleanupTask' \in SUBSET Generations
      /\ cleaning' = cleaning \union (last \ shut)
      /\ cleanupTask' = cleaning' \union shut
      /\ \A x \in Generations : cleanups'[x] \in {0, 1}
  BY <1>3, CloseGenerationShares DEF GenerationsInv
<1>6. cleaning' \subseteq retired \ shut
  BY <1>4, <1>5 DEF GenerationsInv, CleanInv
<1>7. ASSUME NEW x \in cleaning' \union shut PROVE leases'[x] = 0
  <2>0. x \in Generations
    BY <1>7 DEF cleaning, GenerationsInv, TypeOK
  <2>1. CASE x = g
    BY <1>1, <1>2, <1>4, <1>5, <1>7, <2>1
  <2>2. CASE x # g
    BY <1>1, <1>4, <1>5, <1>7, <2>0, <2>2 DEF GenerationsInv, CleanInv
  <2> QED
    BY <2>1, <2>2
<1> QED
  BY <1>1, <1>2, <1>5, <1>6, <1>7 DEF GenerationsInv, CleanInv

(* Taking a lease of a generation that is not retired harms no cleanup.    *)
LEMMA LeaseKeeps ==
  ASSUME GenerationsInv, NEW g \in Generations, g \notin cleaning \union shut, Lease(g),
         UNCHANGED <<retired, tracked, shut, cleanups, cleanupTask>>
  PROVE  leases' \in [Generations -> Nat] /\ CleanInv'
  BY CleaningStays DEF GenerationsInv, TypeOK, CleanInv, Lease, cleaning

-----------------------------------------------------------------------------
(* Who holds the lock.                                                     *)

(* Whatever an operation does at its place, the others are excluded from   *)
(* the places where they would do it too.                                  *)
LEMMA LockStep == GenerationsInv /\ [Next]_vars => LockInv'
<1> SUFFICES ASSUME GenerationsInv, [Next]_vars PROVE LockInv'
  OBVIOUS
<1> USE DEF GenerationsInv, TypeOK, LockInv, Operations
<1>1. CASE (\E c \in Clients : Acquire(c) \/ Return(c)) \/ Tasks
  BY <1>1 DEF Acquire, Return, Tasks, BackgroundStarts, BackgroundEnds,
              CleanupSucceeds, CleanupFails
<1>2. ASSUME NEW o \in {"replace", "refresh"}, Begin(o) PROVE LockInv'
  BY <1>2 DEF Begin, LockFree
<1>3. CASE Connect
  BY <1>3 DEF Connect, LockFree
<1>4. CASE UnderLock
  <2>1. CASE Prepare
    BY <2>1 DEF Prepare
  <2>2. CASE RejectCandidate
    BY <2>2 DEF RejectCandidate
  <2>3. CASE DiscardCandidate
    BY <2>3 DEF DiscardCandidate
  <2>4. CASE Publish
    BY <2>4 DEF Publish
  <2>5. CASE EndReplace \/ Refresh \/ EndRefresh \/ EndConnect
    BY <2>5 DEF EndReplace, Refresh, EndRefresh, EndConnect
  <2> QED
    BY <1>4, <2>1, <2>2, <2>3, <2>4, <2>5 DEF UnderLock
<1>5. CASE Close
  BY <1>5 DEF Close
<1>6. CASE StopLeasing
  BY <1>6 DEF StopLeasing, LockFree
<1>7. CASE Shutdown
  BY <1>7 DEF Shutdown, RetireCurrent, Drained, Joined, EndClose
<1>8. ASSUME NEW o \in Operations, Cancel(o) PROVE LockInv'
  BY <1>8 DEF Cancel
<1>9. CASE Quiescent \/ UNCHANGED vars
  BY <1>9 DEF Quiescent, vars
<1> QED
  BY <1>1, <1>2, <1>3, <1>4, <1>5, <1>6, <1>7, <1>8, <1>9 DEF Next, Holders

-----------------------------------------------------------------------------
(* The steps.                                                              *)

(* A step that touches neither the generations nor their leases.           *)
LEMMA ElsewhereKeeps ==
  ASSUME GenerationsInv, LockInv',
         UNCHANGED <<current, leases, retired, tracked, cleanups, cleanupTask, shut, hold, background,
                     joined, closing>>,
         unpublished' \in Nat, pc' \in [Operations -> Labels],
         stopping' \in Generations \union {None},
         refreshTask' = refreshTask, joining' \in {joining, {}}, closed' \in BOOLEAN,
         pc'["refresh"] = "using" <=> pc["refresh"] = "using",
         pc'["replace"] \in {"cancelling", "preparing", "discarding"} => refreshTask = None,
         CloseInv'
  PROVE  GenerationsInv'
<1> USE DEF GenerationsInv
<1>1. TypeOK'
  BY DEF TypeOK
<1>2. AgesInv' /\ CleanInv'
  BY CleaningStays DEF AgesInv, CleanInv
<1>3. RefreshInv'
  BY DEF RefreshInv
<1>4. LeasesCounted'
  <2>1. \A g \in Generations : Held(g)' = Held(g) /\ Others(g)' = Others(g)
    BY DEF Held, Others
  <2> QED
    BY <2>1, Counted, CountedNext
<1> QED
  BY <1>1, <1>2, <1>3, <1>4

(* A request takes a lease of the published generation, or gives its own   *)
(* back.                                                                   *)
LEMMA ClientKeeps ==
  ASSUME GenerationsInv, LockInv', NEW c \in Clients, Acquire(c) \/ Return(c)
  PROVE  GenerationsInv'
<1> USE DEF GenerationsInv
<1>1. /\ UNCHANGED <<current, retired, tracked, shut, unpublished, background, refreshTask,
                      pc, stopping, joining, joined, closing, closed>>
      /\ \A g \in Generations : Others(g)' = Others(g)
  BY DEF Acquire, Return, Others
<1>2. CASE Acquire(c)
  <2>1. current \in Generations /\ current \notin cleaning \union shut
    BY <1>2 DEF Acquire, TypeOK, AgesInv, CleanInv
  <2>2. leases' \in [Generations -> Nat] /\ CleanInv'
    BY <1>1, <1>2, <2>1, LeaseKeeps DEF Acquire
  <2>3. TypeOK' /\ AgesInv'
    BY <1>1, <1>2, <2>1, <2>2 DEF Acquire, TypeOK, AgesInv, Generations
  <2>4. ASSUME NEW g \in Generations PROVE leases'[g] = Held(g)' + Others(g)'
    <3>1. Held(g)' = Held(g) + (IF g = current THEN 1 ELSE 0)
      BY <1>2, <2>1, OneMoreHolder DEF Acquire
    <3>2. leases[g] = Held(g) + Others(g) /\ Held(g) \in Nat /\ Others(g) \in Nat
      BY Counted, HeldIsFinite, OthersType
    <3>3. leases'[g] = leases[g] + (IF g = current THEN 1 ELSE 0)
      BY <1>2, <2>1 DEF Acquire, Lease, TypeOK
    <3> QED
      BY <1>1, <3>1, <3>2, <3>3
  <2> QED
    BY <1>1, <2>2, <2>3, <2>4, CountedNext DEF RefreshInv, CloseInv
<1>3. CASE Return(c)
  <2> DEFINE h == hold[c]
  <2>1. h \in Generations /\ leases[h] > 0
    BY <1>3, UserHoldsLease DEF Return, TypeOK
  <2>2. /\ leases' \in [Generations -> Nat] /\ cleanups' \in [Generations -> Nat] /\ cleanupTask' \in SUBSET Generations
        /\ CleanInv'
    BY <1>1, <1>3, <2>1, ReleaseKeeps DEF Return
  <2>3. TypeOK' /\ AgesInv'
    BY <1>1, <1>3, <2>1, <2>2 DEF Return, TypeOK, AgesInv, Generations, None
  <2>4. ASSUME NEW g \in Generations PROVE leases'[g] = Held(g)' + Others(g)'
    <3>1. Held(g)' = Held(g) - (IF g = h THEN 1 ELSE 0)
      BY <1>3, <2>1, OneHolderLess DEF Return
    <3>2. leases[g] = Held(g) + Others(g) /\ Held(g) \in Nat /\ Others(g) \in Nat
      BY Counted, HeldIsFinite, OthersType
    <3>3. leases'[g] = leases[g] - (IF g = h THEN 1 ELSE 0)
      BY <1>3, <2>1 DEF Return, Release, TypeOK
    <3> HIDE DEF h
    <3> QED
      BY <1>1, <3>1, <3>2, <3>3
  <2> QED
    BY <1>1, <2>2, <2>3, <2>4, CountedNext DEF RefreshInv, CloseInv
<1> QED
  BY <1>2, <1>3

(* The users that are no clients take and give back their leases alike:    *)
(* leases and Others change by the same amount.                            *)
LEMMA OthersKeep ==
  ASSUME GenerationsInv, UNCHANGED hold, NEW g \in Generations, NEW d \in {0, 1},
         \/ leases' = [leases EXCEPT ![g] = @ + d] /\ Others(g)' = Others(g) + d
         \/ leases' = [leases EXCEPT ![g] = @ - d] /\ Others(g)' = Others(g) - d,
         \A x \in Generations \ {g} : Others(x)' = Others(x)
  PROVE  LeasesCounted'
<1>1. ASSUME NEW x \in Generations PROVE leases'[x] = Held(x)' + Others(x)'
  <2>1. leases[x] = Held(x) + Others(x) /\ Held(x) \in Nat /\ Others(x) \in Nat
    BY Counted, HeldIsFinite, OthersType DEF GenerationsInv
  <2>2. Held(x)' = Held(x)
    BY DEF Held
  <2>3. leases \in [Generations -> Nat]
    BY DEF GenerationsInv, TypeOK
  <2> QED
    BY <2>1, <2>2, <2>3
<1> QED
  BY <1>1, CountedNext

(* The background refresh of a generation that has been cleaned up does     *)
(* nothing, and one that runs keeps its generation open.                   *)
LEMMA BackgroundKeeps ==
  ASSUME GenerationsInv, LockInv', NEW g \in Generations,
         BackgroundStarts(g) \/ BackgroundEnds(g)
  PROVE  GenerationsInv'
<1> USE DEF GenerationsInv
<1>1. /\ UNCHANGED <<current, retired, tracked, shut, unpublished, hold, refreshTask,
                      pc, stopping, joining, joined, closing, closed>>
      /\ \A x \in Generations \ {g} : background'[x] = background[x]
      /\ background' \in [Generations -> Refreshes]
      /\ background[g] # "none" /\ background'[g] # "created"
  BY DEF BackgroundStarts, BackgroundEnds, TypeOK, Refreshes
<1>2. AgesInv' /\ RefreshInv' /\ \A x \in Generations \ {g} : Others(x)' = Others(x)
  BY <1>1 DEF AgesInv, RefreshInv, Others
<1>3. CASE BackgroundStarts(g)
  <2>1. g \notin retired
    BY <1>3 DEF BackgroundStarts, RefreshInv, AgesInv, None, Generations
  <2>2. g \notin cleaning \union shut
    BY <2>1 DEF CleanInv
  <2>3. Lease(g) /\ UNCHANGED <<cleanups, cleanupTask>> /\ background'[g] = "running"
    BY <1>3, <2>2 DEF BackgroundStarts, TypeOK
  <2>4. leases' \in [Generations -> Nat] /\ CleanInv'
    BY <1>1, <2>2, <2>3, LeaseKeeps
  <2>5. Others(g)' = Others(g) + 1
    BY <1>1, <1>3, <2>3 DEF BackgroundStarts, Others
  <2>6. LeasesCounted'
    BY <1>1, <1>2, <2>3, <2>5, OthersKeep DEF Lease
  <2> QED
    BY <1>1, <1>2, <2>3, <2>4, <2>6 DEF TypeOK, CloseInv
<1>4. CASE BackgroundEnds(g)
  <2>1. leases[g] > 0 /\ Release(g) /\ background'[g] = "over"
    BY <1>4, UserHoldsLease DEF BackgroundEnds, TypeOK
  <2>2. leases' \in [Generations -> Nat] /\ cleanups' \in [Generations -> Nat] /\ cleanupTask' \in SUBSET Generations /\ CleanInv'
    BY <1>1, <2>1, ReleaseKeeps
  <2>3. Others(g)' = Others(g) - 1
    BY <1>1, <1>4, <2>1 DEF BackgroundEnds, Others
  <2>4. LeasesCounted'
    BY <1>1, <1>2, <2>1, <2>3, OthersKeep DEF Release
  <2> QED
    BY <1>1, <1>2, <2>2, <2>4 DEF TypeOK, CloseInv
<1> QED
  BY <1>3, <1>4

(* Stopping the background refresh leaves none that could still start, and *)
(* leaves the one that runs its lease.                                     *)
LEMMA StopRefreshKeeps ==
  ASSUME GenerationsInv, LockInv', CancelRefresh, pc' \in [Operations -> Labels],
         UNCHANGED <<current, leases, retired, tracked, cleanups, cleanupTask, shut, unpublished, hold,
                     joining, joined, closed>>,
         closing' \in {closing, TRUE},
         pc'["refresh"] = "using" <=> pc["refresh"] = "using",
         \A o \in Operations : pc'[o] = pc[o] \/ pc'[o] = "cancelling"
  PROVE  GenerationsInv'
<1> USE DEF GenerationsInv
<1>1. /\ background' \in [Generations -> Refreshes]
      /\ \A g \in Generations :
           /\ background'[g] # "created"
           /\ background[g] = "none" => background'[g] = "none"
           /\ background'[g] \in {"running", "cancelled"}
                <=> background[g] \in {"running", "cancelled"}
  BY DEF CancelRefresh, TypeOK, Refreshes, RefreshInv
<1>2. refreshTask' = None /\ stopping' \in Generations \union {None}
  BY DEF CancelRefresh, TypeOK
<1>3. TypeOK' /\ AgesInv' /\ RefreshInv' /\ CleanInv'
  BY <1>1, <1>2, CleaningStays DEF TypeOK, AgesInv, RefreshInv, CleanInv
<1>4. LeasesCounted'
  <2>1. ASSUME NEW g \in Generations PROVE Held(g)' = Held(g) /\ Others(g)' = Others(g)
    BY <1>1 DEF Held, Others
  <2> QED
    BY <2>1, Counted, CountedNext
<1>5. CloseInv'
  BY DEF CloseInv, Operations
<1> QED
  BY <1>3, <1>4, <1>5

(* The candidate is published.  Its predecessor has no refresh that could  *)
(* still start, and is cleaned up at once if nobody works with it.         *)
LEMMA PublishKeeps ==
  ASSUME GenerationsInv, LockInv', Publish
  PROVE  GenerationsInv'
<1> USE DEF GenerationsInv
<1>1. /\ current \in Nat \ {0} /\ current + 1 \in Generations /\ current \in Generations
      /\ current' = current + 1
  BY GenerationsAssumption DEF Publish, TypeOK, Generations
<1>2. ~closing /\ ~closed /\ refreshTask = None /\ pc["refresh"] = "idle"
      /\ pc["close"] \in {"idle", "waiting"}
  BY DEF Publish, LockInv, RefreshInv, Operations, TypeOK, Labels
<1>3. pc' \in [Operations -> Labels] /\ pc'["refresh"] = "idle"
      /\ pc'["close"] = pc["close"] /\ pc'["replace"] \in {"retiring", "idle"}
  BY <1>2 DEF Publish, TypeOK, Labels, Operations
<1>4. background' \in [Generations -> Refreshes]
  BY DEF Publish, TypeOK, Refreshes
<1> DEFINE idle == IF Idle(current) THEN {current} ELSE {}
<1>0. /\ cleanups' \in [Generations -> Nat] /\ cleanupTask' \in SUBSET Generations
      /\ cleaning' = cleaning \union (idle \ shut)
      /\ cleanupTask' = cleaning' \union shut
      /\ \A g \in Generations : cleanups'[g] \in {0, 1}
  <2>1. idle \in SUBSET Generations /\ CloseGeneration(idle)
    BY <1>1 DEF Publish
  <2> QED
    BY <2>1, CloseGenerationShares
<1>5. TypeOK'
  BY <1>0, <1>1, <1>3, <1>4 DEF Publish, TypeOK
<1>6. AgesInv'
  <2>1. retired' \subseteq 1..current' /\ 1..(current' - 1) \subseteq retired'
    BY <1>1 DEF Publish, AgesInv
  <2>2. current' \notin retired'
    BY <1>1 DEF Publish, AgesInv
  <2>3. \A c \in Clients : hold'[c] <= current'
    BY <1>1 DEF Publish, AgesInv, TypeOK, Generations, None
  <2>4. \A g \in Generations : g > current' => background'[g] = "none"
    BY <1>1 DEF Publish, AgesInv, Generations, TypeOK
  <2> QED
    BY <2>1, <2>2, <2>3, <2>4 DEF AgesInv
<1>7. \A g \in Generations : background[g] # "created"
  BY <1>2 DEF RefreshInv, None, Generations
<1>8. RefreshInv'
  BY <1>1, <1>2, <1>3, <1>7 DEF RefreshInv, Publish, TypeOK
<1>9. CleanInv'
  <2>1. current \notin retired \union shut
    BY <1>2 DEF AgesInv, CleanInv
  <2>2. \A g \in cleaning' \union shut' : leases'[g] = 0
    BY <1>0 DEF CleanInv, Publish, Idle
  <2>3. UNCHANGED shut /\ retired' = retired \union {current}
        /\ tracked' = tracked \union {current}
    BY DEF Publish
  <2> QED
    BY <1>0, <2>1, <2>2, <2>3 DEF CleanInv
<1>10. LeasesCounted'
  <2>1. ASSUME NEW g \in Generations PROVE Held(g)' = Held(g) /\ Others(g)' = Others(g)
    <3>1. background'[g] \in {"running", "cancelled"}
            <=> background[g] \in {"running", "cancelled"}
      BY <1>1 DEF Publish, AgesInv, TypeOK
    <3> QED
      BY <1>2, <1>3, <3>1 DEF Held, Others, Publish
  <2> QED
    BY <2>1, Counted, CountedNext DEF Publish
<1>11. CloseInv'
  BY <1>2, <1>3 DEF CloseInv, Publish
<1> QED
  BY <1>5, <1>6, <1>8, <1>9, <1>10, <1>11

(* A refresh of the catalog takes its lease while it holds the lock, and   *)
(* gives it back also when it is cancelled.                                *)
LEMMA RefreshKeeps ==
  ASSUME GenerationsInv, LockInv',
         Refresh \/ EndRefresh \/ (pc["refresh"] = "using" /\ Cancel("refresh"))
  PROVE  GenerationsInv'
<1> USE DEF GenerationsInv
<1>1. /\ UNCHANGED <<current, retired, tracked, shut, unpublished, hold, background,
                      refreshTask, joining, joined, closing, closed>>
      /\ current \in Generations
      /\ pc' \in [Operations -> Labels]
      /\ \A o \in Operations \ {"refresh"} : pc'[o] = pc[o]
      /\ stopping' \in Generations \union {None}
  BY DEF Refresh, EndRefresh, Cancel, TypeOK, Operations, Labels
<1>2. AgesInv' /\ RefreshInv' /\ CloseInv'
  BY <1>1 DEF AgesInv, RefreshInv, CloseInv, Operations
<1>3. \A x \in Generations \ {current} : Others(x)' = Others(x)
  BY <1>1 DEF Others
<1>4. CASE Refresh
  <2>1. current \notin cleaning \union shut /\ Lease(current) /\ UNCHANGED <<cleanups, cleanupTask>>
    BY <1>4 DEF Refresh, LockInv, AgesInv, CleanInv, Operations
  <2>2. leases' \in [Generations -> Nat] /\ CleanInv'
    BY <1>1, <2>1, LeaseKeeps
  <2>3. Others(current)' = Others(current) + 1
    BY <1>1, <1>4 DEF Others, Refresh, TypeOK, Operations
  <2>4. LeasesCounted'
    BY <1>1, <1>3, <2>1, <2>3, OthersKeep DEF Lease
  <2> QED
    BY <1>1, <1>2, <2>1, <2>2, <2>4 DEF TypeOK
<1>5. CASE EndRefresh \/ (pc["refresh"] = "using" /\ Cancel("refresh"))
  <2>1. /\ pc["refresh"] = "using" /\ pc'["refresh"] = "idle" /\ Release(current)
        /\ leases[current] > 0
    BY <1>1, <1>5, UserHoldsLease DEF EndRefresh, Cancel, GiveBack, TypeOK, Operations
  <2>2. leases' \in [Generations -> Nat] /\ cleanups' \in [Generations -> Nat] /\ cleanupTask' \in SUBSET Generations /\ CleanInv'
    BY <1>1, <2>1, ReleaseKeeps
  <2>3. Others(current)' = Others(current) - 1
    BY <1>1, <2>1 DEF Others
  <2>4. LeasesCounted'
    BY <1>1, <1>3, <2>1, <2>3, OthersKeep DEF Release
  <2> QED
    BY <1>1, <1>2, <2>2, <2>4 DEF TypeOK
<1> QED
  BY <1>4, <1>5

(* A cleanup ends: the generation is closed, or its cleanup has failed and *)
(* it stays retired.                                                       *)
LEMMA CleanupKeeps ==
  ASSUME GenerationsInv, LockInv', NEW g \in Generations,
         CleanupSucceeds(g) \/ CleanupFails(g)
  PROVE  GenerationsInv'
<1> USE DEF GenerationsInv
<1>1. /\ UNCHANGED <<current, leases, retired, unpublished, hold, background, refreshTask,
                      pc, stopping, closing, closed>>
      /\ g \in cleaning /\ cleanups' = [cleanups EXCEPT ![g] = @ - 1]
  BY DEF CleanupSucceeds, CleanupFails
<1>0. /\ cleanups' \in [Generations -> Nat] /\ cleaning' = cleaning \ {g}
      /\ \A x \in Generations : cleanups'[x] \in {0, 1}
  <2>1. cleanups[g] = 1
    BY <1>1 DEF CleanInv, cleaning
  <2> QED
    BY <1>1, <2>1 DEF CleanInv, TypeOK, cleaning
<1>2. AgesInv' /\ RefreshInv'
  BY <1>1 DEF AgesInv, RefreshInv
<1>3. LeasesCounted'
  <2>1. \A x \in Generations : Held(x)' = Held(x) /\ Others(x)' = Others(x)
    BY <1>1 DEF Held, Others
  <2> QED
    BY <1>1, <2>1, Counted, CountedNext
<1>4. CASE CleanupSucceeds(g)
  <2>1. /\ shut' = shut \union {g} /\ tracked' = tracked \ {g} /\ joined' = joined
        /\ joining' = IF pc["close"] = "joining" THEN joining \ {g} ELSE joining
        /\ UNCHANGED cleanupTask
    BY <1>4 DEF CleanupSucceeds
  <2>2. TypeOK' /\ CleanInv'
    BY <1>0, <1>1, <2>1 DEF TypeOK, CleanInv
  <2>3. CloseInv'
    BY <1>1, <2>1 DEF CloseInv
  <2> QED
    BY <1>2, <1>3, <2>2, <2>3
<1>5. CASE CleanupFails(g)
  <2>0. g \notin shut
    BY <1>1 DEF CleanInv
  <2>1. /\ UNCHANGED <<shut, tracked>> /\ cleanupTask' = cleanupTask \ {g}
        /\ IF pc["close"] = "joining" /\ g \in joining
           THEN joining' = joining \ {g} /\ joined' = FALSE
           ELSE UNCHANGED <<joining, joined>>
    BY <1>5, <2>0 DEF CleanupFails
  <2>2. TypeOK' /\ CleanInv'
    BY <1>0, <1>1, <2>0, <2>1 DEF TypeOK, CleanInv
  <2>3. CloseInv'
    <3>1. CASE pc["close"] = "joining" /\ g \in joining
      BY <1>1, <2>1, <3>1 DEF CloseInv, LockInv
    <3>2. CASE ~(pc["close"] = "joining" /\ g \in joining)
      BY <1>1, <2>1, <3>2 DEF CloseInv
    <3> QED
      BY <3>1, <3>2
  <2> QED
    BY <1>2, <1>3, <2>2, <2>3
<1> QED
  BY <1>4, <1>5

(* close() retires the published generation, and then starts the cleanup   *)
(* of everything that nobody works with any more.                          *)
LEMMA RetireKeeps ==
  ASSUME GenerationsInv, LockInv', RetireCurrent \/ Drained
  PROVE  GenerationsInv'
<1> USE DEF GenerationsInv
<1>1. /\ UNCHANGED <<current, leases, shut, unpublished, hold, background, refreshTask,
                      closing, closed>>
      /\ closing /\ current \in Generations
      /\ pc' \in [Operations -> Labels] /\ pc'["refresh"] = pc["refresh"]
      /\ pc'["replace"] = pc["replace"] /\ stopping' \in Generations \union {None}
  BY DEF RetireCurrent, Drained, LockInv, TypeOK, Operations, Labels
<1>2. RefreshInv'
  BY <1>1 DEF RefreshInv
<1>3. LeasesCounted'
  <2>1. \A x \in Generations : Held(x)' = Held(x) /\ Others(x)' = Others(x)
    BY <1>1 DEF Held, Others
  <2> QED
    BY <1>1, <2>1, Counted, CountedNext
<1>4. CASE RetireCurrent
  <2>1. /\ retired' = retired \union {current} /\ UNCHANGED <<cleanups, cleanupTask, joined>>
        /\ tracked' = IF current \in retired THEN tracked ELSE tracked \union {current}
        /\ joining' = tracked' /\ pc'["close"] = "draining"
    BY <1>4 DEF RetireCurrent, TypeOK, Operations
  <2>2. tracked' = retired' \ shut
    BY <2>1 DEF CleanInv
  <2>3. TypeOK' /\ CleanInv'
    BY <1>1, <2>1, <2>2, CleaningStays DEF TypeOK, CleanInv
  <2>4. AgesInv'
    BY <1>1, <2>1 DEF AgesInv, Generations
  <2>5. 1..current \subseteq retired'
    BY <1>1, <2>1 DEF AgesInv, Generations
  <2>6. CloseInv'
    BY <1>1, <2>1, <2>2, <2>5 DEF CloseInv
  <2> QED
    BY <1>2, <1>3, <2>3, <2>4, <2>6
<1>5. CASE Drained
  <2>0. /\ cleanups' \in [Generations -> Nat] /\ cleanupTask' \in SUBSET Generations
        /\ cleaning' = cleaning \union (joining \ shut)
        /\ cleanupTask' = cleaning' \union shut
        /\ \A x \in Generations : cleanups'[x] \in {0, 1}
    <3>1. joining \in SUBSET Generations /\ CloseGeneration(joining)
      BY <1>5 DEF Drained, TypeOK
    <3> QED
      BY <3>1, CloseGenerationShares
  <2>1. /\ UNCHANGED <<retired, tracked>>
        /\ joining' = joining \ shut /\ joined' = TRUE
        /\ pc["close"] = "draining" /\ pc'["close"] = "joining"
        /\ \A x \in joining : leases[x] = 0
    BY <1>5 DEF Drained, Unclosed, Idle, TypeOK, Operations
  <2>2. joining \subseteq retired
    BY DEF CloseInv
  <2>3. TypeOK' /\ CleanInv' /\ AgesInv'
    BY <1>1, <2>0, <2>1, <2>2 DEF TypeOK, CleanInv, AgesInv
  <2>4. CloseInv'
    BY <1>1, <2>1, <2>2 DEF CloseInv
  <2> QED
    BY <1>2, <1>3, <2>3, <2>4
<1> QED
  BY <1>4, <1>5

(* The other steps under the lock, and those of close() that only wait.    *)
LEMMA ControlKeeps ==
  ASSUME GenerationsInv, LockInv',
         \/ Prepare \/ RejectCandidate \/ DiscardCandidate \/ EndReplace
         \/ Connect \/ EndConnect \/ Close \/ Joined \/ EndClose
         \/ \E o \in Operations : Cancel(o) /\ ~(o = "refresh" /\ pc[o] = "using")
  PROVE  GenerationsInv'
<1> USE DEF GenerationsInv, TypeOK, Operations
<1>1. CASE Prepare
  <2>1. pc' \in [Operations -> Labels] /\ unpublished' \in Nat /\ ~closed
    BY <1>1 DEF Prepare, Labels, LockInv
  <2>2. CloseInv'
    BY <1>1, <2>1 DEF Prepare, CloseInv
  <2>3. refreshTask = None
    BY <1>1 DEF Prepare, RefreshInv
  <2> QED
    BY <1>1, <2>1, <2>2, <2>3, ElsewhereKeeps DEF Prepare
<1>2. CASE RejectCandidate \/ DiscardCandidate
  <2>1. pc' \in [Operations -> Labels] /\ unpublished' \in Nat /\ ~closed
    BY <1>2 DEF RejectCandidate, DiscardCandidate, Labels, LockInv
  <2>2. CloseInv'
    BY <1>2, <2>1 DEF RejectCandidate, DiscardCandidate, CloseInv
  <2>3. refreshTask = None
    BY <1>2 DEF RejectCandidate, DiscardCandidate, RefreshInv
  <2> QED
    BY <1>2, <2>1, <2>2, <2>3, ElsewhereKeeps DEF RejectCandidate, DiscardCandidate
<1>3. CASE EndReplace \/ Connect \/ EndConnect \/ Close
  <2>1. pc' \in [Operations -> Labels]
    BY <1>3 DEF EndReplace, Connect, EndConnect, Close, Labels
  <2>2. CloseInv'
    BY <1>3 DEF EndReplace, Connect, EndConnect, Close, CloseInv
  <2>3. /\ pc'["refresh"] = pc["refresh"]
        /\ pc'["replace"] \in {pc["replace"], "idle"}
    BY <1>3 DEF EndReplace, Connect, EndConnect, Close
  <2>4. pc'["replace"] \in {"cancelling", "preparing", "discarding"} => refreshTask = None
    BY <2>3 DEF RefreshInv
  <2> QED
    BY <1>3, <2>1, <2>2, <2>3, <2>4, ElsewhereKeeps
    DEF EndReplace, Connect, EndConnect, Close
<1>4. CASE Joined \/ EndClose
  <2>1. pc' \in [Operations -> Labels] /\ unpublished' \in Nat
    BY <1>4 DEF Joined, EndClose, Labels
  <2>0. closed' \in BOOLEAN
    BY <1>4, ZenonT(20) DEF Joined, EndClose, AllClosed
  <2>2. CloseInv'
    BY <1>4 DEF Joined, EndClose, AllClosed, CloseInv
  <2>3. refreshTask = None
    BY <1>4 DEF Joined, EndClose, RefreshInv, LockInv
  <2>4. pc'["refresh"] = pc["refresh"]
    BY <1>4 DEF Joined, EndClose
  <2> QED
    BY <1>4, <2>0, <2>1, <2>2, <2>3, <2>4, ElsewhereKeeps DEF Joined, EndClose
<1>5. ASSUME NEW o \in Operations, Cancel(o), ~(o = "refresh" /\ pc[o] = "using")
      PROVE  GenerationsInv'
  <2>1. pc' \in [Operations -> Labels] /\ pc'[o] = "idle"
        /\ \A p \in Operations \ {o} : pc'[p] = pc[p]
    BY <1>5 DEF Cancel, Labels
  <2>2. UNCHANGED <<leases, cleanups, cleanupTask>> /\ joining' \in {joining, {}}
        /\ (o # "close" => joining' = joining)
    BY <1>5 DEF Cancel, GiveBack
  <2>3. stopping' \in Generations \union {None}
    BY <1>5 DEF Cancel
  <2>4. CloseInv'
    BY <1>5, <2>1, <2>2 DEF Cancel, CloseInv
  <2>5. pc'["replace"] \in {"cancelling", "preparing", "discarding"} => refreshTask = None
    BY <2>1 DEF RefreshInv
  <2>6. pc'["refresh"] = "using" <=> pc["refresh"] = "using"
    BY <1>5, <2>1
  <2> QED
    BY <1>5, <2>1, <2>2, <2>3, <2>4, <2>5, <2>6, ElsewhereKeeps DEF Cancel
<1> QED
  BY <1>1, <1>2, <1>3, <1>4, <1>5

LEMMA GenerationsInit == Init => GenerationsInv
<1> SUFFICES ASSUME Init PROVE GenerationsInv
  OBVIOUS
<1> USE GenerationsAssumption DEF Init
<1>1. 1 \in Generations
  BY DEF Generations
<1>2. TypeOK
  BY <1>1 DEF TypeOK, Refreshes, Labels, Operations
<1>3. LockInv /\ AgesInv /\ CleanInv
  <2>1. cleaning = {}
    BY DEF cleaning
  <2> QED
    BY <1>1, <2>1 DEF LockInv, AgesInv, CleanInv, Operations, None, Generations
<1>4. RefreshInv /\ CloseInv
  BY <1>1 DEF RefreshInv, CloseInv, Operations
<1>5. LeasesCounted
  <2>1. ASSUME NEW g \in Generations PROVE leases[g] = Held(g) + Others(g)
    <3>1. {c \in Clients : hold[c] = g} = {}
      BY DEF None, Generations
    <3>2. Held(g) = 0
      BY <3>1, FS_EmptySet DEF Held
    <3>3. Others(g) = 0
      BY DEF Others, Operations
    <3> QED
      BY <3>2, <3>3
  <2> QED
    BY <2>1, Counted
<1> QED
  BY <1>2, <1>3, <1>4, <1>5 DEF GenerationsInv

LEMMA GenerationsStep == GenerationsInv /\ [Next]_vars => GenerationsInv'
<1> SUFFICES ASSUME GenerationsInv, [Next]_vars PROVE GenerationsInv'
  OBVIOUS
<1>0. LockInv'
  BY LockStep
<1> USE <1>0
<1>1. CASE \E c \in Clients : Acquire(c) \/ Return(c)
  BY <1>1, ClientKeeps
<1>2. CASE Tasks
  BY <1>2, BackgroundKeeps, CleanupKeeps DEF Tasks
<1>3. ASSUME NEW o \in {"replace", "refresh"}, Begin(o) PROVE GenerationsInv'
  <2>1. pc' \in [Operations -> Labels] /\ pc'["refresh"] # "using" /\ pc["refresh"] # "using"
        /\ \A p \in Operations : pc'[p] = pc[p] \/ pc'[p] = "cancelling"
    BY <1>3 DEF Begin, GenerationsInv, TypeOK, Operations, Labels, LockFree
  <2> QED
    BY <1>3, <2>1, StopRefreshKeeps DEF Begin
<1>4. CASE StopLeasing
  <2>1. pc' \in [Operations -> Labels] /\ pc'["refresh"] # "using" /\ pc["refresh"] # "using"
        /\ \A p \in Operations : pc'[p] = pc[p] \/ pc'[p] = "cancelling"
    BY <1>4 DEF StopLeasing, GenerationsInv, TypeOK, Operations, Labels, LockFree
  <2> QED
    BY <1>4, <2>1, StopRefreshKeeps DEF StopLeasing
<1>5. CASE UnderLock \/ Connect \/ Close \/ Shutdown
  <2>1. CASE Publish
    BY <2>1, PublishKeeps
  <2>2. CASE Refresh \/ EndRefresh
    BY <2>2, RefreshKeeps
  <2>3. CASE RetireCurrent \/ Drained
    BY <2>3, RetireKeeps
  <2>4. CASE \/ Prepare \/ RejectCandidate \/ DiscardCandidate \/ EndReplace
             \/ Connect \/ EndConnect \/ Close \/ Joined \/ EndClose
    BY <2>4, ControlKeeps
  <2> QED
    BY <1>5, <2>1, <2>2, <2>3, <2>4 DEF UnderLock, Shutdown
<1>6. ASSUME NEW o \in Operations, Cancel(o) PROVE GenerationsInv'
  BY <1>6, ControlKeeps, RefreshKeeps
<1>7. CASE Quiescent \/ UNCHANGED vars
  <2>1. UNCHANGED vars
    BY <1>7 DEF Quiescent
  <2>2. CleanInv'
    BY <2>1, CleaningStays DEF vars, GenerationsInv, CleanInv
  <2>3. TypeOK' /\ LeasesCounted'
    BY <2>1 DEF vars, GenerationsInv, TypeOK, LeasesCounted
  <2> QED
    BY <2>1, <2>2, <2>3 DEF vars, GenerationsInv, LockInv, AgesInv, RefreshInv, CloseInv
<1> QED
  BY <1>1, <1>2, <1>3, <1>4, <1>5, <1>6, <1>7 DEF Next, Holders

-----------------------------------------------------------------------------
(* Theorems.                                                               *)

(* Whatever requests, refreshes, replacements and a shutdown do to each    *)
(* other (runtime/provider_manager.py), the invariant above holds.         *)
THEOREM GenerationsCorrect == Spec => []GenerationsInv
  BY GenerationsInit, GenerationsStep, PTL DEF Spec

(* Nobody works with the clients of a generation that is being closed or    *)
(* is closed: _release and replace() close it only when its last lease has *)
(* been given back, and whoever works without a lease holds the lock.      *)
THEOREM ClientsStayOpen == Spec => []NeverClosedInUse
<1>1. GenerationsInv => NeverClosedInUse
  <2> SUFFICES ASSUME GenerationsInv, NEW g \in Generations, InUse(g),
                      g \in cleaning \union shut
               PROVE  FALSE
    BY DEF NeverClosedInUse
  <2>1. leases[g] = 0 /\ g \in retired
    BY DEF GenerationsInv, CleanInv
  <2>2. g = current /\ pc["connect"] = "using"
    BY <2>1, UserHoldsLease DEF InUse
  <2>3. closing
    BY <2>1, <2>2 DEF GenerationsInv, AgesInv
  <2> QED
    BY <2>2, <2>3 DEF GenerationsInv, LockInv, Operations
<1> QED
  BY <1>1, GenerationsCorrect, PTL

(* A published generation can be leased until close() is called: a request *)
(* never gets a runtime that is retired.                                   *)
THEOREM PublishedIsOpen == Spec => []CurrentIsOpen
<1>1. GenerationsInv => CurrentIsOpen
  BY DEF GenerationsInv, AgesInv, CleanInv, CurrentIsOpen
<1> QED
  BY <1>1, GenerationsCorrect, PTL

(* active_leases is the number of those who hold one, whoever is cancelled *)
(* between taking it and giving it back.                                   *)
THEOREM LeasesAreCounted == Spec => []LeasesCounted
  BY GenerationsCorrect, PTL DEF GenerationsInv

(* Every retired generation can be found by close() until it is closed, and *)
(* when close() has succeeded everything is closed and nobody uses it.     *)
THEOREM NothingIsLeaked == Spec => []NothingLeaks
<1>1. GenerationsInv => NothingLeaks
  <2> SUFFICES ASSUME GenerationsInv, closed, NEW g \in Generations, InUse(g)
               PROVE  FALSE
    BY DEF NothingLeaks, GenerationsInv, CleanInv, CloseInv
  <2>1. g <= current
    BY DEF GenerationsInv, TypeOK, AgesInv, InUse, Generations
  <2>2. g \in shut
    BY <2>1 DEF GenerationsInv, CloseInv, TypeOK, Generations
  <2>3. leases[g] = 0
    BY <2>2 DEF GenerationsInv, CleanInv
  <2>4. pc["connect"] # "using"
    BY DEF GenerationsInv, LockInv, Operations
  <2> QED
    BY <2>3, <2>4, UserHoldsLease DEF InUse
<1> QED
  BY <1>1, GenerationsCorrect, PTL

(* The last release, replace() and close() share one cleanup of a          *)
(* generation, and none is begun after one has succeeded                   *)
(* (runtime/provider_manager.py, _close_generation).                       *)
THEOREM CleanedUpAtMostOnce == Spec => CleanedUpOnce
<1>1. ASSUME GenerationsInv, [Next]_vars, NEW g \in Generations
      PROVE  /\ g \in shut => g \in shut'
             /\ cleanups'[g] > cleanups[g] =>
                  cleanups[g] = 0 /\ cleanups'[g] = 1 /\ g \notin shut
  <2>1. shut \subseteq shut'
    BY <1>1 DEF Next, Acquire, Holders, Return, Tasks, BackgroundStarts, BackgroundEnds,
       CleanupSucceeds, CleanupFails, Begin, Connect, UnderLock, Prepare,
       RejectCandidate, DiscardCandidate, Publish, EndReplace, Refresh, EndRefresh,
       EndConnect, Close, StopLeasing, Shutdown, RetireCurrent, Drained, Joined,
       EndClose, Cancel, Quiescent, vars
  <2>2. CleanInv /\ CleanInv'
    BY <1>1, GenerationsStep DEF GenerationsInv
  <2>3. cleanups[g] \in {0, 1} /\ cleanups'[g] \in {0, 1}
    BY <2>2 DEF CleanInv
  <2>4. cleanups'[g] = 1 => g \notin shut'
    BY <2>2 DEF CleanInv, cleaning
  <2> QED
    BY <2>1, <2>3, <2>4
<1>2. GenerationsInv /\ [Next]_vars =>
        [\A g \in Generations :
           /\ g \in shut => g \in shut'
           /\ cleanups'[g] > cleanups[g] =>
                cleanups[g] = 0 /\ cleanups'[g] = 1 /\ g \notin shut]_vars
  BY <1>1
<1> QED
  BY <1>2, GenerationsCorrect, PTL DEF Spec, CleanedUpOnce
=============================================================================
