----------------------- MODULE PlatformDeliveryProofs -----------------------
(* Proofs about PlatformDelivery and the RateWindow its worker waits in,    *)
(* for any number of calls, and for any limit and window of the limiter.   *)
EXTENDS PlatformDelivery, SequenceTheorems, TLAPS

-----------------------------------------------------------------------------
(* The sliding window on its own, for every set of tasks: the deque.       *)

LEMMA StampIsTime ==
  ASSUME TypeOK, NEW i \in 1..Len(log)
  PROVE  log[i] \in Nat
<1>1. log \in Seq(0..MaxTime) BY DEF TypeOK
<1>2. log[i] \in 0..MaxTime BY <1>1, ElementOfSeq
<1> QED BY <1>2, WindowAssumption

LEMMA DequeStep == DequeIsWindow /\ [Next]_vars => DequeIsWindow'
<1> SUFFICES ASSUME DequeIsWindow, [Next]_vars PROVE DequeIsWindow'
  OBVIOUS
<1> USE WindowAssumption DEF DequeIsWindow, TypeOK
<1>1. ASSUME NEW t \in Tasks, Call(t) \/ Wake(t) \/ Cancel(t)
      PROVE  DequeIsWindow'
  BY <1>1 DEF Call, Wake, Cancel
<1>2. ASSUME NEW t \in Tasks, Acquire(t) PROVE DequeIsWindow'
  <2>1. PICK n \in popped..Len(log) :
          Purged(n) /\ HasCapacity(n) /\ popped' = n
    BY <1>2 DEF Acquire
  <2>2. /\ now' \in now..MaxTime
        /\ log' = Append(log, now')
        /\ pc' = [pc EXCEPT ![t] = "idle"]
        /\ wake' = wake
    BY <1>2 DEF Acquire
  <2>3. /\ Len(log') = Len(log) + 1
        /\ log' \in Seq(0..MaxTime)
        /\ \A i \in 1..Len(log) : log'[i] = log[i]
        /\ log'[Len(log) + 1] = now'
    BY <2>2
  <2>4. TypeOK' BY <2>1, <2>2, <2>3
  <2>5. \A i \in 1..n : log[i] + Window <= now
    BY <2>1 DEF Purged
  <2>6. (\A i \in 1..popped : log[i] + Window <= now)'
    <3>1. ASSUME NEW i \in 1..n PROVE log'[i] + Window <= now'
      <4>0. i \in 1..Len(log) BY <2>1
      <4>1. log'[i] = log[i] BY <2>3, <4>0
      <4>3. log[i] \in Nat BY <4>0, StampIsTime
      <4>2. log[i] + Window <= now BY <2>5
      <4> QED BY <2>2, <4>1, <4>2, <4>3
    <3> QED BY <2>1, <3>1
  <2>7. (\A i \in 1..Len(log) : log[i] <= now)'
    <3>1. \A i \in 1..Len(log) : log[i] \in Nat OBVIOUS
    <3> QED BY <2>2, <2>3, <3>1
  <2>8. (\A i \in 1..Len(log) : \A j \in i..Len(log) : log[i] <= log[j])'
    BY <2>2, <2>3, <2>7
  <2>9. (Len(log) - popped <= Limit)'
    BY <2>1, <2>3 DEF HasCapacity
  <2> QED BY <2>4, <2>6, <2>7, <2>8, <2>9
<1>3. ASSUME NEW t \in Tasks, Refuse(t) PROVE DequeIsWindow'
  BY <1>3 DEF Refuse, Purged, HasCapacity
<1>4. ASSUME NEW t \in Tasks, Sleep(t) PROVE DequeIsWindow'
  <2>1. PICK n \in popped..Len(log) :
          /\ Purged(n)
          /\ ~HasCapacity(n)
          /\ popped' = n
          /\ wake' = [wake EXCEPT ![t] = log[n + 1] + Window]
    BY <1>4 DEF Sleep
  <2>2. n + 1 \in 1..Len(log) BY <2>1 DEF HasCapacity
  <2>3. log[n + 1] + Window \in Nat BY <2>2
  <2> QED BY <1>4, <2>1, <2>3 DEF Sleep, Purged
<1>5. CASE Tick BY <1>5 DEF Tick
<1>6. CASE UNCHANGED vars BY <1>6 DEF vars
<1> QED BY <1>1, <1>2, <1>3, <1>4, <1>5, <1>6 DEF Next

(* The deque holds what the strict window still counts, in every           *)
(* reachable state.                                                        *)
THEOREM DequeCorrect == Spec => []DequeIsWindow
<1>1. Init => DequeIsWindow
  BY WindowAssumption DEF Init, DequeIsWindow, TypeOK
<1> QED BY <1>1, DequeStep, PTL DEF Spec

-----------------------------------------------------------------------------
(* The limiter implements the sliding-window quota.                        *)

LEMMA QuotaStep == DequeIsWindow /\ [Next]_vars => [Quota!Next]_Quota!vars
<1> SUFFICES ASSUME DequeIsWindow, [Next]_vars
             PROVE  [Quota!Next]_Quota!vars
  OBVIOUS
<1> USE WindowAssumption DEF DequeIsWindow, TypeOK
<1>1. ASSUME NEW t \in Tasks, Acquire(t) PROVE Quota!Next
  <2>1. PICK n \in popped..Len(log) : Purged(n) /\ HasCapacity(n)
    BY <1>1 DEF Acquire
  <2>2. Quota!HasRoom
    <3> SUFFICES ASSUME Len(log) >= Limit
                 PROVE  log[Len(log) + 1 - Limit] + Window <= now
      BY DEF Quota!HasRoom
    <3>1. Len(log) + 1 - Limit \in 1..n BY <2>1 DEF HasCapacity
    <3>2. \A i \in 1..n : log[i] + Window <= now BY <2>1 DEF Purged
    <3> QED BY <3>1, <3>2
  <2>3. now' \in now..MaxTime /\ log' = Append(log, now')
    BY <1>1 DEF Acquire
  <2> QED BY <2>2, <2>3 DEF Quota!Next, Quota!Grant
<1>2. ASSUME NEW t \in Tasks,
             Call(t) \/ Refuse(t) \/ Sleep(t) \/ Wake(t) \/ Cancel(t)
      PROVE  UNCHANGED Quota!vars
  BY <1>2 DEF Call, Refuse, Sleep, Wake, Cancel, Quota!vars
<1>3. CASE Tick
  BY <1>3 DEF Tick, Quota!Next, Quota!Pass
<1>4. CASE UNCHANGED vars
  BY <1>4 DEF vars, Quota!vars
<1> QED BY <1>1, <1>2, <1>3, <1>4 DEF Next

(* StrictSlidingWindowLimiter grants exactly as a sliding-window quota may. *)
THEOREM LimiterImplementsQuota == Spec => ImplementsQuota
<1>1. Init => Quota!Init BY DEF Init, Quota!Init
<1> QED
  BY <1>1, DequeCorrect, QuotaStep, PTL
     DEF Spec, Quota!Spec, ImplementsQuota

-----------------------------------------------------------------------------
(* The guarantee of the class, and that it never sleeps in vain.           *)

BoundInv == DequeIsWindow /\ WindowBound

LEMMA BoundStep == BoundInv /\ [Next]_vars => BoundInv'
<1> SUFFICES ASSUME BoundInv, [Next]_vars PROVE BoundInv'
  OBVIOUS
<1>1. DequeIsWindow /\ DequeIsWindow' BY DequeStep DEF BoundInv
<1>2. CASE log' = log
  BY <1>1, <1>2 DEF BoundInv, WindowBound, Quota!WindowBound
<1>3. CASE Quota!Grant
  <2> USE WindowAssumption DEF DequeIsWindow, TypeOK
  <2>1. /\ Len(log') = Len(log) + 1
        /\ \A i \in 1..Len(log) : log'[i] = log[i]
        /\ log'[Len(log) + 1] = now'
        /\ now' >= now
    BY <1>1, <1>3 DEF Quota!Grant
  <2>2. ASSUME NEW i \in 1..Len(log'), i + Limit <= Len(log')
        PROVE  log'[i] + Window <= log'[i + Limit]
    <3>0. /\ i \in Nat /\ i >= 1 /\ Len(log) \in Nat
          /\ Limit \in Nat /\ Limit >= 1
          /\ i + Limit <= Len(log) + 1
      BY <1>1, <2>1, <2>2
    <3>1. CASE i + Limit <= Len(log)
      <4>1. i \in 1..Len(log) /\ i + Limit \in 1..Len(log)
        BY ONLY <3>0, <3>1
      <4> QED
        BY <1>1, <2>1, <3>1, <4>1
           DEF BoundInv, WindowBound, Quota!WindowBound
    <3>2. CASE i + Limit = Len(log) + 1
      <4>1. i = Len(log) + 1 - Limit /\ Len(log) >= Limit /\ i \in 1..Len(log)
        BY ONLY <3>0, <3>2
      <4>2. log[i] + Window <= now BY <1>3, <4>1 DEF Quota!Grant, Quota!HasRoom
      <4>3. log[i] \in Nat BY <1>1, <4>1, StampIsTime
      <4>5. now \in Nat /\ now' \in Nat BY <1>1
      <4> QED BY <2>1, <3>2, <4>1, <4>2, <4>3, <4>5
    <3>3. i + Limit <= Len(log) \/ i + Limit = Len(log) + 1
      BY ONLY <3>0
    <3> QED BY <3>1, <3>2, <3>3
  <2> QED BY <1>1, <2>2 DEF BoundInv, WindowBound, Quota!WindowBound
<1>4. log' = log \/ Quota!Grant
  BY <1>1, QuotaStep DEF Quota!Next, Quota!Pass, Quota!vars
<1> QED BY <1>2, <1>3, <1>4

(* At most rate_limit acquisitions in any interval of length rate_window.  *)
THEOREM WindowNeverExceeded == Spec => []WindowBound
<1>1. Init => BoundInv
  BY WindowAssumption
     DEF Init, BoundInv, DequeIsWindow, TypeOK, WindowBound,
         Quota!WindowBound
<1>2. BoundInv => WindowBound BY DEF BoundInv
<1> QED BY <1>1, <1>2, BoundStep, PTL DEF Spec

OnlyWhenFull ==
  \A t \in Tasks :
    pc[t] = "trying" /\ pc'[t] = "asleep" =>
      /\ ~Quota!HasRoom
      /\ wake'[t] = log[Len(log) + 1 - Limit] + Window

LEMMA SleepStep == DequeIsWindow /\ [Next]_vars => [OnlyWhenFull]_vars
<1> SUFFICES ASSUME DequeIsWindow, [Next]_vars,
                    NEW t \in Tasks, pc[t] = "trying", pc'[t] = "asleep"
             PROVE  /\ ~Quota!HasRoom
                    /\ wake'[t] = log[Len(log) + 1 - Limit] + Window
  BY DEF OnlyWhenFull
<1> USE WindowAssumption DEF DequeIsWindow, TypeOK
<1>1. Sleep(t)
  BY DEF Next, Call, Acquire, Refuse, Sleep, Wake, Cancel, Tick, vars
<1>2. PICK n \in popped..Len(log) :
        /\ Purged(n)
        /\ ~HasCapacity(n)
        /\ wake' = [wake EXCEPT ![t] = log[n + 1] + Window]
  BY <1>1 DEF Sleep
<1>3. n + 1 = Len(log) + 1 - Limit /\ n < Len(log)
  <2>1. /\ Len(log) \in Nat /\ n \in Nat /\ popped \in Nat /\ Limit \in Nat
        /\ popped <= n /\ Len(log) - popped <= Limit /\ Limit > 0
    OBVIOUS
  <2>2. ~(Len(log) - n < Limit) BY <1>2 DEF HasCapacity
  <2> QED BY ONLY <2>1, <2>2
<1>4. log[n + 1] + Window > now BY <1>2, <1>3 DEF Purged
<1>5. n + 1 \in 1..Len(log) BY <1>2, <1>3
<1>6. ~(log[n + 1] + Window <= now) BY <1>4, <1>5
<1>7. ~Quota!HasRoom
  <2>1. n + 1 >= 1 /\ Limit \in Nat /\ Len(log) \in Nat BY <1>5
  <2>2. Len(log) >= Limit BY <1>3, <2>1
  <2> QED BY <1>3, <1>6, <2>2 DEF Quota!HasRoom
<1>8. wake'[t] = log[n + 1] + Window BY <1>2
<1> QED BY <1>3, <1>7, <1>8

(* A caller sleeps only while the window is full, and only until it opens. *)
THEOREM NeverSleepsInVain == Spec => SleepsOnlyWhenFull
  BY DequeCorrect, SleepStep, PTL DEF Spec, SleepsOnlyWhenFull, OnlyWhenFull

-----------------------------------------------------------------------------
(* The worker uses the limiter as RateWindow describes it, so what the      *)
(* limiter promises holds of what the bot sends.                           *)

(* A step of the delivery is a step of its worker in the limiter, or of     *)
(* time, or leaves the limiter alone.                                      *)
LEMMA WindowStep ==
  ASSUME [DeliveryNext]_<<vars, delivery>>
  PROVE  [Next]_vars
<1>1. Worker \in Tasks
  BY DeliveryAssumption
<1>2. CASE Bot
  BY <1>2 DEF Bot, Post, StartTask, Resume, Retry, CancelCaller, WindowOnly
<1>3. CASE WorkerStep
  <2>1. CASE Take
    BY <1>1, <2>1 DEF Take, WindowOnly, Next
  <2>2. CASE EndPause
    BY <1>1, <2>2 DEF EndPause, Next
  <2>3. CASE StartCall
    BY <1>1, <2>3 DEF StartCall, Next
  <2>4. CASE WaitForRoom
    BY <1>1, <2>4 DEF WaitForRoom, Next
  <2>5. CASE EndCall \/ Rest
    BY <2>5 DEF EndCall, Rest, WindowOnly
  <2>6. CASE StopWorker
    BY <1>1, <2>6 DEF StopWorker, WindowOnly, Next
  <2> QED
    BY <1>3, <2>1, <2>2, <2>3, <2>4, <2>5, <2>6 DEF WorkerStep
<1>4. CASE Close
  BY <1>4 DEF Close, CloseOutbox, BeginShutdown, EndShutdown, WindowOnly
<1>5. CASE Clock
  BY <1>5 DEF Clock, Next
<1>6. CASE UNCHANGED <<vars, delivery>>
  BY <1>6
<1> QED
  BY <1>2, <1>3, <1>4, <1>5, <1>6 DEF DeliveryNext

(* Whatever is queued, retried, cancelled or shut down, the limiter of the  *)
(* worker (core/rate_limit.py) behaves as it is modelled on its own.       *)
THEOREM DeliveryUsesLimiter == DeliverySpec => Spec
<1>1. DeliveryInit => Init
  BY DEF DeliveryInit
<1> QED
  BY <1>1, WindowStep, PTL DEF DeliverySpec, Spec

(* What the bot sends to the platform (messaging/limiter.py) keeps within   *)
(* the sliding-window quota.                                               *)
THEOREM DeliveryKeepsQuota == DeliverySpec => ImplementsQuota
  BY DeliveryUsesLimiter, LimiterImplementsQuota, PTL

(* The worker of the queue sleeps only while the window is full.           *)
THEOREM WorkerSleepsInNeed == DeliverySpec => SleepsOnlyWhenFull
  BY DeliveryUsesLimiter, NeverSleepsInVain, PTL

-----------------------------------------------------------------------------
(* The queue.                                                              *)

Posted == [edit : BOOLEAN, way : {"wait", "direct", "outbox"}]

Futures == {"none", "pending", "ok", "transient", "error", "cancelled"}

ReadyTasks == [call : Calls, of : {"direct", "outbox", "cancelled"}]

Shapes ==
  /\ calls \in Seq(Posted) /\ Len(calls) <= MaxCalls
  /\ fut \in [Calls -> Futures]
  /\ ready \in Seq(ReadyTasks)
  /\ queue \in Seq(Keys) /\ job \in [Keys -> Jobs] /\ held \in Jobs

(* Tasks and futures are those of calls that were made.                    *)
OnlyCalls ==
  /\ \A n \in DOMAIN ready : ready[n].call \in DOMAIN calls
  /\ \A i \in Calls : fut[i] = "pending" => i \in DOMAIN calls

(* A job is in the queue by its key, and somebody takes from the queue.    *)
Served ==
  /\ Running => worker # "over"
  /\ \A k \in Keys : job[k] # NoJob => \E n \in DOMAIN queue : queue[n] = k

DeliveryInv == Shapes /\ OnlyCalls /\ Served /\ PendingIsOwned

(* The keys of the calls.                                                  *)
LEMMA KeysOfCalls ==
  ASSUME NEW edit \in BOOLEAN, NEW i \in Calls
  PROVE  KeyOf(edit, i) \in Keys /\ i \in Keys
  BY DeliveryAssumption DEF KeyOf, Keys, Calls

LEMMA CallsMade ==
  ASSUME Shapes, NEW i \in DOMAIN calls
  PROVE  i \in Calls /\ calls[i].edit \in BOOLEAN /\ Key(i) \in Keys
<1>1. i \in Calls /\ calls[i] \in Posted
  BY DeliveryAssumption DEF Shapes, Calls
<1> QED
  BY <1>1, KeysOfCalls DEF Key, Posted

(* What is put into the queue is owned by the worker, and the jobs that     *)
(* were there keep their places.                                           *)
LEMMA EnqueueKeeps ==
  ASSUME DeliveryInv, NEW i \in Calls, NEW key \in Keys, Enqueue(i, key),
         Running, Running', worker' = worker, held' = held,
         calls' \in Seq(Posted), Len(calls') <= MaxCalls,
         \A j \in DOMAIN calls : j \in DOMAIN calls' /\ calls'[j] = calls[j],
         i \in DOMAIN calls', KeyOf(calls'[i].edit, i) = key
  PROVE  /\ fut' \in [Calls -> Futures]
         /\ queue' \in Seq(Keys) /\ job' \in [Keys -> Jobs] /\ held' \in Jobs
         /\ \A j \in Calls : fut'[j] = "pending" => j \in DOMAIN calls'
         /\ Served' /\ PendingIsOwned'
<1> USE DEF DeliveryInv, Shapes
<1>1. fut' \in [Calls -> Futures] /\ held' \in Jobs
  BY DEF Enqueue, Futures
<1>2. job[key] \in Jobs /\ Compacted(job[key], i) \in Jobs
  BY DeliveryAssumption DEF Jobs, Compacted, Calls
<1>3. job' \in [Keys -> Jobs] /\ queue' \in Seq(Keys)
  BY <1>2 DEF Enqueue
<1>4. \A j \in Calls : fut'[j] = "pending" => j \in DOMAIN calls'
  BY DEF Enqueue, OnlyCalls
<1>5. \A k \in Keys : (\E n \in DOMAIN queue : queue[n] = k) =>
                        \E n \in DOMAIN queue' : queue'[n] = k
  BY DEF Enqueue
<1>6. \E n \in DOMAIN queue' : queue'[n] = key
  <2>1. CASE job[key] = NoJob
    <3>1. queue' = Append(queue, key)
      BY <2>1 DEF Enqueue
    <3>2. Len(queue) + 1 \in DOMAIN queue' /\ queue'[Len(queue) + 1] = key
      BY <3>1
    <3> QED
      BY <3>2
  <2>2. CASE job[key] # NoJob
    BY <2>2, <1>5 DEF Served
  <2> QED
    BY <2>1, <2>2
<1>7. Served'
  BY <1>5, <1>6 DEF Served, Enqueue
<1>8. PendingIsOwned'
  <2> SUFFICES ASSUME NEW j \in Calls, fut'[j] = "pending"
               PROVE  /\ Running' /\ worker' # "over"
                      /\ \/ /\ j \in job'[Key(j)'].futs
                            /\ \E n \in DOMAIN queue' : queue'[n] = Key(j)'
                         \/ j \in held'.futs /\ worker' \in {"paused", "limit", "call"}
    BY DEF PendingIsOwned
  <2>1. Running' /\ worker' # "over"
    BY DEF Served
  <2>2. CASE j = i
    <3>1. Key(j)' = key
      BY <2>2 DEF Key
    <3>2. job'[key] = Compacted(job[key], i)
      BY DEF Enqueue
    <3> QED
      BY <2>1, <2>2, <3>1, <3>2, <1>6 DEF Compacted
  <2>3. CASE j # i
    <3>1. fut[j] = "pending" /\ j \in DOMAIN calls
      BY <2>3 DEF Enqueue, OnlyCalls
    <3>2. Key(j)' = Key(j) /\ Key(j) \in Keys
      BY <3>1, CallsMade DEF Key
    <3>3. CASE j \in held.futs /\ worker \in {"paused", "limit", "call"}
      BY <2>1, <3>3
    <3>4. CASE j \in job[Key(j)].futs /\ \E n \in DOMAIN queue : queue[n] = Key(j)
      <4>1. \E n \in DOMAIN queue' : queue'[n] = Key(j)
        BY <3>2, <3>4, <1>5
      <4>2. j \in job'[Key(j)].futs
        BY <3>2, <3>4 DEF Enqueue, Compacted
      <4> QED
        BY <2>1, <3>2, <4>1, <4>2
    <3> QED
      BY <3>1, <3>3, <3>4 DEF PendingIsOwned
  <2> QED
    BY <2>2, <2>3
<1> QED
  BY <1>1, <1>3, <1>4, <1>7, <1>8

(* A step that leaves the queue alone keeps it served, if whatever is still *)
(* pending stays with somebody.                                            *)
LEMMA SettlingKeeps ==
  ASSUME DeliveryInv, UNCHANGED <<calls, queue, job>>,
         fut' \in [Calls -> Futures], held' \in Jobs,
         ready' \in Seq(ReadyTasks),
         \A n \in DOMAIN ready' : ready'[n].call \in DOMAIN calls,
         Running' => worker' # "over",
         \A j \in Calls : fut'[j] = "pending" =>
           /\ fut[j] = "pending" /\ Running' /\ worker' # "over"
           /\ \/ j \in job[Key(j)].futs /\ \E n \in DOMAIN queue : queue[n] = Key(j)
              \/ j \in held'.futs /\ worker' \in {"paused", "limit", "call"}
  PROVE  DeliveryInv'
<1> USE DEF DeliveryInv
<1>1. Shapes' /\ OnlyCalls'
  BY DEF Shapes, OnlyCalls
<1>2. Served'
  BY DEF Served
<1>3. PendingIsOwned'
  BY DEF PendingIsOwned, Key
<1> QED
  BY <1>1, <1>2, <1>3

(* Settling the futures of some callers leaves only others pending.        *)
LEMMA SettledLeaves ==
  ASSUME fut \in [Calls -> Futures], NEW futs, NEW result \in Futures \ {"pending"},
         Settled(futs, result)
  PROVE  /\ fut' \in [Calls -> Futures]
         /\ \A j \in Calls : fut'[j] = "pending" => fut[j] = "pending" /\ j \notin futs
  BY DEF Settled, Futures

LEMMA NoJobIsJob == NoJob \in Jobs
  BY DeliveryAssumption DEF NoJob, Jobs

-----------------------------------------------------------------------------
(* The steps of the bot.                                                   *)

LEMMA PostKeeps ==
  ASSUME DeliveryInv, NEW edit \in BOOLEAN, NEW way \in {"wait", "direct", "outbox"},
         Post(edit, way)
  PROVE  DeliveryInv'
<1> DEFINE i == Len(calls) + 1
<1> USE DEF DeliveryInv
<1>1. /\ i \in Calls /\ KeyOf(edit, i) \in Keys
      /\ calls' = Append(calls, [edit |-> edit, way |-> way])
  BY DeliveryAssumption, KeysOfCalls DEF Post, Shapes, Calls
<1>2. /\ calls' \in Seq(Posted) /\ Len(calls') <= MaxCalls
      /\ \A j \in DOMAIN calls : j \in DOMAIN calls' /\ calls'[j] = calls[j]
      /\ i \in DOMAIN calls' /\ calls'[i].edit = edit
  BY <1>1, DeliveryAssumption DEF Shapes, Posted, Calls
<1>3. Running /\ Running' /\ worker' = worker /\ held' = held
  BY DEF Post, Running, QueueOnly
<1>4. CASE way = "wait"
  <2>1. Enqueue(i, KeyOf(edit, i)) /\ ready' = ready
    BY <1>4 DEF Post
  <2>2. /\ fut' \in [Calls -> Futures]
        /\ queue' \in Seq(Keys) /\ job' \in [Keys -> Jobs] /\ held' \in Jobs
        /\ \A j \in Calls : fut'[j] = "pending" => j \in DOMAIN calls'
        /\ Served' /\ PendingIsOwned'
    BY <1>1, <1>2, <1>3, <2>1, EnqueueKeeps
  <2> QED
    BY <1>2, <2>1, <2>2 DEF Shapes, OnlyCalls
<1>5. CASE way # "wait"
  <2>1. /\ ready' = Append(ready, [call |-> i, of |-> way])
        /\ UNCHANGED <<fut, job, queue>>
    BY <1>5 DEF Post
  <2>2. ready' \in Seq(ReadyTasks)
    <3>1. [call |-> i, of |-> way] \in ReadyTasks
      BY <1>1, <1>5 DEF ReadyTasks
    <3> QED
      BY <2>1, <3>1 DEF Shapes
  <2>3. \A n \in DOMAIN ready' : ready'[n].call \in DOMAIN calls'
    BY <1>2, <2>1 DEF Shapes, OnlyCalls
  <2>4. Shapes' /\ OnlyCalls' /\ Served'
    BY <1>2, <1>3, <2>1, <2>2, <2>3 DEF Shapes, OnlyCalls, Served
  <2>5. PendingIsOwned'
    <3>1. \A j \in Calls : fut[j] = "pending" => Key(j)' = Key(j)
      BY <1>2 DEF OnlyCalls, Key
    <3> QED
      BY <1>3, <2>1, <3>1 DEF PendingIsOwned
  <2> QED
    BY <2>4, <2>5
<1> QED
  BY <1>4, <1>5

(* A call that is tried, or tried again, is queued or given up.            *)
LEMMA TryKeeps ==
  ASSUME DeliveryInv, NEW i \in DOMAIN calls, TryToSend(i), QueueOnly, UNCHANGED calls,
         ready' \in Seq(ReadyTasks),
         \A n \in DOMAIN ready' : ready'[n].call \in DOMAIN calls
  PROVE  DeliveryInv'
<1> USE DEF DeliveryInv
<1>1. i \in Calls /\ Key(i) \in Keys
  BY CallsMade
<1>2. CASE Running
  <2>1. Enqueue(i, Key(i)) /\ Running'
    BY <1>2 DEF TryToSend, Running, QueueOnly
  <2>2. /\ fut' \in [Calls -> Futures]
        /\ queue' \in Seq(Keys) /\ job' \in [Keys -> Jobs] /\ held' \in Jobs
        /\ \A j \in Calls : fut'[j] = "pending" => j \in DOMAIN calls'
        /\ Served' /\ PendingIsOwned'
    BY <1>1, <1>2, <2>1, EnqueueKeeps DEF QueueOnly, Shapes, Key
  <2> QED
    BY <2>2 DEF Shapes, OnlyCalls
<1>3. CASE ~Running
  BY <1>3, SettlingKeeps
     DEF TryToSend, QueueOnly, Shapes, Running, PendingIsOwned
<1> QED
  BY <1>2, <1>3

LEMMA StartTaskKeeps ==
  ASSUME DeliveryInv, StartTask
  PROVE  DeliveryInv'
<1> DEFINE task == Head(ready)
<1> USE DEF DeliveryInv
<1>1. /\ task \in ReadyTasks /\ task.call \in DOMAIN calls
      /\ Tail(ready) \in Seq(ReadyTasks)
      /\ \A n \in DOMAIN Tail(ready) : Tail(ready)[n].call \in DOMAIN calls
  <2>1. ready \in Seq(ReadyTasks) /\ ready # <<>>
    BY DEF StartTask, Shapes
  <2>2. /\ task = ready[1] /\ 1 \in DOMAIN ready
        /\ Tail(ready) \in Seq(ReadyTasks)
        /\ \A n \in DOMAIN Tail(ready) :
             n + 1 \in DOMAIN ready /\ Tail(ready)[n] = ready[n + 1]
    BY <2>1
  <2>3. task \in ReadyTasks
    BY <2>1, <2>2
  <2>4. task.call \in DOMAIN calls
    BY <2>2 DEF OnlyCalls
  <2>5. \A n \in DOMAIN Tail(ready) : Tail(ready)[n].call \in DOMAIN calls
    BY <2>2 DEF OnlyCalls
  <2> QED
    BY <2>2, <2>3, <2>4, <2>5
<1> HIDE DEF task
<1>2. CASE task.of = "outbox"
  <2> DEFINE next == [task EXCEPT !.of = "direct"]
  <2>1. /\ ready' = Append(Tail(ready), next)
        /\ UNCHANGED <<calls, fut, job, queue, worker, held, phase>>
    BY <1>2 DEF StartTask, QueueOnly, task
  <2>2. next \in ReadyTasks /\ next.call \in DOMAIN calls
    BY <1>1 DEF ReadyTasks
  <2> HIDE DEF next
  <2>3. /\ ready' \in Seq(ReadyTasks)
        /\ \A n \in DOMAIN ready' : ready'[n].call \in DOMAIN calls
    BY <1>1, <2>1, <2>2
  <2> QED
    BY <2>1, <2>3, SettlingKeeps DEF Shapes, Served, PendingIsOwned, Running
<1>3. CASE task.of = "direct"
  <2>1. ready' = Tail(ready) /\ TryToSend(task.call) /\ QueueOnly /\ UNCHANGED calls
    BY <1>3 DEF StartTask, task
  <2> QED
    BY <1>1, <2>1, TryKeeps
<1>4. CASE task.of = "cancelled"
  <2>1. /\ ready' = Tail(ready)
        /\ UNCHANGED <<calls, fut, job, queue, worker, held, phase>>
    BY <1>4 DEF StartTask, QueueOnly, task
  <2> QED
    BY <1>1, <2>1, SettlingKeeps DEF Shapes, Served, PendingIsOwned, Running
<1> QED
  BY <1>1, <1>2, <1>3, <1>4 DEF ReadyTasks

LEMMA CallerKeeps ==
  ASSUME DeliveryInv, NEW i \in DOMAIN calls, Resume(i) \/ Retry(i) \/ CancelCaller(i)
  PROVE  DeliveryInv'
<1> USE DEF DeliveryInv
<1>1. CASE Resume(i)
  BY <1>1, SettlingKeeps
     DEF Resume, QueueOnly, Shapes, OnlyCalls, Served, PendingIsOwned, Running
<1>2. CASE Retry(i)
  BY <1>2, TryKeeps DEF Retry, Shapes, OnlyCalls
<1>3. CASE CancelCaller(i)
  <2>1. /\ fut' \in [Calls -> Futures]
        /\ \A j \in Calls : fut'[j] = "pending" => fut[j] = "pending"
    BY <1>3 DEF CancelCaller, Shapes, Futures
  <2> QED
    BY <1>3, <2>1, SettlingKeeps
       DEF CancelCaller, QueueOnly, Shapes, OnlyCalls, Served, PendingIsOwned, Running
<1> QED
  BY <1>1, <1>2, <1>3

-----------------------------------------------------------------------------
(* The steps of the worker.                                                *)

(* What the worker takes out of the queue, it holds.                       *)
LEMMA TakeKeeps ==
  ASSUME DeliveryInv, Take
  PROVE  DeliveryInv'
<1> DEFINE key == Head(queue)
<1> USE DEF DeliveryInv
<1>1. /\ key \in Keys /\ Tail(queue) \in Seq(Keys) /\ key = queue[1]
      /\ \A n \in DOMAIN queue : n # 1 =>
           n - 1 \in DOMAIN Tail(queue) /\ Tail(queue)[n - 1] = queue[n]
  BY DEF Take, Shapes
<1>2. /\ held' = job[key] /\ job' = [job EXCEPT ![key] = NoJob] /\ queue' = Tail(queue)
      /\ worker = "wait" /\ worker' \in {"paused", "limit"}
      /\ Running /\ Running' /\ UNCHANGED <<calls, fut, ready>>
  BY DEF Take, box, Running
<1> HIDE DEF key
<1>3. \A k \in Keys : k # key /\ (\E n \in DOMAIN queue : queue[n] = k) =>
                       \E n \in DOMAIN queue' : queue'[n] = k
  <2> SUFFICES ASSUME NEW k \in Keys, k # key, NEW n \in DOMAIN queue, queue[n] = k
               PROVE  \E p \in DOMAIN queue' : queue'[p] = k
    OBVIOUS
  <2>1. n # 1 /\ n - 1 \in DOMAIN queue' /\ queue'[n - 1] = k
    BY <1>1, <1>2
  <2> QED
    BY <2>1
<1>4. Shapes' /\ OnlyCalls'
  BY <1>1, <1>2, NoJobIsJob DEF Shapes, OnlyCalls
<1>5. Served'
  BY <1>1, <1>2, <1>3 DEF Served, Shapes
<1>6. PendingIsOwned'
  <2> SUFFICES ASSUME NEW j \in Calls, fut[j] = "pending"
               PROVE  \/ /\ j \in job'[Key(j)].futs
                         /\ \E n \in DOMAIN queue' : queue'[n] = Key(j)
                      \/ j \in held'.futs
    BY <1>2 DEF PendingIsOwned, Key
  <2>1. j \in job[Key(j)].futs /\ \E n \in DOMAIN queue : queue[n] = Key(j)
    BY <1>2 DEF PendingIsOwned
  <2>2. Key(j) \in Keys
    BY CallsMade DEF OnlyCalls
  <2>3. CASE Key(j) = key
    BY <1>2, <2>1, <2>3
  <2>4. CASE Key(j) # key
    BY <1>2, <1>3, <2>1, <2>2, <2>4 DEF Shapes
  <2> QED
    BY <2>3, <2>4
<1> QED
  BY <1>4, <1>5, <1>6

(* While the worker gets from its pause to its call, it holds what it has.  *)
LEMMA WaitingKeeps ==
  ASSUME DeliveryInv, EndPause \/ StartCall \/ WaitForRoom
  PROVE  DeliveryInv'
<1>1. /\ UNCHANGED <<calls, fut, ready, queue, job, held, phase>>
      /\ worker' \in {"limit", "call"} /\ worker \in {"paused", "limit"}
  BY DEF EndPause, StartCall, WaitForRoom, delivery, box
<1> QED
  BY <1>1, SettlingKeeps
     DEF DeliveryInv, Shapes, OnlyCalls, Served, PendingIsOwned, Running

(* However the operation ends, all its callers have their answer.          *)
LEMMA EndCallKeeps ==
  ASSUME DeliveryInv, EndCall
  PROVE  DeliveryInv'
<1> USE DEF DeliveryInv
<1>1. PICK result \in Futures \ {"pending"} : Settled(held.futs, result)
  BY DEF EndCall, Futures
<1>2. /\ fut' \in [Calls -> Futures]
      /\ \A j \in Calls : fut'[j] = "pending" => fut[j] = "pending" /\ j \notin held.futs
  BY <1>1, SettledLeaves DEF Shapes
<1>3. /\ UNCHANGED <<calls, ready, queue, job, phase>> /\ held' = NoJob
      /\ Running => worker' \in {"wait", "rest"}
  BY DEF EndCall, Next1
<1> QED
  BY <1>2, <1>3, NoJobIsJob, SettlingKeeps
     DEF Shapes, OnlyCalls, PendingIsOwned, Running

(* A worker that rests goes on; one that is stopped leaves nobody waiting,  *)
(* because the shutdown has answered everybody before.                     *)
LEMMA StopKeeps ==
  ASSUME DeliveryInv, Rest \/ StopWorker
  PROVE  DeliveryInv'
<1> USE DEF DeliveryInv
<1>1. CASE Rest
  <2>1. /\ UNCHANGED <<calls, fut, ready, queue, job, held, phase>>
        /\ worker = "rest" /\ (Running => worker' = "wait")
    BY <1>1 DEF Rest, Next1, box
  <2> QED
    BY <2>1, SettlingKeeps DEF Shapes, OnlyCalls, PendingIsOwned, Running
<1>2. CASE StopWorker
  <2>1. /\ UNCHANGED <<calls, ready, queue, job, phase>> /\ held' = NoJob
        /\ ~Running /\ Settled(held.futs, "cancelled")
    BY <1>2 DEF StopWorker
  <2>2. /\ fut' \in [Calls -> Futures]
        /\ \A j \in Calls : fut'[j] = "pending" => fut[j] = "pending"
    BY <2>1, SettledLeaves DEF Shapes, Futures
  <2> QED
    BY <2>1, <2>2, NoJobIsJob, SettlingKeeps
       DEF Shapes, OnlyCalls, PendingIsOwned, Running
<1> QED
  BY <1>1, <1>2

-----------------------------------------------------------------------------
(* The steps of the close.                                                 *)

LEMMA CloseOutboxKeeps ==
  ASSUME DeliveryInv, CloseOutbox
  PROVE  DeliveryInv'
<1> USE DEF DeliveryInv
<1>1. /\ ready' = [n \in DOMAIN ready |->
                    IF ready[n].of = "outbox" THEN [ready[n] EXCEPT !.of = "cancelled"]
                    ELSE ready[n]]
      /\ UNCHANGED <<calls, fut, queue, job, worker, held>>
      /\ Running /\ Running'
  BY DEF CloseOutbox, Running
<1>2. \A n \in DOMAIN ready : ready'[n] \in ReadyTasks /\ ready'[n].call = ready[n].call
  <2> SUFFICES ASSUME NEW n \in DOMAIN ready
               PROVE  ready'[n] \in ReadyTasks /\ ready'[n].call = ready[n].call
    OBVIOUS
  <2>1. ready[n] \in ReadyTasks
    BY DEF Shapes
  <2>2. ready'[n] = ready[n] \/ ready'[n] = [ready[n] EXCEPT !.of = "cancelled"]
    BY <1>1
  <2> QED
    BY <2>1, <2>2 DEF ReadyTasks
<1>3. ready' \in Seq(ReadyTasks) /\ DOMAIN ready' = DOMAIN ready
  BY <1>1, <1>2 DEF Shapes
<1> QED
  BY <1>1, <1>2, <1>3, SettlingKeeps DEF Shapes, OnlyCalls, Served, PendingIsOwned

(* The shutdown answers everybody: those in the queue and those the worker  *)
(* holds.                                                                  *)
LEMMA BeginShutdownKeeps ==
  ASSUME DeliveryInv, BeginShutdown
  PROVE  DeliveryInv'
<1> DEFINE queued == UNION {job[k].futs : k \in Keys}
<1> USE DEF DeliveryInv
<1>1. /\ UNCHANGED <<calls, ready, worker, held>> /\ ~Running'
      /\ queue' = <<>> /\ job' = [k \in Keys |-> NoJob]
      /\ Settled(held.futs \union queued, "cancelled")
  BY DEF BeginShutdown, Running
<1>2. /\ fut' \in [Calls -> Futures]
      /\ \A j \in Calls : fut'[j] = "pending" =>
                         fut[j] = "pending" /\ j \notin held.futs \union queued
  BY <1>1, SettledLeaves DEF Shapes, Futures
<1>3. \A j \in Calls : fut'[j] # "pending"
  <2> SUFFICES ASSUME NEW j \in Calls, fut'[j] = "pending"
               PROVE  FALSE
    OBVIOUS
  <2>1. j \in job[Key(j)].futs \/ j \in held.futs
    BY <1>2 DEF PendingIsOwned
  <2>2. Key(j) \in Keys
    BY <1>2, CallsMade DEF OnlyCalls
  <2> QED
    BY <1>2, <2>1, <2>2
<1>4. Shapes' /\ OnlyCalls' /\ Served'
  BY <1>1, <1>2, <1>3, NoJobIsJob DEF Shapes, OnlyCalls, Served
<1>5. PendingIsOwned'
  BY <1>3 DEF PendingIsOwned
<1> QED
  BY <1>4, <1>5

LEMMA EndShutdownKeeps ==
  ASSUME DeliveryInv, EndShutdown
  PROVE  DeliveryInv'
<1>1. /\ UNCHANGED <<calls, fut, queue, job, worker, held>> /\ ready' = <<>>
      /\ ~Running /\ ~Running'
  BY DEF EndShutdown, Running
<1> QED
  BY <1>1, SettlingKeeps DEF DeliveryInv, Shapes, OnlyCalls, PendingIsOwned

-----------------------------------------------------------------------------
LEMMA DeliveryInitInv ==
  ASSUME DeliveryInit
  PROVE  DeliveryInv
<1>1. Shapes
  BY NoJobIsJob, DeliveryAssumption DEF DeliveryInit, Shapes, Futures
<1> QED
  BY <1>1 DEF DeliveryInit, DeliveryInv, OnlyCalls, Served, PendingIsOwned

LEMMA DeliveryStep ==
  ASSUME DeliveryInv, [DeliveryNext]_<<vars, delivery>>
  PROVE  DeliveryInv'
<1>1. CASE Bot
  BY <1>1, PostKeeps, StartTaskKeeps, CallerKeeps DEF Bot
<1>2. CASE WorkerStep
  BY <1>2, TakeKeeps, WaitingKeeps, EndCallKeeps, StopKeeps DEF WorkerStep
<1>3. CASE Close
  BY <1>3, CloseOutboxKeeps, BeginShutdownKeeps, EndShutdownKeeps DEF Close
<1>4. CASE UNCHANGED delivery
  BY <1>4
     DEF delivery, box, DeliveryInv, Shapes, OnlyCalls, Served, PendingIsOwned,
         Running, Key
<1> QED
  BY <1>1, <1>2, <1>3, <1>4 DEF DeliveryNext, Clock

(* Whoever waits in the queue of the bot (messaging/limiter.py), waits for  *)
(* a job that is queued or that the worker holds; compaction, retries,     *)
(* cancelled callers, failed operations and the shutdown lose nobody.      *)
THEOREM DeliveryCorrect == DeliverySpec => []DeliveryInv
  BY DeliveryInitInv, DeliveryStep, PTL DEF DeliverySpec

(* So the future of every call is settled or owned, for any number of calls. *)
THEOREM EveryCallIsOwned == DeliverySpec => []PendingIsOwned
<1>1. DeliveryInv => PendingIsOwned
  BY DEF DeliveryInv
<1> QED
  BY <1>1, DeliveryCorrect, PTL

-----------------------------------------------------------------------------
(* The newest edit.                                                        *)

Places == {"none", "ready", "parked", "backoff", "done"}

SameWay(i, j) == calls[i].way = calls[j].way

(* The edits given after f in the same way.                                *)
Newer(f) == {j \in DOMAIN calls : j > f /\ calls[j].edit /\ SameWay(f, j)}

(* What was never tried has left no trace.                                 *)
Untried ==
  /\ tries \in [Calls -> Nat] /\ at \in [Calls -> Places]
  /\ \A i \in Calls :
       /\ i \notin DOMAIN calls => tries[i] = 0
       /\ tries[i] = 0 =>
            /\ fut[i] = "none" /\ at[i] \notin {"parked", "backoff"}
            /\ i \notin held.futs /\ \A k \in Keys : i \notin job[k].futs

(* A task that has to make another one first, unless it is cancelled.      *)
Late(n) == ready[n].of # "direct"

(* Calls of one way start in the order they were made, though those of the  *)
(* outbox go to the end again half-way.                                    *)
ReadyInOrder ==
  /\ \A n \in DOMAIN ready :
       /\ tries[ready[n].call] = 0 /\ calls[ready[n].call].way # "wait"
       /\ Late(n) => calls[ready[n].call].way = "outbox"
  /\ \A n, p \in DOMAIN ready :
       /\ SameWay(ready[n].call, ready[p].call)
       /\ IF Late(n) THEN Late(p) /\ n < p ELSE Late(p) \/ n < p
       => ready[n].call < ready[p].call

(* So no call is tried while an older one of its way has yet to start.     *)
FirstTries ==
  \A i, j \in DOMAIN calls :
    i < j /\ SameWay(i, j) /\ tries[j] # 0 =>
      tries[i] # 0 \/ \A n \in DOMAIN ready : ready[n].call # i

(* An edit that waits to be made for the first time is the newest tried.   *)
NewestQueued ==
  \A k \in Keys : LET f == job[k].func IN
    f # 0 =>
      /\ f \in DOMAIN calls /\ Key(f) = k
      /\ calls[f].edit /\ tries[f] <= 1 => \A j \in Newer(f) : tries[j] = 0

(* While it is made, newer ones may come, but have no answer yet.          *)
NewestHeld ==
  LET f == held.func IN
    f # 0 =>
      /\ f \in DOMAIN calls
      /\ calls[f].edit /\ tries[f] <= 1 =>
           \A j \in Newer(f) :
             j \notin held.futs /\ fut[j] \in {"none", "pending", "cancelled"}

NewestInv == Untried /\ ReadyInOrder /\ FirstTries /\ NewestQueued /\ NewestHeld

(* A step that tries nothing and takes nothing out of the queue but to drop *)
(* it, and that settles the futures of what the worker held, if any.        *)
LEMMA QuietKeepsJobs ==
  ASSUME Shapes, NewestInv, UNCHANGED <<calls, tries>>,
         at' \in [Calls -> Places],
         \A i \in Calls : tries[i] = 0 => at'[i] \notin {"parked", "backoff"},
         \A i \in Calls : \/ fut'[i] = fut[i]
                          \/ fut[i] = "pending" /\ (fut'[i] = "cancelled" \/ held' = NoJob),
         \A k \in Keys : job'[k] \in {job[k], NoJob},
         held' \in {held, NoJob}
  PROVE  Untried' /\ NewestQueued' /\ NewestHeld'
<1> USE DEF NewestInv
<1>1. Untried'
  <2> SUFFICES ASSUME NEW i \in Calls, tries[i] = 0
               PROVE  /\ fut'[i] = "none" /\ i \notin held'.futs
                      /\ \A k \in Keys : i \notin job'[k].futs
    BY DEF Untried
  <2>1. fut[i] = "none" /\ i \notin held.futs /\ \A k \in Keys : i \notin job[k].futs
    BY DEF Untried
  <2>2. i \notin NoJob.futs
    BY DEF NoJob
  <2> QED
    BY <2>1, <2>2
<1>2. NewestQueued'
  <2> SUFFICES ASSUME NEW k \in Keys, job'[k].func # 0
               PROVE  LET f == job'[k].func IN
                        /\ f \in DOMAIN calls /\ Key(f) = k
                        /\ calls[f].edit /\ tries[f] <= 1 => \A j \in Newer(f) : tries[j] = 0
    BY DEF NewestQueued, Newer, SameWay, Key
  <2>1. job'[k] = job[k]
    BY DEF NoJob
  <2> QED
    BY <2>1 DEF NewestQueued
<1>3. NewestHeld'
  <2> SUFFICES ASSUME held'.func # 0
               PROVE  LET f == held'.func IN
                        /\ f \in DOMAIN calls
                        /\ calls[f].edit /\ tries[f] <= 1 =>
                             \A j \in Newer(f) :
                               /\ j \notin held'.futs
                               /\ fut'[j] \in {"none", "pending", "cancelled"}
    BY DEF NewestHeld, Newer, SameWay
  <2>1. held' = held /\ held' # NoJob
    BY DEF NoJob
  <2>2. \A j \in Calls : fut[j] \in {"none", "pending", "cancelled"} =>
                         fut'[j] \in {"none", "pending", "cancelled"}
    BY <2>1
  <2>3. \A f : Newer(f) \subseteq Calls
    BY CallsMade DEF Newer
  <2> QED
    BY <2>1, <2>2, <2>3 DEF NewestHeld
<1> QED
  BY <1>1, <1>2, <1>3

(* So does one that leaves the tasks that have not started, or drops them.  *)
LEMMA QuietKeepsNewest ==
  ASSUME Shapes, NewestInv, UNCHANGED <<calls, tries>>,
         at' \in [Calls -> Places],
         \A i \in Calls : tries[i] = 0 => at'[i] \notin {"parked", "backoff"},
         \A i \in Calls : \/ fut'[i] = fut[i]
                          \/ fut[i] = "pending" /\ (fut'[i] = "cancelled" \/ held' = NoJob),
         \A k \in Keys : job'[k] \in {job[k], NoJob},
         held' \in {held, NoJob}, ready' \in {ready, <<>>}
  PROVE  NewestInv'
<1>1. Untried' /\ NewestQueued' /\ NewestHeld'
  BY QuietKeepsJobs
<1>2. CASE ready' = ready
  BY <1>1, <1>2 DEF NewestInv, ReadyInOrder, FirstTries, Late, SameWay
<1>3. CASE ready' = <<>>
  BY <1>1, <1>3 DEF NewestInv, ReadyInOrder, FirstTries
<1> QED
  BY <1>2, <1>3

(* A call is put into the queue: if for the first time, then before newer   *)
(* ones of its way.                                                        *)
LEMMA EnqueueKeepsNewest ==
  ASSUME Shapes, NewestInv, NEW i \in Calls, NEW key \in Keys, Enqueue(i, key), held' = held,
         calls' \in Seq(Posted), DOMAIN calls' = DOMAIN calls \union {i},
         \A j \in DOMAIN calls : calls'[j] = calls[j],
         KeyOf(calls'[i].edit, i) = key,
         tries[i] = 0 => \A j \in DOMAIN calls : j > i /\ SameWay(i, j)' => tries[j] = 0
  PROVE  Untried' /\ NewestQueued' /\ NewestHeld'
<1> USE DEF NewestInv
<1>1. /\ tries' = [tries EXCEPT ![i] = @ + 1] /\ at' = [at EXCEPT ![i] = "parked"]
      /\ fut' = [fut EXCEPT ![i] = "pending"]
      /\ job' = [job EXCEPT ![key] = Compacted(job[key], i)]
  BY DEF Enqueue
<1>2. /\ tries \in [Calls -> Nat] /\ at \in [Calls -> Places]
      /\ fut \in [Calls -> Futures] /\ job \in [Keys -> Jobs]
  BY DEF Untried, Shapes
<1>3. /\ tries' \in [Calls -> Nat] /\ at' \in [Calls -> Places]
      /\ tries'[i] = tries[i] + 1 /\ tries'[i] # 0
      /\ \A j \in Calls : j # i => tries'[j] = tries[j] /\ at'[j] = at[j] /\ fut'[j] = fut[j]
  BY <1>1, <1>2 DEF Places
<1>4. /\ job'[key] = [func |-> i, futs |-> job[key].futs \union {i}]
      /\ \A k \in Keys : k # key => job'[k] = job[k]
  BY <1>1, <1>2 DEF Compacted
<1>5. \A j \in DOMAIN calls : j \in Calls
  BY CallsMade
<1>6. Untried'
  <2>1. ASSUME NEW j \in Calls, j \notin DOMAIN calls' PROVE tries'[j] = 0
    BY <2>1, <1>3 DEF Untried
  <2>2. ASSUME NEW j \in Calls, tries'[j] = 0
        PROVE  /\ fut'[j] = "none" /\ at'[j] \notin {"parked", "backoff"}
               /\ j \notin held'.futs /\ \A k \in Keys : j \notin job'[k].futs
    <3>1. j # i /\ tries[j] = 0
      BY <2>2, <1>3
    <3>2. /\ fut[j] = "none" /\ at[j] \notin {"parked", "backoff"}
          /\ j \notin held.futs /\ \A k \in Keys : j \notin job[k].futs
      BY <3>1 DEF Untried
    <3>3. j \notin job'[key].futs
      BY <3>1, <3>2, <1>4
    <3> QED
      BY <3>1, <3>2, <3>3, <1>3, <1>4
  <2> QED
    BY <2>1, <2>2, <1>3 DEF Untried
<1>7. \A f, j \in DOMAIN calls' : SameWay(f, j)' <=> calls'[f].way = calls'[j].way
  BY DEF SameWay
<1>8. ASSUME NEW f \in DOMAIN calls, NEW j \in Newer(f)', j # i PROVE j \in Newer(f)
  BY <1>8 DEF Newer, SameWay
<1>9. NewestQueued'
  <2> SUFFICES ASSUME NEW k \in Keys, NEW f, f = job'[k].func, f # 0
               PROVE  /\ f \in DOMAIN calls' /\ Key(f)' = k
                      /\ calls'[f].edit /\ tries'[f] <= 1 =>
                           \A j \in Newer(f)' : tries'[j] = 0
    BY DEF NewestQueued
  <2>1. CASE k = key
    <3>1. f = i /\ i \in DOMAIN calls' /\ Key(i)' = k
      BY <2>1, <1>4 DEF Key
    <3>2. ASSUME tries'[i] <= 1, NEW j \in Newer(i)' PROVE tries'[j] = 0
      <4>1. tries[i] = 0
        BY <3>2, <1>2, <1>3
      <4>2. j \in DOMAIN calls /\ j > i /\ SameWay(i, j)' /\ j # i
        BY <3>2, <1>5 DEF Newer, Calls
      <4>3. tries[j] = 0 /\ j \in Calls
        BY <4>1, <4>2, <1>5
      <4> QED
        BY <4>2, <4>3, <1>3
    <3> QED
      BY <3>1, <3>2
  <2>2. CASE k # key
    <3>1. /\ f = job[k].func /\ f \in DOMAIN calls /\ Key(f) = k
          /\ calls[f].edit /\ tries[f] <= 1 => \A j \in Newer(f) : tries[j] = 0
      BY <2>2, <1>4 DEF NewestQueued
    <3>2. Key(f)' = k /\ calls'[f] = calls[f] /\ f \in DOMAIN calls'
      BY <3>1 DEF Key
    <3>3. f # i
      BY <2>2, <3>2 DEF Key
    <3>4. tries'[f] = tries[f]
      BY <3>1, <3>3, <1>3, <1>5
    <3>5. ASSUME calls[f].edit, tries[f] <= 1, NEW j \in Newer(f)' PROVE tries'[j] = 0
      <4>1. calls'[j].edit /\ j \in DOMAIN calls'
        BY DEF Newer
      <4>2. k = 0
        BY <3>1, <3>5 DEF Key, KeyOf
      <4>3. j # i
        BY <2>2, <4>1, <4>2 DEF KeyOf
      <4>4. j \in Newer(f) /\ j \in Calls
        BY <3>1, <4>1, <4>3, <1>5, <1>8
      <4> QED
        BY <3>1, <3>5, <4>3, <4>4, <1>3
    <3> QED
      BY <3>1, <3>2, <3>4, <3>5
  <2> QED
    BY <2>1, <2>2
<1>10. NewestHeld'
  <2> SUFFICES ASSUME NEW f, f = held.func, f # 0
               PROVE  /\ f \in DOMAIN calls'
                      /\ calls'[f].edit /\ tries'[f] <= 1 =>
                           \A j \in Newer(f)' :
                             /\ j \notin held.futs
                             /\ fut'[j] \in {"none", "pending", "cancelled"}
    BY DEF NewestHeld
  <2>1. /\ f \in DOMAIN calls
        /\ calls[f].edit /\ tries[f] <= 1 =>
             \A j \in Newer(f) :
               j \notin held.futs /\ fut[j] \in {"none", "pending", "cancelled"}
    BY DEF NewestHeld
  <2>2. calls'[f] = calls[f] /\ (tries'[f] <= 1 => tries[f] <= 1)
    BY <2>1, <1>2, <1>3, <1>5
  <2>3. ASSUME calls[f].edit, tries[f] <= 1, NEW j \in Newer(f)'
        PROVE  j \notin held.futs /\ fut'[j] \in {"none", "pending", "cancelled"}
    <3>1. CASE j # i
      <4>1. j \in Newer(f) /\ j \in Calls
        BY <3>1, <2>1, <1>5, <1>8 DEF Newer
      <4> QED
        BY <4>1, <3>1, <2>1, <2>3, <1>3
    <3>2. CASE j = i
      <4>1. fut'[j] = "pending"
        BY <3>2, <1>1, <1>2
      <4>2. CASE i \in DOMAIN calls
        <5>1. i \in Newer(f)
          BY <3>2, <4>2, <2>1, <2>3 DEF Newer, SameWay
        <5> QED
          BY <5>1, <4>1, <3>2, <2>1, <2>3
      <4>3. CASE i \notin DOMAIN calls
        BY <4>1, <4>3, <3>2 DEF Untried
      <4> QED
        BY <4>2, <4>3
    <3> QED
      BY <3>1, <3>2
  <2> QED
    BY <2>1, <2>2, <2>3
<1> QED
  BY <1>6, <1>9, <1>10

-----------------------------------------------------------------------------
(* The order of the tasks that have not started.                           *)

(* Entries of one way are of different calls, in order.                    *)
LEMMA ReadyFacts ==
  ASSUME Shapes, OnlyCalls, NewestInv, NEW n \in DOMAIN ready
  PROVE  /\ n \in Nat /\ ready[n] \in ReadyTasks
         /\ ready[n].call \in DOMAIN calls /\ ready[n].call \in Calls /\ ready[n].call \in Nat
         /\ tries[ready[n].call] = 0 /\ calls[ready[n].call].way # "wait"
         /\ \A p \in DOMAIN ready : n < p => ready[n].call # ready[p].call
<1>1. n \in Nat /\ ready[n] \in ReadyTasks
  BY DEF Shapes
<1>2. \A p \in DOMAIN ready : /\ p \in Nat /\ ready[p].call \in DOMAIN calls
                              /\ ready[p].call \in Calls /\ ready[p].call \in Nat
  BY CallsMade DEF Shapes, OnlyCalls, Calls
<1>3. ASSUME NEW p \in DOMAIN ready, n < p, ready[n].call = ready[p].call PROVE FALSE
  <2>1. SameWay(ready[n].call, ready[p].call) /\ SameWay(ready[p].call, ready[n].call)
    BY <1>3 DEF SameWay
  <2>2. ~(ready[n].call < ready[p].call) /\ ~(ready[p].call < ready[n].call)
    BY <1>2, <1>3
  <2>3. ~(IF Late(n) THEN Late(p) /\ n < p ELSE Late(p) \/ n < p)
    BY <2>1, <2>2 DEF NewestInv, ReadyInOrder
  <2>4. ~(IF Late(p) THEN Late(n) /\ p < n ELSE Late(n) \/ p < n)
    BY <1>3, <2>1, <2>2 DEF NewestInv, ReadyInOrder
  <2> QED
    BY <2>3, <2>4, <1>3
<1> QED
  BY <1>1, <1>2, <1>3 DEF NewestInv, ReadyInOrder

(* The first task starts, and what it tries is in order.                   *)
LEMMA TailInOrder ==
  ASSUME Shapes, OnlyCalls, NewestInv, ready # <<>>, ready' = Tail(ready), calls' = calls,
         tries' \in [Calls -> Nat],
         \A j \in Calls : tries[j] # 0 => tries'[j] # 0,
         \A j \in Calls : j # ready[1].call => tries'[j] = tries[j],
         tries'[ready[1].call] # 0 => ~Late(1)
  PROVE  ReadyInOrder' /\ FirstTries'
<1> DEFINE c == ready[1].call
<1>1. /\ 1 \in DOMAIN ready /\ DOMAIN ready' = 1..(Len(ready) - 1)
      /\ \A n \in DOMAIN ready' :
           n \in Nat /\ n + 1 \in DOMAIN ready /\ 1 < n + 1 /\ ready'[n] = ready[n + 1]
  BY DEF Shapes
<1>2. \A n \in DOMAIN ready' : Late(n)' <=> Late(n + 1)
  BY <1>1 DEF Late
<1>3. \A i, j \in DOMAIN calls : SameWay(i, j)' <=> SameWay(i, j)
  BY DEF SameWay
<1>4. \A n \in DOMAIN ready' :
        /\ ready[n + 1].call \in DOMAIN calls /\ ready[n + 1].call \in Calls
        /\ ready[n + 1].call # c /\ tries'[ready[n + 1].call] = 0
        /\ calls[ready[n + 1].call].way # "wait"
  BY <1>1, ReadyFacts
<1>5. ReadyInOrder'
  <2>1. ASSUME NEW n \in DOMAIN ready'
        PROVE  /\ tries'[ready'[n].call] = 0 /\ calls'[ready'[n].call].way # "wait"
               /\ Late(n)' => calls'[ready'[n].call].way = "outbox"
    BY <1>1, <1>2, <1>4 DEF NewestInv, ReadyInOrder
  <2>2. ASSUME NEW n \in DOMAIN ready', NEW p \in DOMAIN ready',
               SameWay(ready[n + 1].call, ready[p + 1].call),
               IF Late(n + 1) THEN Late(p + 1) /\ n < p ELSE Late(p + 1) \/ n < p
        PROVE  ready[n + 1].call < ready[p + 1].call
    <3>1. n < p => n + 1 < p + 1
      BY <1>1
    <3> QED
      BY <2>2, <3>1, <1>1 DEF NewestInv, ReadyInOrder
  <2>3. ASSUME NEW n \in DOMAIN ready', NEW p \in DOMAIN ready',
               SameWay(ready'[n].call, ready'[p].call),
               IF Late(n)' THEN Late(p)' /\ n < p ELSE Late(p)' \/ n < p
        PROVE  ready'[n].call < ready'[p].call
    <3>1. ready'[n] = ready[n + 1] /\ ready'[p] = ready[p + 1]
      BY <1>1
    <3> QED
      BY <2>2, <2>3, <3>1, <1>2
  <2> QED
    BY <2>1, <2>3 DEF ReadyInOrder, SameWay
<1>6. ASSUME NEW i \in DOMAIN calls, NEW j \in DOMAIN calls, i < j, SameWay(i, j), tries'[j] # 0
      PROVE  tries'[i] # 0 \/ \A n \in DOMAIN ready' : ready'[n].call # i
  <2>1. i \in Calls /\ j \in Calls
    BY CallsMade
  <2>2. CASE j # c
    <3>1. tries[j] # 0
      BY <2>1, <2>2, <1>6
    <3>2. tries[i] # 0 \/ \A n \in DOMAIN ready : ready[n].call # i
      BY <3>1, <1>6 DEF NewestInv, FirstTries
    <3> QED
      BY <3>2, <2>1, <1>1
  <2>3. CASE j = c
    <3>1. ~Late(1) /\ SameWay(c, i)
      BY <2>3, <1>6 DEF SameWay
    <3>2. ASSUME NEW n \in DOMAIN ready', ready'[n].call = i PROVE FALSE
      <4>1. n + 1 \in DOMAIN ready /\ 1 < n + 1 /\ ready[n + 1].call = i
        BY <3>2, <1>1
      <4>2. c < i
        BY <4>1, <3>1, <1>1 DEF NewestInv, ReadyInOrder
      <4> QED
        BY <4>2, <2>1, <2>3, <1>6 DEF Calls
    <3> QED
      BY <3>2
  <2> QED
    BY <2>2, <2>3
<1> QED
  BY <1>3, <1>5, <1>6 DEF FirstTries

(* A task of the outbox makes one of the limiter, which comes last of those. *)
LEMMA TurnInOrder ==
  ASSUME Shapes, OnlyCalls, NewestInv, ready # <<>>, Late(1),
         ready' = Append(Tail(ready), [ready[1] EXCEPT !.of = "direct"]),
         UNCHANGED <<calls, tries>>
  PROVE  ReadyInOrder' /\ FirstTries'
<1> SUFFICES ASSUME NEW L, L = Len(ready)
             PROVE  ReadyInOrder' /\ FirstTries'
  OBVIOUS
<1>1. /\ L \in Nat /\ 1 \in DOMAIN ready /\ DOMAIN ready = 1..L /\ DOMAIN ready' = 1..L
      /\ \A n \in 1..(L - 1) : n + 1 \in DOMAIN ready /\ 1 < n + 1 /\ ready'[n] = ready[n + 1]
      /\ ready'[L] = [ready[1] EXCEPT !.of = "direct"]
  BY DEF Shapes
<1>2. ready[1] \in ReadyTasks
  BY <1>1, ReadyFacts
<1>3. ready'[L].call = ready[1].call /\ ready'[L].of = "direct"
  BY <1>1, <1>2 DEF ReadyTasks
<1>4. /\ ~Late(L)'
      /\ \A n \in 1..(L - 1) : Late(n)' <=> Late(n + 1)
  BY <1>1, <1>3 DEF Late
<1>5. \A n \in DOMAIN ready' : \E p \in DOMAIN ready : ready'[n].call = ready[p].call
  BY <1>1, <1>3
<1>6. \A i, j : SameWay(i, j)' <=> SameWay(i, j)
  BY DEF SameWay
<1>7. ASSUME NEW n \in DOMAIN ready'
      PROVE  /\ tries'[ready'[n].call] = 0 /\ calls'[ready'[n].call].way # "wait"
             /\ Late(n)' => calls'[ready'[n].call].way = "outbox"
  <2>1. CASE n \in 1..(L - 1)
    BY <2>1, <1>1, <1>4 DEF NewestInv, ReadyInOrder
  <2>2. CASE n = L
    BY <2>2, <1>1, <1>3, <1>4 DEF NewestInv, ReadyInOrder
  <2> QED
    BY <2>1, <2>2, <1>1
<1>8. ASSUME NEW n \in DOMAIN ready', NEW p \in DOMAIN ready',
             SameWay(ready'[n].call, ready'[p].call),
             IF Late(n)' THEN Late(p)' /\ n < p ELSE Late(p)' \/ n < p
      PROVE  ready'[n].call < ready'[p].call
  <2>1. CASE n \in 1..(L - 1) /\ p \in 1..(L - 1)
    <3>1. n < p => n + 1 < p + 1
      OBVIOUS
    <3>2. /\ ready'[n] = ready[n + 1] /\ ready'[p] = ready[p + 1]
          /\ n + 1 \in DOMAIN ready /\ p + 1 \in DOMAIN ready
      BY <2>1, <1>1
    <3>3. IF Late(n + 1) THEN Late(p + 1) /\ n + 1 < p + 1 ELSE Late(p + 1) \/ n + 1 < p + 1
      BY <1>8, <2>1, <1>4, <3>1
    <3> QED
      BY <1>8, <3>2, <3>3 DEF NewestInv, ReadyInOrder
  <2>2. CASE n = L /\ p \in 1..(L - 1)
    <3>1. Late(p)'
      BY <1>8, <2>2, <1>1, <1>4
    <3>2. Late(p + 1) /\ p + 1 \in DOMAIN ready /\ 1 < p + 1 /\ ready'[p] = ready[p + 1]
      BY <2>2, <3>1, <1>1, <1>4
    <3>3. SameWay(ready[1].call, ready[p + 1].call)
      BY <1>8, <2>2, <3>2, <1>3
    <3> QED
      BY <2>2, <3>2, <3>3, <1>1, <1>3 DEF NewestInv, ReadyInOrder
  <2>3. CASE n \in 1..(L - 1) /\ p = L
    <3>1. ~Late(n + 1) /\ n + 1 \in DOMAIN ready /\ ready'[n] = ready[n + 1]
      BY <1>8, <2>3, <1>1, <1>4
    <3>2. SameWay(ready[n + 1].call, ready[1].call)
      BY <1>8, <2>3, <3>1, <1>3
    <3> QED
      BY <2>3, <3>1, <3>2, <1>1, <1>3 DEF NewestInv, ReadyInOrder
  <2>4. CASE n = L /\ p = L
    BY <2>4, <1>8, <1>1, <1>4
  <2> QED
    BY <2>1, <2>2, <2>3, <2>4, <1>1
<1>9. ReadyInOrder'
  BY <1>6, <1>7, <1>8 DEF ReadyInOrder
<1>10. FirstTries'
  BY <1>5, <1>6 DEF NewestInv, FirstTries
<1> QED
  BY <1>9, <1>10

-----------------------------------------------------------------------------
(* Every step keeps the order of the edits.                                *)

LEMMA PostKeepsNewest ==
  ASSUME DeliveryInv, NewestInv, NEW edit \in BOOLEAN,
         NEW way \in {"wait", "direct", "outbox"}, Post(edit, way)
  PROVE  NewestInv'
<1> SUFFICES ASSUME NEW i, i = Len(calls) + 1
             PROVE  NewestInv'
  OBVIOUS
<1> USE DEF DeliveryInv, NewestInv
<1>1. /\ i \in Calls /\ KeyOf(edit, i) \in Keys
      /\ calls' = Append(calls, [edit |-> edit, way |-> way])
  BY DeliveryAssumption, KeysOfCalls DEF Post, Shapes, Calls
<1>2. /\ calls' \in Seq(Posted) /\ DOMAIN calls' = DOMAIN calls \union {i}
      /\ calls'[i] = [edit |-> edit, way |-> way]
      /\ i \notin DOMAIN calls /\ i \in Nat
      /\ \A j \in DOMAIN calls : calls'[j] = calls[j] /\ j \in Nat /\ j < i
  BY <1>1, DeliveryAssumption DEF Shapes, Posted, Calls
<1>3. held' = held /\ tries[i] = 0
  BY <1>1, <1>2 DEF Post, QueueOnly, Untried
<1>4. \A n \in DOMAIN ready : /\ ready[n].call \in DOMAIN calls /\ ready[n].call # i
                              /\ tries[ready[n].call] = 0
                              /\ calls[ready[n].call].way # "wait"
                              /\ ready[n].call \in Calls
  BY <1>2, ReadyFacts
<1>5. CASE way = "wait"
  <2>1. Enqueue(i, KeyOf(edit, i)) /\ ready' = ready
    BY <1>5 DEF Post
  <2>2. \A j \in DOMAIN calls : ~(j > i)
    BY <1>2
  <2>3. Untried' /\ NewestQueued' /\ NewestHeld'
    BY <1>1, <1>2, <1>3, <2>1, <2>2, EnqueueKeepsNewest
  <2>4. \A j \in Calls : j # i => tries'[j] = tries[j]
    BY <2>1 DEF Enqueue, Untried
  <2>5. ReadyInOrder'
    BY <1>2, <1>4, <2>1, <2>4 DEF ReadyInOrder, Late, SameWay
  <2>6. ASSUME NEW a \in DOMAIN calls', NEW b \in DOMAIN calls', a < b, SameWay(a, b)', tries'[b] # 0
        PROVE  tries'[a] # 0 \/ \A n \in DOMAIN ready' : ready'[n].call # a
    <3>1. a \in DOMAIN calls /\ a # i /\ a \in Calls
      BY <1>2, <2>6, CallsMade
    <3>2. CASE b = i
      <4>1. calls[a].way = "wait"
        BY <3>1, <3>2, <2>6, <1>2, <1>5 DEF SameWay
      <4> QED
        BY <4>1, <1>4, <2>1
    <3>3. CASE b # i
      <4>1. b \in DOMAIN calls /\ b \in Calls /\ SameWay(a, b)
        BY <3>1, <3>3, <2>6, <1>2, CallsMade DEF SameWay
      <4>2. tries[b] # 0 /\ tries'[a] = tries[a]
        BY <4>1, <3>1, <3>3, <2>6, <2>4
      <4> QED
        BY <4>1, <4>2, <3>1, <2>1, <2>6 DEF FirstTries
    <3> QED
      BY <3>2, <3>3
  <2> QED
    BY <2>3, <2>5, <2>6 DEF FirstTries
<1>6. CASE way # "wait"
  <2>1. /\ ready' = Append(ready, [call |-> i, of |-> way])
        /\ at' = [at EXCEPT ![i] = "ready"] /\ UNCHANGED <<tries, fut, job>>
    BY <1>6 DEF Post
  <2>2. Untried'
    BY <1>1, <1>2, <1>3, <2>1 DEF Untried, Places
  <2>3. \A f \in DOMAIN calls : \A j \in Newer(f)' : j \in Newer(f) \/ j = i
    BY <1>2 DEF Newer, SameWay
  <2>4. NewestQueued'
    <3> SUFFICES ASSUME NEW k \in Keys, NEW f, f = job[k].func, f # 0
                 PROVE  /\ f \in DOMAIN calls' /\ Key(f)' = k
                        /\ calls'[f].edit /\ tries[f] <= 1 => \A j \in Newer(f)' : tries[j] = 0
      BY <2>1 DEF NewestQueued
    <3>1. /\ f \in DOMAIN calls /\ Key(f) = k
          /\ calls[f].edit /\ tries[f] <= 1 => \A j \in Newer(f) : tries[j] = 0
      BY DEF NewestQueued
    <3>2. calls'[f] = calls[f] /\ f \in DOMAIN calls' /\ Key(f)' = k
      BY <1>2, <3>1 DEF Key
    <3> QED
      BY <1>3, <2>3, <3>1, <3>2
  <2>5. NewestHeld'
    <3> SUFFICES ASSUME NEW f, f = held.func, f # 0
                 PROVE  /\ f \in DOMAIN calls'
                        /\ calls'[f].edit /\ tries[f] <= 1 =>
                             \A j \in Newer(f)' :
                               /\ j \notin held.futs
                               /\ fut[j] \in {"none", "pending", "cancelled"}
      BY <1>3, <2>1 DEF NewestHeld
    <3>1. /\ f \in DOMAIN calls
          /\ calls[f].edit /\ tries[f] <= 1 =>
               \A j \in Newer(f) :
                 j \notin held.futs /\ fut[j] \in {"none", "pending", "cancelled"}
      BY DEF NewestHeld
    <3>2. i \notin held.futs /\ fut[i] = "none"
      BY <1>1, <1>3 DEF Untried
    <3> QED
      BY <1>2, <2>3, <3>1, <3>2
  <2>6. /\ DOMAIN ready' = DOMAIN ready \union {Len(ready) + 1}
        /\ \A n \in DOMAIN ready : ready'[n] = ready[n] /\ n < Len(ready) + 1 /\ n \in Nat
        /\ ready'[Len(ready) + 1] = [call |-> i, of |-> way]
        /\ Len(ready) + 1 \in Nat
    BY <2>1 DEF Shapes
  <2>7. ReadyInOrder'
    <3> SUFFICES ASSUME NEW L, L = Len(ready) + 1
                 PROVE  ReadyInOrder'
      OBVIOUS
    <3>1. \A n \in DOMAIN ready : Late(n)' <=> Late(n)
      BY <2>6 DEF Late
    <3>2. Late(L)' <=> way = "outbox"
      BY <2>6, <1>6 DEF Late
    <3>3. ASSUME NEW n \in DOMAIN ready'
          PROVE  /\ tries'[ready'[n].call] = 0 /\ calls'[ready'[n].call].way # "wait"
                 /\ Late(n)' => calls'[ready'[n].call].way = "outbox"
      <4>1. CASE n \in DOMAIN ready
        BY <4>1, <1>2, <1>4, <2>1, <2>6, <3>1 DEF ReadyInOrder
      <4>2. CASE n = L
        BY <4>2, <1>2, <1>3, <1>6, <2>1, <2>6, <3>2
      <4> QED
        BY <4>1, <4>2, <2>6
    <3>4. ASSUME NEW n \in DOMAIN ready', NEW p \in DOMAIN ready',
                 calls'[ready'[n].call].way = calls'[ready'[p].call].way,
                 IF Late(n)' THEN Late(p)' /\ n < p ELSE Late(p)' \/ n < p
          PROVE  ready'[n].call < ready'[p].call
      <4>1. CASE n \in DOMAIN ready /\ p \in DOMAIN ready
        BY <4>1, <3>4, <1>2, <1>4, <2>6, <3>1 DEF ReadyInOrder, SameWay
      <4>2. CASE n \in DOMAIN ready /\ p = L
        BY <4>2, <1>2, <1>4, <2>6
      <4>3. CASE n = L /\ p \in DOMAIN ready
        <5>1. ~(n < p) /\ Late(p)' /\ ~Late(L)'
          BY <4>3, <3>4, <2>6
        <5>2. way = "direct" /\ Late(p)
          BY <4>3, <5>1, <1>6, <3>1, <3>2
        <5>3. calls[ready[p].call].way = "outbox"
          BY <4>3, <5>2 DEF ReadyInOrder
        <5> QED
          BY <4>3, <5>2, <5>3, <3>4, <1>2, <1>4, <2>6
      <4>4. CASE n = L /\ p = L
        BY <4>4, <3>4, <2>6
      <4> QED
        BY <4>1, <4>2, <4>3, <4>4, <2>6
    <3> QED
      BY <3>3, <3>4 DEF ReadyInOrder, SameWay
  <2>8. ASSUME NEW a \in DOMAIN calls', NEW b \in DOMAIN calls', a < b, SameWay(a, b)', tries'[b] # 0
        PROVE  tries'[a] # 0 \/ \A n \in DOMAIN ready' : ready'[n].call # a
    <3>1. b # i /\ b \in DOMAIN calls /\ a \in DOMAIN calls /\ a # i
      BY <1>2, <1>3, <2>1, <2>8
    <3>2. SameWay(a, b)
      BY <3>1, <2>8, <1>2 DEF SameWay
    <3>3. tries[a] # 0 \/ \A n \in DOMAIN ready : ready[n].call # a
      BY <3>1, <3>2, <2>1, <2>8 DEF FirstTries
    <3> QED
      BY <3>1, <3>3, <2>1, <2>6
  <2> QED
    BY <2>2, <2>4, <2>5, <2>7, <2>8 DEF FirstTries
<1> QED
  BY <1>5, <1>6

LEMMA StartTaskKeepsNewest ==
  ASSUME DeliveryInv, NewestInv, StartTask
  PROVE  NewestInv'
<1> USE DEF DeliveryInv
<1>1. /\ ready # <<>> /\ Head(ready) = ready[1] /\ 1 \in DOMAIN ready
      /\ UNCHANGED <<calls, held>>
  BY DEF StartTask, Shapes, QueueOnly
<1>2. /\ tries \in [Calls -> Nat] /\ at \in [Calls -> Places]
      /\ \A i \in Calls : tries[i] = 0 => at[i] \notin {"parked", "backoff"}
  BY DEF NewestInv, Untried
<1>3. /\ ready[1] \in ReadyTasks /\ ready[1].call \in DOMAIN calls
      /\ ready[1].call \in Calls /\ tries[ready[1].call] = 0
  BY <1>1, ReadyFacts
<1>4. CASE ready[1].of = "outbox"
  <2>1. /\ ready' = Append(Tail(ready), [ready[1] EXCEPT !.of = "direct"])
        /\ UNCHANGED <<at, tries, fut, job>>
    BY <1>1, <1>4 DEF StartTask
  <2>2. Late(1)
    BY <1>4 DEF Late
  <2>3. ReadyInOrder' /\ FirstTries'
    BY <1>1, <2>1, <2>2, TurnInOrder
  <2>4. Untried' /\ NewestQueued' /\ NewestHeld'
    BY <1>1, <1>2, <2>1, QuietKeepsJobs
  <2> QED
    BY <2>3, <2>4 DEF NewestInv
<1>5. CASE ready' = Tail(ready) /\ at' = [at EXCEPT ![ready[1].call] = "done"]
           /\ UNCHANGED <<tries, fut, job>>
  <2>1. ReadyInOrder' /\ FirstTries'
    BY <1>1, <1>2, <1>3, <1>5, TailInOrder
  <2>2. /\ at' \in [Calls -> Places]
        /\ \A i \in Calls : tries[i] = 0 => at'[i] \notin {"parked", "backoff"}
    BY <1>2, <1>5 DEF Places
  <2>3. Untried' /\ NewestQueued' /\ NewestHeld'
    BY <1>1, <1>5, <2>2, QuietKeepsJobs
  <2> QED
    BY <2>1, <2>3 DEF NewestInv
<1>6. CASE ready[1].of = "direct" /\ Running
  <2> SUFFICES ASSUME NEW c, c = ready[1].call
               PROVE  NewestInv'
    OBVIOUS
  <2>1. ready' = Tail(ready) /\ Enqueue(c, Key(c))
    BY <1>1, <1>6 DEF StartTask, TryToSend
  <2>2. Key(c) \in Keys /\ KeyOf(calls'[c].edit, c) = Key(c)
    BY <1>1, <1>3, CallsMade DEF Key
  <2>3. \A j \in DOMAIN calls : j > c /\ SameWay(c, j)' => tries[j] = 0
    <3> SUFFICES ASSUME NEW j \in DOMAIN calls, j > c, SameWay(c, j), tries[j] # 0
                 PROVE  FALSE
      BY <1>1 DEF SameWay
    <3>1. c < j /\ c \in DOMAIN calls
      BY <1>3, CallsMade DEF Calls
    <3> QED
      BY <3>1, <1>1, <1>3 DEF NewestInv, FirstTries
  <2>4. Untried' /\ NewestQueued' /\ NewestHeld'
    BY <1>1, <1>3, <2>1, <2>2, <2>3, EnqueueKeepsNewest DEF Shapes
  <2>5. /\ tries' \in [Calls -> Nat] /\ \A j \in Calls : j # c => tries'[j] = tries[j]
        /\ tries'[c] # 0
    BY <1>2, <1>3, <2>1 DEF Enqueue
  <2>6. ~Late(1)
    BY <1>6 DEF Late
  <2>7. ReadyInOrder' /\ FirstTries'
    BY <1>1, <2>1, <2>5, <2>6, TailInOrder
  <2> QED
    BY <2>4, <2>7 DEF NewestInv
<1> QED
  BY <1>1, <1>3, <1>4, <1>5, <1>6 DEF StartTask, TryToSend, ReadyTasks

(* Only what was tried is tried again.                                     *)
LEMMA RetryKeepsNewest ==
  ASSUME DeliveryInv, NewestInv, NEW i \in DOMAIN calls, Retry(i)
  PROVE  NewestInv'
<1> USE DEF DeliveryInv
<1>1. /\ tries \in [Calls -> Nat] /\ at \in [Calls -> Places] /\ i \in Calls
      /\ tries[i] # 0 /\ UNCHANGED <<calls, ready, held>>
      /\ \A j \in Calls : tries[j] = 0 => at[j] \notin {"parked", "backoff"}
  BY CallsMade DEF NewestInv, Untried, Retry, QueueOnly
<1>2. CASE Running
  <2>1. Enqueue(i, Key(i)) /\ Key(i) \in Keys /\ KeyOf(calls'[i].edit, i) = Key(i)
    BY <1>1, <1>2, CallsMade DEF Retry, TryToSend, Key
  <2>2. Untried' /\ NewestQueued' /\ NewestHeld'
    BY <1>1, <2>1, EnqueueKeepsNewest DEF Shapes
  <2>3. /\ \A j \in Calls : j # i => tries'[j] = tries[j]
        /\ tries'[i] # 0
    BY <1>1, <2>1 DEF Enqueue
  <2>4. \A n \in DOMAIN ready : ready[n].call # i /\ ready[n].call \in Calls
    BY <1>1, ReadyFacts
  <2>5. ReadyInOrder'
    BY <1>1, <2>3, <2>4 DEF NewestInv, ReadyInOrder, Late, SameWay
  <2>6. \A j \in DOMAIN calls : j \in Calls /\ (tries'[j] = 0 <=> tries[j] = 0)
    BY <1>1, <2>3, CallsMade
  <2>7. FirstTries'
    BY <1>1, <2>6 DEF NewestInv, FirstTries, SameWay
  <2> QED
    BY <2>2, <2>5, <2>7 DEF NewestInv
<1>3. CASE ~Running
  <2>1. at' = [at EXCEPT ![i] = "done"] /\ UNCHANGED <<tries, fut, job>>
    BY <1>3 DEF Retry, TryToSend
  <2>2. /\ at' \in [Calls -> Places]
        /\ \A j \in Calls : tries[j] = 0 => at'[j] \notin {"parked", "backoff"}
    BY <1>1, <2>1 DEF Places
  <2> QED
    BY <1>1, <2>1, <2>2, QuietKeepsNewest
<1> QED
  BY <1>2, <1>3

(* The edit the worker takes is the newest tried.                          *)
LEMMA TakeKeepsNewest ==
  ASSUME DeliveryInv, NewestInv, Take
  PROVE  NewestInv'
<1> USE DEF DeliveryInv
<1> SUFFICES ASSUME NEW key, key = Head(queue)
             PROVE  NewestInv'
  OBVIOUS
<1>1. /\ key \in Keys /\ job \in [Keys -> Jobs]
      /\ held' = job[key] /\ job' = [job EXCEPT ![key] = NoJob]
      /\ UNCHANGED <<calls, at, tries, fut, ready>>
  BY DEF Take, Shapes, box
<1>2. \A k \in Keys : job'[k] = IF k = key THEN NoJob ELSE job[k]
  BY <1>1
<1>3. Untried'
  <2>1. ASSUME NEW i \in Calls, tries[i] = 0
        PROVE  i \notin held'.futs /\ \A k \in Keys : i \notin job'[k].futs
    BY <2>1, <1>1, <1>2 DEF NewestInv, Untried, NoJob
  <2> QED
    BY <2>1, <1>1 DEF NewestInv, Untried
<1>4. ReadyInOrder' /\ FirstTries'
  BY <1>1 DEF NewestInv, ReadyInOrder, FirstTries, Late, SameWay
<1>5. NewestQueued'
  <2> SUFFICES ASSUME NEW k \in Keys, NEW f, f = job'[k].func, f # 0
               PROVE  /\ f \in DOMAIN calls /\ Key(f) = k
                      /\ calls[f].edit /\ tries[f] <= 1 => \A j \in Newer(f) : tries[j] = 0
    BY <1>1 DEF NewestQueued, Newer, SameWay, Key
  <2>1. job'[k] = job[k]
    BY <1>2 DEF NoJob
  <2> QED
    BY <2>1 DEF NewestInv, NewestQueued
<1>6. NewestHeld'
  <2> SUFFICES ASSUME NEW f, f = job[key].func, f # 0
               PROVE  /\ f \in DOMAIN calls
                      /\ calls[f].edit /\ tries[f] <= 1 =>
                           \A j \in Newer(f) :
                             /\ j \notin job[key].futs
                             /\ fut[j] \in {"none", "pending", "cancelled"}
    BY <1>1 DEF NewestHeld, Newer, SameWay
  <2>1. /\ f \in DOMAIN calls
        /\ calls[f].edit /\ tries[f] <= 1 => \A j \in Newer(f) : tries[j] = 0
    BY <1>1 DEF NewestInv, NewestQueued
  <2>2. \A j \in Newer(f) : j \in Calls
    BY CallsMade DEF Newer
  <2> QED
    BY <2>1, <2>2, <1>1 DEF NewestInv, Untried
<1> QED
  BY <1>3, <1>4, <1>5, <1>6 DEF NewestInv

(* The other steps try nothing: they settle futures, drop jobs, or move the *)
(* worker.                                                                 *)
LEMMA OthersKeepNewest ==
  ASSUME DeliveryInv, NewestInv,
         \/ \E i \in DOMAIN calls : Resume(i) \/ CancelCaller(i)
         \/ EndPause \/ StartCall \/ WaitForRoom \/ EndCall \/ Rest \/ StopWorker
         \/ BeginShutdown \/ EndShutdown \/ UNCHANGED delivery
  PROVE  NewestInv'
<1> USE DEF DeliveryInv
<1>1. /\ tries \in [Calls -> Nat] /\ at \in [Calls -> Places] /\ fut \in [Calls -> Futures]
      /\ \A i \in Calls : tries[i] = 0 => at[i] \notin {"parked", "backoff"}
  BY DEF NewestInv, Untried, Shapes
<1>2. ASSUME NEW i \in DOMAIN calls, Resume(i) \/ CancelCaller(i) PROVE NewestInv'
  <2>1. /\ UNCHANGED <<calls, tries, ready, job, held>> /\ i \in Calls
        /\ at[i] = "parked" /\ \E place \in Places : at' = [at EXCEPT ![i] = place]
    BY <1>2, CallsMade DEF Resume, CancelCaller, QueueOnly, Places
  <2>2. /\ at' \in [Calls -> Places]
        /\ \A j \in Calls : tries[j] = 0 => at'[j] \notin {"parked", "backoff"}
    BY <1>1, <2>1
  <2>3. \A j \in Calls : fut'[j] = fut[j] \/ (fut[j] = "pending" /\ fut'[j] = "cancelled")
    BY <1>1, <1>2, <2>1 DEF Resume, CancelCaller
  <2> QED
    BY <2>1, <2>2, <2>3, QuietKeepsNewest
<1>3. CASE EndPause \/ StartCall \/ WaitForRoom \/ Rest \/ UNCHANGED delivery
  <2>1. UNCHANGED <<calls, at, tries, fut, ready, job, held>>
    BY <1>3 DEF EndPause, StartCall, WaitForRoom, Rest, delivery, box
  <2> QED
    BY <1>1, <2>1, QuietKeepsNewest
<1>4. CASE EndCall \/ StopWorker
  <2>1. /\ UNCHANGED <<calls, at, tries, ready, job>> /\ held' = NoJob
        /\ \E result \in Futures : Settled(held.futs, result)
    BY <1>4 DEF EndCall, StopWorker, Futures
  <2>2. \A i \in Calls : fut'[i] = fut[i] \/ fut[i] = "pending"
    BY <2>1 DEF Settled
  <2> QED
    BY <1>1, <2>1, <2>2, QuietKeepsNewest
<1>5. CASE BeginShutdown
  <2>1. /\ UNCHANGED <<calls, at, tries, ready, held>>
        /\ job' = [k \in Keys |-> NoJob]
        /\ \E futs : Settled(futs, "cancelled")
    BY <1>5 DEF BeginShutdown
  <2>2. \A i \in Calls : fut'[i] = fut[i] \/ (fut[i] = "pending" /\ fut'[i] = "cancelled")
    BY <2>1 DEF Settled
  <2> QED
    BY <1>1, <2>1, <2>2, QuietKeepsNewest
<1>6. CASE EndShutdown
  <2>1. /\ UNCHANGED <<calls, tries, fut, job, held>> /\ ready' = <<>>
        /\ \E gone : at' = [i \in Calls |-> IF i \in gone THEN "done" ELSE at[i]]
    BY <1>6 DEF EndShutdown
  <2>2. /\ at' \in [Calls -> Places]
        /\ \A j \in Calls : tries[j] = 0 => at'[j] \notin {"parked", "backoff"}
    BY <1>1, <2>1 DEF Places
  <2> QED
    BY <2>1, <2>2, QuietKeepsNewest
<1> QED
  BY <1>2, <1>3, <1>4, <1>5, <1>6

LEMMA CloseOutboxKeepsNewest ==
  ASSUME DeliveryInv, NewestInv, CloseOutbox
  PROVE  NewestInv'
<1> USE DEF DeliveryInv
<1>1. /\ ready' = [n \in DOMAIN ready |->
                    IF ready[n].of = "outbox" THEN [ready[n] EXCEPT !.of = "cancelled"]
                    ELSE ready[n]]
      /\ UNCHANGED <<calls, at, tries, fut, job, held>>
  BY DEF CloseOutbox
<1>2. DOMAIN ready' = DOMAIN ready
  BY <1>1
<1>3. \A n \in DOMAIN ready : ready'[n].call = ready[n].call /\ (Late(n)' <=> Late(n))
  <2> SUFFICES ASSUME NEW n \in DOMAIN ready
               PROVE  ready'[n].call = ready[n].call /\ (Late(n)' <=> Late(n))
    OBVIOUS
  <2>1. ready[n] \in ReadyTasks
    BY ReadyFacts
  <2> QED
    BY <2>1, <1>1 DEF ReadyTasks, Late
<1>4. ReadyInOrder' /\ FirstTries'
  BY <1>1, <1>2, <1>3 DEF NewestInv, ReadyInOrder, FirstTries, SameWay
<1>5. /\ at \in [Calls -> Places]
      /\ \A i \in Calls : tries[i] = 0 => at[i] \notin {"parked", "backoff"}
  BY DEF NewestInv, Untried
<1>6. Untried' /\ NewestQueued' /\ NewestHeld'
  BY <1>1, <1>5, QuietKeepsJobs
<1> QED
  BY <1>4, <1>6 DEF NewestInv

LEMMA NewestInit ==
  ASSUME DeliveryInit
  PROVE  NewestInv
BY DeliveryAssumption
   DEF DeliveryInit, NewestInv, Untried, ReadyInOrder, FirstTries, NewestQueued, NewestHeld,
       NoJob, Places

LEMMA NewestStep ==
  ASSUME DeliveryInv, NewestInv, [DeliveryNext]_<<vars, delivery>>
  PROVE  NewestInv'
<1>1. CASE Bot
  BY <1>1, PostKeepsNewest, StartTaskKeepsNewest, RetryKeepsNewest, OthersKeepNewest DEF Bot
<1>2. CASE WorkerStep
  BY <1>2, TakeKeepsNewest, OthersKeepNewest DEF WorkerStep
<1>3. CASE Close
  BY <1>3, CloseOutboxKeepsNewest, OthersKeepNewest DEF Close
<1>4. CASE Clock \/ UNCHANGED <<vars, delivery>>
  BY <1>4, OthersKeepNewest DEF Clock
<1> QED
  BY <1>1, <1>2, <1>3, <1>4 DEF DeliveryNext

(* Edits of one way are tried in the order they were given (outbox.py and   *)
(* messaging/limiter.py), and the job of an edit tried once is the newest.  *)
THEOREM EditsInOrder == DeliverySpec => []NewestInv
<1>1. DeliveryInv /\ NewestInv /\ [DeliveryNext]_<<vars, delivery>> => NewestInv'
  BY NewestStep
<1>2. DeliveryInit => NewestInv
  BY NewestInit
<1> QED
  BY <1>1, <1>2, DeliveryCorrect, PTL DEF DeliverySpec

(* So the last edit wins: no caller of a newer one, given in the same way,  *)
(* is told that its edit was made when an older one is shown, unless that   *)
(* is tried again.                                                         *)
THEOREM LastEditWins == DeliverySpec => NewestWins
<1>1. ASSUME DeliveryInv, NewestInv, [DeliveryNext]_<<vars, delivery>>, shown' # shown,
             NEW j \in DOMAIN calls, calls[j].edit, j > shown',
             ~(tries[shown'] > 1), calls[j].way = calls[shown'].way
      PROVE  fut'[j] # "ok"
  <2>1. EndCall \/ StopWorker
    BY <1>1
       DEF DeliveryNext, Bot, Post, StartTask, Resume, Retry, CancelCaller, QueueOnly,
           WorkerStep, Take, EndPause, StartCall, WaitForRoom, Rest, Close, CloseOutbox,
           BeginShutdown, EndShutdown, Clock, delivery
  <2> SUFFICES ASSUME NEW f, f = held.func
               PROVE  fut'[j] # "ok"
    OBVIOUS
  <2>2. shown' = f /\ f # 0 /\ calls[f].edit
    BY <1>1, <2>1 DEF EndCall, StopWorker, Shows
  <2>3. \E result : Settled(held.futs, result)
    BY <2>1 DEF EndCall, StopWorker
  <2>4. f \in DOMAIN calls
    BY <1>1, <2>2 DEF NewestInv, NewestHeld
  <2>5. tries[f] <= 1 /\ j \in Newer(f) /\ j \in Calls
    <3>1. f \in Calls /\ j \in Calls /\ tries[f] \in Nat
      BY <1>1, <2>4, CallsMade DEF DeliveryInv, NewestInv, Untried
    <3> QED
      BY <1>1, <2>2, <3>1 DEF Newer, SameWay
  <2>6. j \notin held.futs /\ fut[j] \in {"none", "pending", "cancelled"}
    BY <1>1, <2>2, <2>5 DEF NewestInv, NewestHeld
  <2>7. fut'[j] = fut[j]
    BY <2>3, <2>5, <2>6 DEF Settled
  <2> QED
    BY <2>6, <2>7
<1>2. ASSUME DeliveryInv, NewestInv, [DeliveryNext]_<<vars, delivery>>
      PROVE  [shown' # shown =>
                \A j \in DOMAIN calls :
                  calls[j].edit /\ j > shown' =>
                    \/ at[j] \in {"ready", "backoff"} \/ fut'[j] # "ok"
                    \/ tries[shown'] > 1
                    \/ calls[j].way # calls[shown'].way]_<<vars, delivery>>
  BY <1>1, <1>2
<1> QED
  BY <1>2, DeliveryCorrect, EditsInOrder, PTL DEF DeliverySpec, NewestWins

=============================================================================
