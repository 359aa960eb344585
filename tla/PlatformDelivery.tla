--------------------------- MODULE PlatformDelivery ---------------------------
(* What the bot sends to a chat platform: the queue of the messaging limiter *)
(* with its worker (messaging/limiter.py), the outbox above it               *)
(* (messaging/platforms/outbox.py) and its sliding window (RateWindow).      *)
(*                                                                         *)
(* Call i is the i-th request of the bot: an edit of one status message, or *)
(* something of its own (a send, a deletion).  Its caller waits for it, or   *)
(* forgets it: the limiter makes a task of it, or the outbox a task that     *)
(* makes that task.  Tasks start in the order they were made.  The queue's   *)
(* lock is never held across a suspension, so using it takes no step.        *)
EXTENDS RateWindow

CONSTANT MaxCalls      (* bound: calls of the bot                          *)

MaxRetries == 2        (* of a call whose caller has forgotten it          *)

Worker == "worker"

ASSUME DeliveryAssumption == MaxCalls \in Nat /\ Worker \in Tasks

Calls == 1..MaxCalls

VARIABLES
  calls,    (* the calls so far: is it an edit, and which way it goes      *)
  at,       (* where each call is                                          *)
  tries,    (* how often it was put into the queue                         *)
  fut,      (* its future                                                  *)
  ready,    (* tasks that were made and have not started                   *)
  queue,    (* _queue_list                                                 *)
  job,      (* _queue_map                                                  *)
  worker,   (* the await the worker is at                                  *)
  held,     (* what it has taken, with _active_futures                     *)
  paused,   (* _paused_until                                               *)
  phase,    (* of the platform's close()                                   *)
  shown     (* the edit the status message shows, 0 for none               *)

box == <<calls, at, tries, fut, ready>>
delivery == <<box, queue, job, worker, held, paused, phase, shown>>

NoJob == [func |-> 0, futs |-> {}]

KeyOf(edit, i) == IF edit THEN 0 ELSE i

Key(i) == KeyOf(calls[i].edit, i)

Keys == 0..MaxCalls

Running == phase \in {"open", "outbox"}

DeliveryInit ==
  /\ Init
  /\ calls = <<>> /\ ready = <<>> /\ queue = <<>>
  /\ at = [i \in Calls |-> "none"]
  /\ tries = [i \in Calls |-> 0]
  /\ fut = [i \in Calls |-> "none"]
  /\ job = [k \in Keys |-> NoJob]
  /\ worker = "wait" /\ held = NoJob /\ paused = 0
  /\ phase = "open" /\ shown = 0

-----------------------------------------------------------------------------
(* The queue.                                                              *)

(* Mutant of Compacted: the work that is already queued stays.             *)
MutantCompacted(old, i) ==
  [func |-> IF old = NoJob THEN i ELSE old.func, futs |-> old.futs \union {i}]

(* The new work takes the place of the old, whose callers wait for it too. *)
Compacted(old, i) == [func |-> i, futs |-> old.futs \union {i}]

Enqueue(i, key) ==
  /\ at' = [at EXCEPT ![i] = "parked"]
  /\ tries' = [tries EXCEPT ![i] = @ + 1]
  /\ fut' = [fut EXCEPT ![i] = "pending"]
  /\ job' = [job EXCEPT ![key] = Compacted(@, i)]
  /\ queue' = IF job[key] = NoJob THEN Append(queue, key) ELSE queue

(* A task of the limiter enqueues its call, unless the limiter is closed.   *)
TryToSend(i) ==
  IF Running
  THEN Enqueue(i, Key(i))
  ELSE at' = [at EXCEPT ![i] = "done"] /\ UNCHANGED <<tries, fut, job, queue>>

WindowOnly == UNCHANGED vars

QueueOnly == UNCHANGED <<worker, held, paused, phase, shown>>

(* queue_send_message, queue_edit_message, queue_delete_messages.  The bot  *)
(* gives only edits to the outbox to run.                                  *)
Post(edit, way) ==
  /\ phase = "open" /\ Len(calls) < MaxCalls
  /\ way = "outbox" => edit
  /\ calls' = Append(calls, [edit |-> edit, way |-> way])
  /\ LET i == Len(calls) + 1 IN
       IF way = "wait"
       THEN Enqueue(i, KeyOf(edit, i)) /\ UNCHANGED ready
       ELSE /\ ready' = Append(ready, [call |-> i, of |-> way])
            /\ at' = [at EXCEPT ![i] = "ready"]
            /\ UNCHANGED <<tries, fut, job, queue>>
  /\ QueueOnly /\ WindowOnly

(* The oldest task starts: one of the outbox makes one of the limiter, and  *)
(* one that was cancelled before is over at once.                          *)
StartTask ==
  /\ ready # <<>>
  /\ LET task == Head(ready) IN
       CASE task.of = "outbox" ->
              /\ ready' = Append(Tail(ready), [task EXCEPT !.of = "direct"])
              /\ UNCHANGED <<at, tries, fut, job, queue>>
         [] task.of = "direct" -> ready' = Tail(ready) /\ TryToSend(task.call)
         [] task.of = "cancelled" ->
              /\ ready' = Tail(ready) /\ at' = [at EXCEPT ![task.call] = "done"]
              /\ UNCHANGED <<tries, fut, job, queue>>
  /\ QueueOnly /\ WindowOnly /\ UNCHANGED calls

(* The future is settled: its caller has its answer, and the task of a call *)
(* that met a connection problem tries it again after a pause.             *)
Resume(i) ==
  /\ at[i] = "parked" /\ fut[i] # "pending"
  /\ at' = [at EXCEPT ![i] =
              IF calls[i].way # "wait" /\ fut[i] = "transient" /\ tries[i] <= MaxRetries
              THEN "backoff" ELSE "done"]
  /\ UNCHANGED <<calls, tries, fut, ready, job, queue>> /\ QueueOnly /\ WindowOnly

Retry(i) ==
  /\ at[i] = "backoff"
  /\ TryToSend(i)
  /\ UNCHANGED <<calls, ready>> /\ QueueOnly /\ WindowOnly

(* A caller that waits is cancelled; its work stays in the queue.          *)
CancelCaller(i) ==
  /\ at[i] = "parked" /\ calls[i].way = "wait" /\ fut[i] = "pending"
  /\ at' = [at EXCEPT ![i] = "done"]
  /\ fut' = [fut EXCEPT ![i] = "cancelled"]
  /\ UNCHANGED <<calls, tries, ready, job, queue>> /\ QueueOnly /\ WindowOnly

-----------------------------------------------------------------------------
(* The worker.                                                             *)

(* Every future of a job that is still pending gets the same result.       *)
Settled(futs, result) ==
  fut' = [i \in Calls |-> IF i \in futs /\ fut[i] = "pending" THEN result ELSE fut[i]]

Take ==
  /\ worker = "wait" /\ Running /\ queue # <<>>
  /\ held' = job[Head(queue)]
  /\ job' = [job EXCEPT ![Head(queue)] = NoJob]
  /\ queue' = Tail(queue)
  /\ IF paused > now
     THEN worker' = "paused" /\ WindowOnly
     ELSE worker' = "limit" /\ Call(Worker)
  /\ UNCHANGED <<box, paused, phase, shown>>

EndPause ==
  /\ Running /\ worker = "paused" /\ paused <= now
  /\ worker' = "limit" /\ Call(Worker)
  /\ UNCHANGED <<box, queue, job, held, paused, phase, shown>>

(* The window has room: the operation begins.                              *)
StartCall ==
  /\ Running /\ worker = "limit" /\ Acquire(Worker)
  /\ worker' = "call"
  /\ UNCHANGED <<box, queue, job, held, paused, phase, shown>>

WaitForRoom ==
  /\ Running /\ worker = "limit" /\ (Sleep(Worker) \/ Wake(Worker))
  /\ UNCHANGED delivery

(* What the platform shows when an operation has ended, or may show.       *)
Shows(func) == IF func # 0 /\ calls[func].edit THEN func ELSE shown

Next1 == IF Running THEN "wait" ELSE "over"

(* The operation ends: with a result, with a problem that may have come     *)
(* after its effect, asked to wait for a while, or cancelled by itself.     *)
EndCall ==
  /\ worker = "call"
  /\ \/ /\ Settled(held.futs, "ok") /\ shown' = Shows(held.func)
        /\ worker' = Next1 /\ UNCHANGED paused
     \/ /\ Settled(held.futs, "transient") /\ shown' \in {shown, Shows(held.func)}
        /\ worker' = Next1 /\ UNCHANGED paused
     \/ /\ Settled(held.futs, "error") /\ worker' \in {Next1, "rest"}
        /\ paused' \in {paused} \union (now + 1)..(now + Window)
        /\ UNCHANGED shown
     \/ /\ Running /\ Settled(held.futs, "cancelled")
        /\ worker' = "wait" /\ UNCHANGED <<paused, shown>>
  /\ held' = NoJob
  /\ UNCHANGED <<calls, at, tries, ready, queue, job, phase>> /\ WindowOnly

(* An error it did not expect: the worker rests for a second.              *)
Rest ==
  /\ worker = "rest" /\ worker' = Next1
  /\ UNCHANGED <<box, queue, job, held, paused, phase, shown>> /\ WindowOnly

(* The worker is cancelled, wherever it is.                                *)
StopWorker ==
  /\ ~Running /\ worker # "over"
  /\ worker' = "over"
  /\ Settled(held.futs, "cancelled") /\ held' = NoJob
  /\ shown' \in IF worker = "call" THEN {shown, Shows(held.func)} ELSE {shown}
  /\ IF worker = "limit" THEN Cancel(Worker) ELSE WindowOnly
  /\ UNCHANGED <<calls, at, tries, ready, queue, job, paused, phase>>

-----------------------------------------------------------------------------
(* The close of the platform.                                              *)

ForgottenAt(places) == {i \in DOMAIN calls : calls[i].way # "wait" /\ at[i] \in places}

(* PlatformOutbox.close cancels its own tasks, none of which has started.   *)
CloseOutbox ==
  /\ phase = "open"
  /\ phase' = "outbox"
  /\ ready' = [n \in DOMAIN ready |->
                 IF ready[n].of = "outbox" THEN [ready[n] EXCEPT !.of = "cancelled"]
                 ELSE ready[n]]
  /\ UNCHANGED <<calls, at, tries, fut, queue, job, worker, held, paused, shown>> /\ WindowOnly

(* Mutant of BeginShutdown: the futures the worker holds are left to it.    *)
MutantBeginShutdown ==
  /\ phase = "outbox"
  /\ phase' = "drain"
  /\ queue' = <<>> /\ job' = [k \in Keys |-> NoJob]
  /\ Settled(held.futs, "cancelled")
  /\ UNCHANGED <<calls, at, tries, ready, worker, held, paused, shown>> /\ WindowOnly

(* MessagingRateLimiter.shutdown up to its first await.                    *)
BeginShutdown ==
  /\ phase = "outbox"
  /\ phase' = "drain"
  /\ queue' = <<>> /\ job' = [k \in Keys |-> NoJob]
  /\ Settled(held.futs \union UNION {job[k].futs : k \in Keys}, "cancelled")
  /\ UNCHANGED <<calls, at, tries, ready, worker, held, paused, shown>> /\ WindowOnly

(* The worker has ended, or the shutdown is cancelled and waits no longer   *)
(* for it; then the tasks of the forgotten calls are cancelled.            *)
EndShutdown ==
  /\ phase = "drain"
  /\ phase' \in IF worker = "over" THEN {"closed"} ELSE {"cut"}
  /\ ready' = <<>>
  /\ at' = [i \in Calls |->
              IF i \in ForgottenAt({"ready", "parked", "backoff"}) THEN "done" ELSE at[i]]
  /\ UNCHANGED <<calls, tries, fut, queue, job, worker, held, paused, shown>> /\ WindowOnly

-----------------------------------------------------------------------------
Bot ==
  \/ \E edit \in BOOLEAN, way \in {"wait", "direct", "outbox"} : Post(edit, way)
  \/ StartTask
  \/ \E i \in DOMAIN calls : Resume(i) \/ Retry(i) \/ CancelCaller(i)

WorkerStep ==
  Take \/ EndPause \/ StartCall \/ WaitForRoom \/ EndCall \/ Rest \/ StopWorker

Close == CloseOutbox \/ BeginShutdown \/ EndShutdown

Clock == Tick /\ UNCHANGED delivery

DeliveryNext == Bot \/ WorkerStep \/ Close \/ Clock

DeliverySpec == DeliveryInit /\ [][DeliveryNext]_<<vars, delivery>>

-----------------------------------------------------------------------------
Jobs == [func : 0..MaxCalls, futs : SUBSET Calls]

DeliveryTypeOK ==
  /\ TypeOK
  /\ calls \in Seq([edit : BOOLEAN, way : {"wait", "direct", "outbox"}])
  /\ at \in [Calls -> {"none", "ready", "parked", "backoff", "done"}]
  /\ tries \in [Calls -> 0..MaxRetries + 1]
  /\ fut \in [Calls -> {"none", "pending", "ok", "transient", "error", "cancelled"}]
  /\ ready \in Seq([call : Calls, of : {"direct", "outbox", "cancelled"}])
  /\ queue \in Seq(Keys) /\ job \in [Keys -> Jobs] /\ held \in Jobs
  /\ worker \in {"wait", "paused", "limit", "call", "rest", "over"}
  /\ paused \in Nat /\ shown \in 0..MaxCalls
  /\ phase \in {"open", "outbox", "drain", "cut", "closed"}

(* A caller waits only for work that somebody will do: work that is queued  *)
(* once, or that the worker holds; and when the shutdown has begun, for     *)
(* nothing any more.                                                       *)
PendingIsOwned ==
  \A i \in Calls : fut[i] = "pending" =>
    /\ Running /\ worker # "over"
    /\ \/ /\ i \in job[Key(i)].futs
          /\ \E n \in DOMAIN queue : queue[n] = Key(i)
       \/ i \in held.futs /\ worker \in {"paused", "limit", "call"}

(* When the status message changes to an edit, every newer one of the same  *)
(* way is still to come, or has failed: the last edit wins, and no caller   *)
(* is told that an edit was made when an older one was shown instead.  The  *)
(* exception is an edit that is tried again.                               *)
NewestWins ==
  [][shown' # shown =>
       \A j \in DOMAIN calls :
         calls[j].edit /\ j > shown' =>
           \/ at[j] \in {"ready", "backoff"} \/ fut'[j] # "ok"
           \/ tries[shown'] > 1
           \/ calls[j].way # calls[shown'].way]_<<vars, delivery>>
=============================================================================
