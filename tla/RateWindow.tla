------------------------------ MODULE RateWindow ------------------------------
(* StrictSlidingWindowLimiter (core/rate_limit.py), shared by provider     *)
(* admission and by the messaging limiter.                                 *)
(*                                                                         *)
(* `log' remembers every grant; the deque _times is the part of it after   *)
(* its first `popped' entries.  The lock is never held across a            *)
(* suspension, so one turn of _acquire's loop is one step; it reads the    *)
(* clock twice, and the second reading may be later.                       *)
EXTENDS Naturals, Sequences

CONSTANTS Tasks, Limit, Window, MaxTime

ASSUME WindowAssumption ==
  Limit \in Nat \ {0} /\ Window \in Nat \ {0} /\ MaxTime \in Nat

VARIABLES now, log, popped, pc, wake

vars == <<now, log, popped, pc, wake>>

Quota == INSTANCE RateQuota WITH clock <- now, grants <- log

Init ==
  /\ now = 0
  /\ log = <<>>
  /\ popped = 0
  /\ pc = [t \in Tasks |-> "idle"]
  /\ wake = [t \in Tasks |-> 0]

Call(t) ==
  /\ pc[t] = "idle"
  /\ pc' = [pc EXCEPT ![t] = "trying"]
  /\ UNCHANGED <<now, log, popped, wake>>

(* Mutant of Purged: an acquisition exactly Window old still counts.       *)
MutantPurged(n) ==
  /\ n \in popped..Len(log)
  /\ \A i \in popped + 1..n : log[i] + Window < now
  /\ n < Len(log) => log[n + 1] + Window >= now

(* What the purging loop leaves at the front has not left the window.      *)
Purged(n) ==
  /\ n \in popped..Len(log)
  /\ \A i \in popped + 1..n : log[i] + Window <= now
  /\ n < Len(log) => log[n + 1] + Window > now

(* Mutant of HasCapacity: one acquisition too many.                        *)
MutantHasCapacity(n) == Len(log) - n <= Limit

HasCapacity(n) == Len(log) - n < Limit

(* The stamp is a second reading of the clock.                             *)
Acquire(t) ==
  /\ pc[t] = "trying"
  /\ \E n \in popped..Len(log) :
       Purged(n) /\ HasCapacity(n) /\ popped' = n
  /\ now' \in now..MaxTime
  /\ log' = Append(log, now')
  /\ pc' = [pc EXCEPT ![t] = "idle"]
  /\ UNCHANGED wake

(* acquire_if: the condition no longer holds, nothing is recorded.         *)
Refuse(t) ==
  /\ pc[t] = "trying"
  /\ \E n \in popped..Len(log) :
       Purged(n) /\ HasCapacity(n) /\ popped' = n
  /\ pc' = [pc EXCEPT ![t] = "idle"]
  /\ UNCHANGED <<now, log, wake>>

(* The oldest acquisition in the window decides how long to sleep.         *)
Sleep(t) ==
  /\ pc[t] = "trying"
  /\ \E n \in popped..Len(log) :
       /\ Purged(n)
       /\ ~HasCapacity(n)
       /\ popped' = n
       /\ wake' = [wake EXCEPT ![t] = log[n + 1] + Window]
  /\ pc' = [pc EXCEPT ![t] = "asleep"]
  /\ UNCHANGED <<now, log>>

(* The event loop may fire a timer a clock tick early.                     *)
Wake(t) ==
  /\ pc[t] = "asleep"
  /\ now + 1 >= wake[t]
  /\ pc' = [pc EXCEPT ![t] = "trying"]
  /\ UNCHANGED <<now, log, popped, wake>>

Cancel(t) ==
  /\ pc[t] \in {"trying", "asleep"}
  /\ pc' = [pc EXCEPT ![t] = "idle"]
  /\ UNCHANGED <<now, log, popped, wake>>

Tick ==
  /\ now < MaxTime
  /\ now' = now + 1
  /\ UNCHANGED <<log, popped, pc, wake>>

Next ==
  \/ \E t \in Tasks : \/ Call(t) \/ Acquire(t) \/ Refuse(t) \/ Sleep(t)
                      \/ Wake(t) \/ Cancel(t)
  \/ Tick

Spec == Init /\ [][Next]_vars

-----------------------------------------------------------------------------
TypeOK ==
  /\ now \in 0..MaxTime
  /\ log \in Seq(0..MaxTime)
  /\ popped \in 0..Len(log)
  /\ pc \in [Tasks -> {"idle", "trying", "asleep"}]
  /\ wake \in [Tasks -> Nat]

(* The deque is exactly the part of the history that may still count: the  *)
(* history is in order and not in the future, what was popped has left the *)
(* window, and at most Limit entries are kept.                             *)
DequeIsWindow ==
  /\ TypeOK
  /\ \A i \in 1..Len(log) : \A j \in i..Len(log) : log[i] <= log[j]
  /\ \A i \in 1..Len(log) : log[i] <= now
  /\ \A i \in 1..popped : log[i] + Window <= now
  /\ Len(log) - popped <= Limit

(* At most rate_limit acquisitions in any interval of length rate_window   *)
(* (the class's guarantee), over the whole history.                        *)
WindowBound == Quota!WindowBound

(* The limiter grants no later than the strict window demands: a task goes *)
(* to sleep only while the last Limit grants are all inside the window,    *)
(* and until the first of them leaves it.                                  *)
SleepsOnlyWhenFull ==
  [][\A t \in Tasks :
       pc[t] = "trying" /\ pc'[t] = "asleep" =>
         /\ ~Quota!HasRoom
         /\ wake'[t] = log[Len(log) + 1 - Limit] + Window]_vars

(* The limiter is a sliding-window quota.                                  *)
ImplementsQuota == Quota!Spec
=============================================================================
