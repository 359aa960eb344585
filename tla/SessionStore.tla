----------------------------- MODULE SessionStore -----------------------------
(* SessionStore and DebouncedJsonPersistence (messaging/session).          *)
(*                                                                         *)
(* The main thread runs the event loop: it edits the state, flushes it or  *)
(* clears a chat.  Each edit arms a timer, and an expired timer saves in a *)
(* thread of its own, which is named by the generation it was armed for.   *)
(* The content is a version number: an edit of the state makes the next    *)
(* one.  Three locks order the threads.  The store's lock is held for one  *)
(* step, except by clear_scope, which keeps it until it returns; the       *)
(* writer's lock is held in "file"; the timer's lock for one step.         *)
EXTENDS Naturals

CONSTANTS
  MaxGen,     (* bound: saves asked for between two starts                 *)
  MaxVersion, (* bound: edits of the state                                 *)
  MaxCrashes  (* bound: times the process is killed                        *)

ASSUME StoreAssumption ==
  MaxGen \in Nat /\ MaxVersion \in Nat /\ MaxCrashes \in Nat

VARIABLES
  mem,        (* _conversation and _managed_messages                       *)
  disk,       (* the file                                                  *)
  gen,        (* _save_generation                                          *)
  timer,      (* generation of _save_timer, 0 for None                     *)
  dirty,      (* _dirty                                                    *)
  op,         (* what the main thread is in: "none", "flush" or "clear"    *)
  pc,         (* where each thread is                                      *)
  take,       (* _PendingWrite of each thread                              *)
  crashes,
  promised,   (* history: version at the last flush or clear that returned *)
  failed      (* history: the newest generation was tried and not written  *)

vars == <<mem, disk, gen, timer, dirty, op, pc, take, crashes, promised, failed>>
store == <<mem, disk, crashes>>

Main == 0
Timers == 1..MaxGen
Threads == {Main} \cup Timers

Saved == INSTANCE SavedState
           WITH current <- mem, saved <- disk, acknowledged <- promised

NoTake == [gen |-> 0, ver |-> 0]

Init ==
  /\ mem = 0 /\ disk = 0 /\ promised = 0 /\ crashes = 0
  /\ gen = 0 /\ timer = 0 /\ dirty = FALSE /\ failed = FALSE
  /\ op = "none"
  /\ pc = [t \in Threads |-> "idle"]
  /\ take = [t \in Threads |-> NoTake]

-----------------------------------------------------------------------------
(* Timer.cancel stops a timer that has not expired.                        *)
Cancelled == [t \in Threads |-> IF t = timer /\ pc[t] = "armed" THEN "idle"
                                                                ELSE pc[t]]

(* Only clear_scope keeps the store's lock beyond a step.                  *)
StoreFree(t) == t = Main \/ op # "clear"

(* Mutant of WriterBusy: the dirty flag is cleared under the writer's lock.*)
MutantWriterBusy == \E t \in Threads : pc[t] \in {"file", "mark", "clean"}

WriterBusy == \E t \in Threads : pc[t] = "file"

(* An edit under the store's lock, and schedule_save: it marks the state   *)
(* dirty, replaces the timer and starts the new one.  An edit that leaves  *)
(* the state as it was is saved all the same.                              *)
Edit ==
  /\ op = "none"
  /\ gen < MaxGen /\ mem < MaxVersion
  /\ mem' \in {mem, mem + 1}
  /\ gen' = gen + 1
  /\ timer' = gen'
  /\ pc' = [Cancelled EXCEPT ![gen'] = "armed"]
  /\ dirty' = TRUE
  /\ failed' = FALSE
  /\ UNCHANGED <<disk, op, take, crashes, promised>>

BeginFlush ==
  /\ op = "none"
  /\ op' = "flush"
  /\ pc' = [pc EXCEPT ![Main] = "claim"]
  /\ dirty' = TRUE
  /\ UNCHANGED <<store, gen, timer, take, promised, failed>>

(* clear_scope up to _write_pending: the state changes, older snapshots    *)
(* are invalidated, and the store's lock stays held.                       *)
BeginClear ==
  /\ op = "none"
  /\ gen < MaxGen /\ mem < MaxVersion
  /\ op' = "clear"
  /\ mem' \in {mem, mem + 1}
  /\ gen' = gen + 1
  /\ timer' = 0
  /\ pc' = [Cancelled EXCEPT ![Main] = "write"]
  /\ take' = [take EXCEPT ![Main] = [gen |-> gen', ver |-> mem']]
  /\ dirty' = TRUE
  /\ failed' = FALSE
  /\ UNCHANGED <<disk, crashes, promised>>

(* The thread is over, and its snapshot with it.                           *)
Leave(t) ==
  /\ pc' = [pc EXCEPT ![t] = "idle"]
  /\ take' = [take EXCEPT ![t] = NoTake]

Fire(t) ==
  /\ pc[t] = "armed"
  /\ pc' = [pc EXCEPT ![t] = "claim"]
  /\ UNCHANGED <<store, gen, timer, dirty, op, take, promised, failed>>

(* Mutant of Claims: a timer claims the generation it was armed for,       *)
(* whatever has been asked for since.                                      *)
MutantClaims(t) == IF t = Main THEN {gen} ELSE {t}

(* What _claim_timer returns, if anything: an expired timer only claims    *)
(* the newest generation, and only while that has its timer.               *)
Claims(t) == IF t = Main \/ (t = gen /\ timer # 0) THEN {gen} ELSE {}

Claim(t) ==
  /\ pc[t] = "claim"
  /\ \E g \in Claims(t) : take' = [take EXCEPT ![t] = [gen |-> g, ver |-> 0]]
  /\ pc' = [Cancelled EXCEPT ![t] = "snapshot"]
  /\ timer' = 0
  /\ UNCHANGED <<store, gen, dirty, op, promised, failed>>

Superseded(t) ==
  /\ pc[t] = "claim"
  /\ Claims(t) = {}
  /\ Leave(t)
  /\ UNCHANGED <<store, gen, timer, dirty, op, promised, failed>>

Snapshot(t) ==
  /\ pc[t] = "snapshot" /\ StoreFree(t)
  /\ take' = [take EXCEPT ![t].ver = mem]
  /\ pc' = [pc EXCEPT ![t] = "write"]
  /\ UNCHANGED <<store, gen, timer, dirty, op, promised, failed>>

-----------------------------------------------------------------------------
(* flush and clear_scope return to their caller, which takes the state for *)
(* saved unless they raise.                                                *)
Return(t) ==
  IF t = Main THEN op' = "none" /\ promised' = mem
              ELSE UNCHANGED <<op, promised>>

Raise(t) ==
  /\ op' = IF t = Main THEN "none" ELSE op
  /\ UNCHANGED promised

(* Mutant of Current: a snapshot is written without looking again.         *)
MutantCurrent(t) == TRUE

(* No newer save has been asked for.                                       *)
Current(t) == take[t].gen = gen

(* _write_if_current up to _write_file, under the writer's lock.           *)
Enter(t) ==
  /\ pc[t] = "write" /\ ~WriterBusy
  /\ Current(t)
  /\ pc' = [pc EXCEPT ![t] = "file"]
  /\ UNCHANGED <<store, gen, timer, dirty, op, take, promised, failed>>

Reject(t) ==
  /\ pc[t] = "write" /\ ~WriterBusy
  /\ ~Current(t)
  /\ Leave(t)
  /\ Return(t)
  /\ UNCHANGED <<store, gen, timer, dirty, failed>>

(* os.replace is the only change of the file.                              *)
Replace(t) ==
  /\ pc[t] = "file"
  /\ disk' = take[t].ver
  /\ pc' = [pc EXCEPT ![t] = "mark"]
  /\ UNCHANGED <<mem, gen, timer, dirty, op, take, crashes, promised, failed>>

(* The temporary file cannot be written, synchronised or moved.            *)
FailToWrite(t) ==
  /\ pc[t] = "file"
  /\ pc' = [pc EXCEPT ![t] = "fail"]
  /\ failed' = (failed \/ Current(t))
  /\ UNCHANGED <<store, gen, timer, dirty, op, take, promised>>

MarkDirty(t) ==
  /\ pc[t] = "fail" /\ StoreFree(t)
  /\ dirty' = TRUE
  /\ Leave(t)
  /\ Raise(t)
  /\ UNCHANGED <<store, gen, timer, failed>>

(* _mark_clean_if_current decides under the timer's lock ...               *)
JudgeClean(t) ==
  /\ pc[t] = "mark"
  /\ IF timer = 0 /\ Current(t)
       THEN /\ pc' = [pc EXCEPT ![t] = "clean"]
            /\ UNCHANGED <<op, promised, take>>
       ELSE Leave(t) /\ Return(t)
  /\ UNCHANGED <<store, gen, timer, dirty, failed>>

(* ... and clears the flag after it has released it.                       *)
MarkClean(t) ==
  /\ pc[t] = "clean" /\ StoreFree(t)
  /\ dirty' = FALSE
  /\ Leave(t)
  /\ Return(t)
  /\ UNCHANGED <<store, gen, timer, failed>>

(* The process is killed; the next one loads the file.                     *)
Crash ==
  /\ crashes < MaxCrashes
  /\ crashes' = crashes + 1
  /\ mem' = disk
  /\ gen' = 0 /\ timer' = 0 /\ dirty' = FALSE /\ failed' = FALSE
  /\ op' = "none"
  /\ pc' = [t \in Threads |-> "idle"]
  /\ take' = [t \in Threads |-> NoTake]
  /\ UNCHANGED <<disk, promised>>

Step(t) ==
  \/ Claim(t) \/ Superseded(t) \/ Snapshot(t) \/ Enter(t) \/ Reject(t)
  \/ Replace(t) \/ FailToWrite(t) \/ MarkDirty(t) \/ JudgeClean(t) \/ MarkClean(t)

Next ==
  \/ Edit \/ BeginFlush \/ BeginClear \/ Crash
  \/ \E t \in Timers : Fire(t)
  \/ \E t \in Threads : Step(t)

(* Timers expire and threads run; nobody has to edit, flush or clear.      *)
Fairness ==
  /\ \A t \in Timers : WF_vars(Fire(t))
  /\ \A t \in Threads : WF_vars(Step(t))

Spec == Init /\ [][Next]_vars

FairSpec == Spec /\ Fairness

-----------------------------------------------------------------------------
Stages == {"idle", "armed", "claim", "snapshot", "write", "file", "fail",
           "mark", "clean"}

TypeOK ==
  /\ mem \in 0..MaxVersion /\ disk \in 0..MaxVersion /\ promised \in Nat
  /\ gen \in 0..MaxGen /\ timer \in 0..MaxGen /\ crashes \in 0..MaxCrashes
  /\ dirty \in BOOLEAN /\ failed \in BOOLEAN
  /\ op \in {"none", "flush", "clear"}
  /\ pc \in [Threads -> Stages]
  /\ take \in [Threads -> [gen : 0..MaxGen, ver : 0..MaxVersion]]

(* A flush or a clear that returned without raising is never undone: no    *)
(* thread that took its snapshot before writes it after, and a restart     *)
(* loads at least that state (a cleared chat does not come back).          *)
PromiseKept == promised <= disk

(* Some thread is about to write the newest generation.                    *)
NewestInHand ==
  \E t \in Threads : /\ pc[t] \in {"snapshot", "write", "file"}
                     /\ Current(t)

(* No save is lost between the timers: a state that is not in the file has *)
(* the timer of its own generation still to come, or a thread that has     *)
(* claimed it, or was tried and failed; a timer that was superseded never  *)
(* consumes it.                                                            *)
UnsavedHasSaver ==
  disk # mem =>
    \/ timer = gen /\ timer # 0 /\ pc[timer] \in {"armed", "claim"}
    \/ NewestInHand
    \/ failed

(* The file and the memory behave as a durable store.                      *)
ImplementsSavedState == Saved!Spec

(* Every edit reaches the file, or its write fails.                        *)
SaveSettles == (disk # mem) ~> (disk = mem \/ failed)

(* flush and clear_scope return: the event loop holds the store's lock in  *)
(* clear_scope while it waits for the writer's, and no writer waits for    *)
(* the store's while it has its own.                                       *)
CallsReturn == (op # "none") ~> (op = "none")

(* A save that failed leaves the store dirty until one succeeds            *)
(* (tests/messaging/test_session_store_edge_cases.py, "keeps store dirty").*)
FailedStaysDirty ==
  failed /\ disk # mem /\ (\A t \in Threads : pc[t] \in {"idle", "armed"})
    => dirty

-----------------------------------------------------------------------------
(* What makes PromiseKept and UnsavedHasSaver inductive.                   *)

(* A snapshot of the newest generation is the newest state, because every  *)
(* edit asks for a new generation; no other snapshot will be written.      *)
SnapshotsCurrent ==
  \A t \in Threads :
    /\ take[t].gen <= gen /\ take[t].ver <= mem
    /\ pc[t] \in {"write", "file"} /\ Current(t) => take[t].ver = mem
    /\ pc[t] = "file" => take[t].ver >= disk

(* One writer at a time.                                                   *)
OneWriter ==
  \A s, t \in Threads : pc[s] = "file" /\ pc[t] = "file" => s = t

(* Nobody asks for a save while the main thread is in one, so its          *)
(* generation stays the newest, and it leaves the file with the newest     *)
(* state.                                                                  *)
MainCurrent ==
  /\ op = "none" <=> pc[Main] = "idle"
  /\ pc[Main] # "armed"
  /\ pc[Main] \notin {"idle", "claim"} => Current(Main)
  /\ pc[Main] \in {"mark", "clean"} => disk = mem

(* The timer is that of the newest generation, and has not been cancelled. *)
TimerNewest ==
  timer # 0 => timer = gen /\ pc[timer] \in {"armed", "claim"}

StoreInv ==
  /\ TypeOK
  /\ disk <= mem
  /\ SnapshotsCurrent
  /\ OneWriter
  /\ MainCurrent
  /\ TimerNewest
  /\ PromiseKept
  /\ UnsavedHasSaver
=============================================================================
