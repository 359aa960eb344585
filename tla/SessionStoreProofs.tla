------------------------- MODULE SessionStoreProofs -------------------------
(* Proofs about SessionStore for every number of saves, edits and crashes. *)
EXTENDS SessionStore, TLAPS

-----------------------------------------------------------------------------
(* The inductive invariant, action by action.                              *)

LEMMA InitInv == Init => StoreInv
<1> SUFFICES ASSUME Init PROVE StoreInv OBVIOUS
<1> USE StoreAssumption DEF Init, Threads, Timers, Main, NoTake, Stages
<1>1. \A t \in Threads : pc[t] = "idle" /\ take[t].gen = 0 /\ take[t].ver = 0
  OBVIOUS
<1>2. TypeOK
  <2>1. take \in [Threads -> [gen : 0..MaxGen, ver : 0..MaxVersion]] OBVIOUS
  <2>2. pc \in [Threads -> Stages] OBVIOUS
  <2>3. dirty \in BOOLEAN /\ failed \in BOOLEAN OBVIOUS
  <2> QED BY <2>1, <2>2, <2>3 DEF TypeOK
<1>3. SnapshotsCurrent BY <1>1 DEF SnapshotsCurrent
<1>4. OneWriter /\ MainCurrent BY <1>1 DEF OneWriter, MainCurrent
<1> QED
  BY <1>2, <1>3, <1>4
     DEF StoreInv, TimerNewest, PromiseKept, UnsavedHasSaver

(* A save that is asked for makes every older snapshot stale.              *)
LEMMA EditInv == StoreInv /\ Edit => StoreInv'
<1> SUFFICES ASSUME StoreInv, Edit PROVE StoreInv' OBVIOUS
<1> USE StoreAssumption
    DEF StoreInv, TypeOK, Threads, Timers, Main, Stages
<1> USE DEF Edit
<1>1. /\ \A t \in Threads : pc'[t] = IF t = gen + 1 THEN "armed" ELSE Cancelled[t]
      /\ \A t \in Threads : Cancelled[t] \in {pc[t], "idle"}
      /\ pc'[Main] = pc[Main]
      /\ pc' \in [Threads -> Stages]
  BY DEF Cancelled, MainCurrent, TimerNewest
<1>2. TypeOK'
  <2>1. gen' \in 0..MaxGen /\ mem' \in 0..MaxVersion OBVIOUS
  <2> QED BY <1>1, <2>1
<1>3. (disk <= mem)' OBVIOUS
<1>4. SnapshotsCurrent'
  BY <1>1 DEF SnapshotsCurrent, Current
<1>5. OneWriter' BY <1>1 DEF OneWriter
<1>6. MainCurrent' BY <1>1 DEF MainCurrent
<1>7. TimerNewest' /\ UnsavedHasSaver'
  BY <1>1 DEF TimerNewest, UnsavedHasSaver
<1>8. PromiseKept' BY DEF PromiseKept
<1> QED BY <1>2, <1>3, <1>4, <1>5, <1>6, <1>7, <1>8

LEMMA ClearInv == StoreInv /\ BeginClear => StoreInv'
<1> SUFFICES ASSUME StoreInv, BeginClear PROVE StoreInv' OBVIOUS
<1> USE StoreAssumption
    DEF StoreInv, TypeOK, Threads, Timers, Main, Stages
<1> USE DEF BeginClear
<1>1. /\ \A t \in Threads : pc'[t] = IF t = Main THEN "write" ELSE Cancelled[t]
      /\ \A t \in Threads : Cancelled[t] \in {pc[t], "idle"}
      /\ pc' \in [Threads -> Stages]
  BY DEF Cancelled
<1>a. /\ take'[Main] = [gen |-> gen + 1, ver |-> mem']
      /\ \A t \in Timers : take'[t] = take[t]
      /\ take' \in [Threads -> [gen : 0..MaxGen, ver : 0..MaxVersion]]
  OBVIOUS
<1>2. TypeOK'
  <2>1. gen' \in 0..MaxGen /\ mem' \in 0..MaxVersion OBVIOUS
  <2>2. /\ disk' \in 0..MaxVersion /\ promised' \in Nat
        /\ timer' \in 0..MaxGen /\ crashes' \in 0..MaxCrashes
    OBVIOUS
  <2>3. dirty' \in BOOLEAN /\ failed' \in BOOLEAN OBVIOUS
  <2>4. op' \in {"none", "flush", "clear"} OBVIOUS
  <2> QED BY ONLY <1>1, <1>a, <2>1, <2>2, <2>3, <2>4 DEF TypeOK, Threads, Timers, Main, Stages
<1>3. (disk <= mem)' OBVIOUS
<1>4. SnapshotsCurrent'
  BY <1>1, <1>a DEF SnapshotsCurrent, Current
<1>5. OneWriter' BY <1>1 DEF OneWriter
<1>6. MainCurrent' BY <1>1, <1>a DEF MainCurrent, Current
<1>7. TimerNewest' BY DEF TimerNewest
<1>8. UnsavedHasSaver'
  BY <1>1, <1>a DEF UnsavedHasSaver, NewestInHand, Current
<1>9. PromiseKept' BY DEF PromiseKept
<1> QED BY <1>2, <1>3, <1>4, <1>5, <1>6, <1>7, <1>8, <1>9

LEMMA CrashInv == StoreInv /\ Crash => StoreInv'
<1> SUFFICES ASSUME StoreInv, Crash PROVE StoreInv' OBVIOUS
<1> USE StoreAssumption
    DEF StoreInv, TypeOK, Threads, Timers, Main, Stages, Crash, NoTake
<1>1. \A t \in Threads :
        pc'[t] = "idle" /\ take'[t].gen = 0 /\ take'[t].ver = 0
  OBVIOUS
<1>2. TypeOK'
  <2>1. take' \in [Threads -> [gen : 0..MaxGen, ver : 0..MaxVersion]] OBVIOUS
  <2>2. pc' \in [Threads -> Stages] OBVIOUS
  <2>3. crashes' \in 0..MaxCrashes OBVIOUS
  <2> QED BY <2>1, <2>2, <2>3
<1>3. SnapshotsCurrent' BY <1>1 DEF SnapshotsCurrent
<1>4. OneWriter' /\ MainCurrent' BY <1>1 DEF OneWriter, MainCurrent
<1> QED
  BY <1>2, <1>3, <1>4 DEF TimerNewest, PromiseKept, UnsavedHasSaver

LEMMA FlushInv == StoreInv /\ BeginFlush => StoreInv'
<1> SUFFICES ASSUME StoreInv, BeginFlush PROVE StoreInv' OBVIOUS
<1> USE DEF StoreInv, TypeOK, Threads, Timers, Main, Stages, BeginFlush,
           store
<1>1. /\ pc[Main] = "idle"
      /\ \A t \in Threads : pc'[t] = IF t = Main THEN "claim" ELSE pc[t]
      /\ pc' \in [Threads -> Stages]
  BY DEF MainCurrent
<1>2. TypeOK' BY <1>1
<1>3. SnapshotsCurrent' BY <1>1 DEF SnapshotsCurrent, Current
<1>4. OneWriter' BY <1>1 DEF OneWriter
<1>5. MainCurrent' BY <1>1 DEF MainCurrent
<1>6. TimerNewest' BY <1>1 DEF TimerNewest
<1>7. UnsavedHasSaver'
  BY <1>1 DEF UnsavedHasSaver, NewestInHand, Current
<1> QED
  BY <1>2, <1>3, <1>4, <1>5, <1>6, <1>7 DEF PromiseKept

LEMMA FireInv ==
  ASSUME NEW t \in Timers, StoreInv, Fire(t) PROVE StoreInv'
<1> USE DEF StoreInv, TypeOK, Threads, Timers, Main, Stages, Fire, store
<1>1. /\ \A u \in Threads : pc'[u] = IF u = t THEN "claim" ELSE pc[u]
      /\ pc' \in [Threads -> Stages]
      /\ pc[t] = "armed"
  OBVIOUS
<1>2. TypeOK' BY <1>1
<1>3. SnapshotsCurrent' BY <1>1 DEF SnapshotsCurrent, Current
<1>4. OneWriter' BY <1>1 DEF OneWriter
<1>5. MainCurrent' BY <1>1 DEF MainCurrent, Current
<1>6. TimerNewest' BY <1>1 DEF TimerNewest
<1>7. UnsavedHasSaver'
  BY <1>1 DEF UnsavedHasSaver, NewestInHand, Current
<1> QED
  BY <1>2, <1>3, <1>4, <1>5, <1>6, <1>7 DEF PromiseKept

(* Whoever claims takes the newest generation over from its timer.         *)
LEMMA ClaimInv ==
  ASSUME NEW t \in Threads, StoreInv, Claim(t) PROVE StoreInv'
<1> USE DEF StoreInv, TypeOK, Threads, Timers, Main, Stages
<1>1. /\ take' = [take EXCEPT ![t] = [gen |-> gen, ver |-> 0]]
      /\ pc' = [Cancelled EXCEPT ![t] = "snapshot"]
      /\ pc[t] = "claim"
      /\ timer' = 0
      /\ UNCHANGED <<store, gen, dirty, op, promised, failed>>
  BY DEF Claim, Claims
<1>2. /\ \A u \in Threads : pc'[u] = IF u = t THEN "snapshot" ELSE Cancelled[u]
      /\ \A u \in Threads : /\ Cancelled[u] \in {pc[u], "idle"}
                            /\ pc[u] # "armed" => Cancelled[u] = pc[u]
      /\ pc' \in [Threads -> Stages]
  BY <1>1 DEF Cancelled
<1>3. /\ take'[t].gen = gen /\ take'[t].ver = 0
      /\ \A u \in Threads \ {t} : take'[u] = take[u]
      /\ take' \in [Threads -> [gen : 0..MaxGen, ver : 0..MaxVersion]]
  <2>1. 0 \in 0..MaxVersion BY StoreAssumption
  <2> QED BY <1>1, <2>1
<1>4. TypeOK' BY <1>1, <1>2, <1>3, StoreAssumption DEF store
<1>5. SnapshotsCurrent'
  BY <1>1, <1>2, <1>3 DEF SnapshotsCurrent, Current, store
<1>6. OneWriter' BY <1>2 DEF OneWriter
<1>7. MainCurrent'
  BY <1>1, <1>2, <1>3 DEF MainCurrent, Current, store
<1>8. TimerNewest' BY <1>1 DEF TimerNewest
<1>9. NewestInHand' BY <1>1, <1>2, <1>3 DEF NewestInHand, Current
<1> QED
  BY <1>1, <1>4, <1>5, <1>6, <1>7, <1>8, <1>9
     DEF PromiseKept, UnsavedHasSaver, store

LEMMA SnapshotInv ==
  ASSUME NEW t \in Threads, StoreInv, Snapshot(t) PROVE StoreInv'
<1> USE DEF StoreInv, TypeOK, Threads, Timers, Main, Stages
<1>1. /\ take' = [take EXCEPT ![t].ver = mem]
      /\ pc' = [pc EXCEPT ![t] = "write"]
      /\ pc[t] = "snapshot"
      /\ UNCHANGED <<store, gen, timer, dirty, op, promised, failed>>
  BY DEF Snapshot
<1>2. /\ \A u \in Threads : pc'[u] = IF u = t THEN "write" ELSE pc[u]
      /\ pc' \in [Threads -> Stages]
  BY <1>1
<1>3. /\ take'[t].gen = take[t].gen /\ take'[t].ver = mem
      /\ \A u \in Threads \ {t} : take'[u] = take[u]
      /\ take' \in [Threads -> [gen : 0..MaxGen, ver : 0..MaxVersion]]
  BY <1>1
<1>4. TypeOK' BY <1>1, <1>2, <1>3 DEF store
<1>5. SnapshotsCurrent'
  BY <1>1, <1>2, <1>3 DEF SnapshotsCurrent, Current, store
<1>6. OneWriter' BY <1>2 DEF OneWriter
<1>7. MainCurrent'
  BY <1>1, <1>2, <1>3 DEF MainCurrent, Current, store
<1>8. TimerNewest' BY <1>1, <1>2 DEF TimerNewest
<1>9. NewestInHand => NewestInHand'
  BY <1>1, <1>2, <1>3 DEF NewestInHand, Current
<1> QED
  BY <1>1, <1>2, <1>4, <1>5, <1>6, <1>7, <1>8, <1>9
     DEF PromiseKept, UnsavedHasSaver, TimerNewest, store

-----------------------------------------------------------------------------
(* The steps of a save that has its snapshot.                              *)

(* The thread t leaves: nobody else is disturbed.                          *)
LEMMA LeaveFacts ==
  ASSUME NEW t \in Threads, TypeOK, Leave(t)
  PROVE  /\ \A u \in Threads : pc'[u] = IF u = t THEN "idle" ELSE pc[u]
         /\ \A u \in Threads \ {t} : take'[u] = take[u]
         /\ take'[t].gen = 0 /\ take'[t].ver = 0
         /\ pc' \in [Threads -> Stages]
         /\ take' \in [Threads -> [gen : 0..MaxGen, ver : 0..MaxVersion]]
<1>1. NoTake \in [gen : 0..MaxGen, ver : 0..MaxVersion]
  BY StoreAssumption DEF NoTake
<1> QED BY <1>1 DEF TypeOK, Leave, Stages, NoTake

(* Only a thread that had nothing in hand, or saved or failed to save the  *)
(* newest state, leaves; the main thread only then returns.                *)
LEMMA LeaveInv ==
  ASSUME NEW t \in Threads, StoreInv, Leave(t),
         pc[t] \in {"claim", "write", "fail", "mark", "clean"},
         t = Main => op' = "none",
         t # Main => op' = op,
         UNCHANGED <<store, gen, timer, failed>>,
         dirty' \in BOOLEAN,
         pc[t] = "claim" => t # gen \/ timer = 0,
         pc[t] = "write" => ~Current(t),
         promised' = promised \/ (promised' = mem /\ disk = mem)
  PROVE  StoreInv'
<1> USE DEF StoreInv, Threads, Timers, Main
<1>1. /\ \A u \in Threads : pc'[u] = IF u = t THEN "idle" ELSE pc[u]
      /\ \A u \in Threads \ {t} : take'[u] = take[u]
      /\ take'[t].gen = 0 /\ take'[t].ver = 0
      /\ pc' \in [Threads -> Stages]
      /\ take' \in [Threads -> [gen : 0..MaxGen, ver : 0..MaxVersion]]
  BY LeaveFacts
<1>2. TypeOK' BY <1>1 DEF TypeOK, store
<1>3. SnapshotsCurrent'
  BY <1>1 DEF SnapshotsCurrent, Current, TypeOK, store
<1>4. OneWriter' BY <1>1 DEF OneWriter
<1>5. MainCurrent' BY <1>1 DEF MainCurrent, Current, TypeOK, store
<1>6. TimerNewest' BY <1>1 DEF TimerNewest, TypeOK
<1>7. PromiseKept' BY DEF PromiseKept, TypeOK, store
<1>8. NewestInHand => NewestInHand'
  BY <1>1 DEF NewestInHand, Current
<1>9. UnsavedHasSaver'
  BY <1>1, <1>6, <1>8 DEF UnsavedHasSaver, TimerNewest, TypeOK, store
<1> QED
  BY <1>2, <1>3, <1>4, <1>5, <1>6, <1>7, <1>9 DEF store

(* The threads that leave, each for its own reason.                        *)
LEMMA LeavingInv ==
  ASSUME NEW t \in Threads, StoreInv,
         \/ Superseded(t)
         \/ Reject(t)
         \/ MarkDirty(t)
         \/ MarkClean(t)
         \/ JudgeClean(t) /\ ~(timer = 0 /\ Current(t))
  PROVE  StoreInv'
<1> USE DEF StoreInv
<1>1. dirty \in BOOLEAN BY DEF TypeOK
<1>2. CASE Superseded(t)
  <2>1. t # Main /\ (t # gen \/ timer = 0) BY <1>2 DEF Superseded, Claims
  <2> QED BY <1>1, <1>2, <2>1, LeaveInv DEF Superseded
<1>3. CASE Reject(t)
  <2>1. t # Main BY <1>3 DEF Reject, MainCurrent
  <2> QED BY <1>1, <1>3, <2>1, LeaveInv DEF Reject, Return
<1>4. CASE MarkDirty(t)
  BY <1>4, LeaveInv DEF MarkDirty, Raise
<1>5. CASE MarkClean(t)
  <2>1. t = Main => disk = mem BY <1>5 DEF MarkClean, MainCurrent
  <2> QED BY <1>5, <2>1, LeaveInv DEF MarkClean, Return
<1>6. CASE JudgeClean(t) /\ ~(timer = 0 /\ Current(t))
  <2>1. t = Main => disk = mem BY <1>6 DEF JudgeClean, MainCurrent
  <2> QED BY <1>1, <1>6, <2>1, LeaveInv DEF JudgeClean, Return
<1> QED BY <1>2, <1>3, <1>4, <1>5, <1>6

(* The writer's lock admits one snapshot, and only the newest.             *)
LEMMA EnterInv ==
  ASSUME NEW t \in Threads, StoreInv, Enter(t) PROVE StoreInv'
<1> USE DEF StoreInv, TypeOK, Threads, Timers, Main, Stages, Enter, store
<1>1. /\ \A u \in Threads : pc'[u] = IF u = t THEN "file" ELSE pc[u]
      /\ pc' \in [Threads -> Stages]
      /\ pc[t] = "write"
  OBVIOUS
<1>2. TypeOK' BY <1>1
<1>3. SnapshotsCurrent' BY <1>1 DEF SnapshotsCurrent, Current
<1>4. OneWriter' BY <1>1 DEF OneWriter, WriterBusy
<1>5. MainCurrent' BY <1>1 DEF MainCurrent, Current
<1>6. TimerNewest' BY <1>1 DEF TimerNewest
<1>7. UnsavedHasSaver'
  BY <1>1 DEF UnsavedHasSaver, NewestInHand, Current
<1> QED
  BY <1>2, <1>3, <1>4, <1>5, <1>6, <1>7 DEF PromiseKept

(* What is written is never older than the file.                           *)
LEMMA ReplaceInv ==
  ASSUME NEW t \in Threads, StoreInv, Replace(t) PROVE StoreInv'
<1> USE DEF StoreInv, TypeOK, Threads, Timers, Main, Stages, Replace
<1>1. /\ \A u \in Threads : pc'[u] = IF u = t THEN "mark" ELSE pc[u]
      /\ pc' \in [Threads -> Stages]
      /\ pc[t] = "file"
      /\ \A u \in Threads \ {t} : pc[u] # "file"
  BY DEF OneWriter
<1>2. take[t].ver >= disk /\ (Current(t) => take[t].ver = mem)
  BY <1>1 DEF SnapshotsCurrent
<1>3. take[t].ver \in 0..MaxVersion /\ take[t].ver <= mem
  BY DEF SnapshotsCurrent
<1>4. TypeOK' /\ (disk <= mem)' BY <1>1, <1>3
<1>5. SnapshotsCurrent' BY <1>1 DEF SnapshotsCurrent, Current
<1>6. OneWriter' BY <1>1 DEF OneWriter
<1>7. MainCurrent' BY <1>1, <1>2, <1>3 DEF MainCurrent, Current
<1>8. TimerNewest' BY <1>1 DEF TimerNewest
<1>9. UnsavedHasSaver'
  <2>1. CASE Current(t) BY <1>2, <2>1 DEF UnsavedHasSaver
  <2>2. CASE ~Current(t)
    <3>1. NewestInHand => NewestInHand'
      BY <1>1, <2>2 DEF NewestInHand, Current
    <3>2. disk' # mem' => disk # mem BY <1>2, <1>3
    <3> QED BY <1>1, <3>1, <3>2 DEF UnsavedHasSaver, TimerNewest
  <2> QED BY <2>1, <2>2
<1>10. PromiseKept' BY <1>2, <1>3 DEF PromiseKept
<1> QED BY <1>4, <1>5, <1>6, <1>7, <1>8, <1>9, <1>10

LEMMA FailInv ==
  ASSUME NEW t \in Threads, StoreInv, FailToWrite(t) PROVE StoreInv'
<1> USE DEF StoreInv, TypeOK, Threads, Timers, Main, Stages, FailToWrite, store
<1>1. /\ \A u \in Threads : pc'[u] = IF u = t THEN "fail" ELSE pc[u]
      /\ pc' \in [Threads -> Stages]
      /\ pc[t] = "file"
  OBVIOUS
<1>2. TypeOK'
  <2>1. failed' \in BOOLEAN BY DEF Current
  <2> QED BY <1>1, <2>1
<1>3. SnapshotsCurrent' BY <1>1 DEF SnapshotsCurrent, Current
<1>4. OneWriter' BY <1>1 DEF OneWriter
<1>5. MainCurrent' BY <1>1 DEF MainCurrent, Current
<1>6. TimerNewest' BY <1>1 DEF TimerNewest
<1>7. UnsavedHasSaver'
  <2>1. ~failed' => (NewestInHand => NewestInHand')
    BY <1>1 DEF NewestInHand, Current
  <2> QED BY <1>1, <2>1 DEF UnsavedHasSaver
<1> QED
  BY <1>2, <1>3, <1>4, <1>5, <1>6, <1>7 DEF PromiseKept

LEMMA JudgeInv ==
  ASSUME NEW t \in Threads, StoreInv, JudgeClean(t), timer = 0 /\ Current(t)
  PROVE  StoreInv'
<1> USE DEF StoreInv, TypeOK, Threads, Timers, Main, Stages, JudgeClean, store
<1>1. /\ \A u \in Threads : pc'[u] = IF u = t THEN "clean" ELSE pc[u]
      /\ pc' \in [Threads -> Stages]
      /\ pc[t] = "mark"
      /\ UNCHANGED <<op, promised, take>>
  OBVIOUS
<1>2. TypeOK' BY <1>1
<1>3. SnapshotsCurrent' BY <1>1 DEF SnapshotsCurrent, Current
<1>4. OneWriter' BY <1>1 DEF OneWriter
<1>5. MainCurrent' BY <1>1 DEF MainCurrent, Current
<1>6. TimerNewest' BY <1>1 DEF TimerNewest
<1>7. UnsavedHasSaver'
  BY <1>1 DEF UnsavedHasSaver, NewestInHand, Current
<1> QED
  BY <1>1, <1>2, <1>3, <1>4, <1>5, <1>6, <1>7 DEF PromiseKept

-----------------------------------------------------------------------------
LEMMA InvStep == StoreInv /\ [Next]_vars => StoreInv'
<1> SUFFICES ASSUME StoreInv, [Next]_vars PROVE StoreInv' OBVIOUS
<1>1. CASE Edit \/ BeginFlush \/ BeginClear \/ Crash
  BY <1>1, EditInv, FlushInv, ClearInv, CrashInv
<1>2. ASSUME NEW t \in Timers, Fire(t) PROVE StoreInv'
  BY <1>2, FireInv
<1>3. ASSUME NEW t \in Threads, Step(t) PROVE StoreInv'
  BY <1>3, ClaimInv, SnapshotInv, LeavingInv, EnterInv, ReplaceInv, FailInv,
     JudgeInv DEF Step
<1>4. CASE UNCHANGED vars
  BY <1>4
     DEF vars, StoreInv, TypeOK, SnapshotsCurrent, OneWriter, MainCurrent,
         TimerNewest, PromiseKept, UnsavedHasSaver, NewestInHand, Current
<1> QED BY <1>1, <1>2, <1>3, <1>4 DEF Next

THEOREM StoreCorrect == Spec => []StoreInv
BY InitInv, InvStep, PTL DEF Spec

(* A flush or a clear that returned is never undone, whatever the threads  *)
(* still have in hand and whenever the process is killed.                  *)
THEOREM PromisesAreKept == Spec => []PromiseKept
<1>1. StoreInv => PromiseKept BY DEF StoreInv
<1> QED BY <1>1, StoreCorrect, PTL

(* No superseded timer consumes the newest save.                           *)
THEOREM NoSaveIsLost == Spec => []UnsavedHasSaver
<1>1. StoreInv => UnsavedHasSaver BY DEF StoreInv
<1> QED BY <1>1, StoreCorrect, PTL

-----------------------------------------------------------------------------
(* The store implements the durable state.                                 *)

LEMMA SavedStep == StoreInv /\ [Next]_vars => [Saved!Next]_Saved!vars
<1> SUFFICES ASSUME StoreInv, [Next]_vars PROVE [Saved!Next]_Saved!vars
  OBVIOUS
<1> USE DEF Saved!Next, Saved!vars, store
<1>1. CASE Edit \/ BeginClear
  BY <1>1 DEF Edit, BeginClear, Saved!Edit
<1>2. CASE BeginFlush BY <1>2 DEF BeginFlush
<1>3. CASE Crash BY <1>3 DEF Crash, Saved!Restart
<1>4. ASSUME NEW t \in Timers, Fire(t) PROVE UNCHANGED Saved!vars
  BY <1>4 DEF Fire
<1>5. ASSUME NEW t \in Threads, Step(t) PROVE [Saved!Next]_Saved!vars
  <2>1. CASE Claim(t) \/ Superseded(t) \/ Snapshot(t) \/ Enter(t)
    BY <2>1 DEF Claim, Superseded, Snapshot, Enter
  <2>2. CASE FailToWrite(t) \/ MarkDirty(t)
    BY <2>2 DEF FailToWrite, MarkDirty, Raise
  <2>3. CASE Reject(t)
    <3>1. t # Main BY <2>3 DEF Reject, StoreInv, MainCurrent
    <3> QED BY <2>3, <3>1 DEF Reject, Return
  <2>4. CASE Replace(t)
    <3>1. take[t].ver \in disk..mem
      BY <2>4 DEF Replace, StoreInv, SnapshotsCurrent, TypeOK
    <3> QED BY <2>4, <3>1 DEF Replace, Saved!Save
  <2>5. CASE JudgeClean(t) \/ MarkClean(t)
    <3>1. t = Main => disk = mem
      BY <2>5 DEF JudgeClean, MarkClean, StoreInv, MainCurrent
    <3> QED BY <2>5, <3>1 DEF JudgeClean, MarkClean, Return, Saved!Acknowledge
  <2> QED BY <1>5, <2>1, <2>2, <2>3, <2>4, <2>5 DEF Step
<1>6. CASE UNCHANGED vars BY <1>6 DEF vars
<1> QED BY <1>1, <1>2, <1>3, <1>4, <1>5, <1>6 DEF Next

(* The file and the memory are a durable store: the file only moves        *)
(* forward, and an acknowledged state is in it.                            *)
THEOREM StoreImplementsSavedState == Spec => ImplementsSavedState
<1>1. Init => Saved!Init BY DEF Init, Saved!Init
<1> QED
  BY <1>1, StoreCorrect, SavedStep, PTL
     DEF Spec, Saved!Spec, ImplementsSavedState
=============================================================================
