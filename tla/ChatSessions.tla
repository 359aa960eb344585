---------------------------- MODULE ChatSessions ----------------------------
(* One chat of Chat Sessions: the service that owns its commands and its    *)
(* provider work (application/chat/service.py) and the transactions of its  *)
(* store (runtime/chat_sqlite.py).                                          *)
(*                                                                         *)
(* An operation is one work task and the supervisor that waits for it; they *)
(* never run at once, and one program point stands for both.  A section     *)
(* under _active_lock is a step, except that update_session keeps the lock  *)
(* over its write.  A store call runs in a worker thread: cancelling its    *)
(* caller does not undo it, so the calls that must not be lost are shielded *)
(* and a flush that is not can land later.  A call may fail, before or      *)
(* after its transaction has committed, and the process may die.            *)
EXTENDS Naturals

CONSTANTS
  MaxOps,        (* bound: operations ever started                          *)
  MaxSegments,   (* bound: segments an operation streams                    *)
  MaxTrouble     (* bound: store calls that fail (a call that is made again  *)
                 (* and fails again counts once), changes of the session     *)
                 (* that are no operation, and ends of a server that did not *)
                 (* close its service before, all together                   *)

ASSUME ChatAssumption == {MaxOps, MaxSegments, MaxTrouble} \subseteq Nat

VARIABLES
  phase,      (* of the server process                                      *)
  accepting,  (* _accepting                                                 *)
  lock,       (* who holds _active_lock over a store call                   *)
  op,         (* _active of this chat                                       *)
  del,        (* delete_session: its step, the operation it has captured,   *)
              (* the revision it has read                                   *)
  db,         (* the rows of this chat                                      *)
  late,       (* a flush whose caller was cancelled and whose thread runs on *)
  started,    (* operations started                                         *)
  trouble,    (* how much of MaxTrouble is used up                          *)
  obeyed,     (* history: operations whose stop was accepted                *)
  lost        (* history: operations cancelled while nobody could tell      *)
              (* whether their generation had begun                         *)

server == <<phase, accepting, lock, obeyed, lost>>
vars == <<server, op, del, db, late, started, trouble>>

Kinds == {"send", "retry", "regenerate", "compact"}
Terminal == {"completed", "stopped", "interrupted", "failed"}
Unfinished == Terminal \ {"completed"}

NoText == [by |-> 0, size |-> 0]
NoAnswer == [id |-> 0, turn |-> 0, by |-> 0, status |-> "none", text |-> NoText]
NoOp == [id |-> 0]
NoLate == [gen |-> 0, text |-> NoText]
NoDelete == [step |-> "none", target |-> 0, rev |-> 0]

Answers == INSTANCE ChatAnswers
             WITH newest <- IF db.exists
                            THEN [turn |-> db.answer.turn, by |-> db.answer.by,
                                  status |-> db.answer.status]
                            ELSE [turn |-> 0, by |-> 0, status |-> "deleted"]

Init ==
  /\ phase = "up" /\ accepting = TRUE /\ lock = "free" /\ obeyed = {} /\ lost = {}
  /\ op = NoOp /\ del = NoDelete /\ late = NoLate
  /\ db = [exists |-> TRUE, rev |-> 1, answer |-> NoAnswer, staged |-> NoAnswer,
           summary |-> <<0, FALSE>>]
  /\ started = 0 /\ trouble = 0

-----------------------------------------------------------------------------
(* The transactions of the store, as functions of its rows.                *)

(* A retry reuses the row of the answer.                                   *)
RowOf(d, o) == IF o.kind = "retry" THEN d.answer.id ELSE o.id

Row(d, o) == [id |-> RowOf(d, o),
              turn |-> d.answer.turn + (IF o.kind = "send" THEN 1 ELSE 0),
              by |-> o.id, status |-> "running", text |-> [by |-> o.id, size |-> 0]]

(* Mutant of Begun: a regeneration takes the place of the answer at once.  *)
MutantBegun(d, o) == [d EXCEPT !.rev = @ + 1, !.answer = Row(d, o)]

(* begin_send, begin_retry and begin_regenerate, which is staged.          *)
Begun(d, o) ==
  IF o.kind = "regenerate"
  THEN [d EXCEPT !.rev = @ + 1, !.staged = Row(d, o)]
  ELSE [d EXCEPT !.rev = @ + 1, !.answer = Row(d, o)]

(* The conditions of these transactions: the revision that was read, and   *)
(* the status of the newest answer.                                        *)
MayBegin(d, o) ==
  /\ d.exists
  /\ d.rev = o.rev
  /\ o.kind = "retry" => d.answer.status \in Unfinished
  /\ o.kind = "regenerate" => d.answer.status = "completed"

(* generation_start_committed                                              *)
HasBegun(d, o) ==
  IF o.kind = "regenerate"
  THEN d.staged.id = o.id
  ELSE d.answer.id = RowOf(d, o) /\ d.answer.status = "running"

(* replace_generation_segments                                             *)
WithText(d, gen, text) ==
  CASE d.answer.id = gen -> [d EXCEPT !.answer.text = text]
    [] d.answer.id # gen /\ d.staged.id = gen -> [d EXCEPT !.staged.text = text]
    [] OTHER -> d

(* finish_generation: only a running generation is finished.               *)
Finished(d, status) ==
  IF d.answer.status = "running"
  THEN [d EXCEPT !.rev = @ + 1, !.answer.status = status]
  ELSE d

(* finish_regeneration: the staged generation becomes the visible one.     *)
Swapped(d, status) ==
  IF d.staged = NoAnswer
  THEN d
  ELSE [d EXCEPT !.rev = @ + 1, !.answer = [d.staged EXCEPT !.status = status],
                 !.staged = NoAnswer]

(* discard_generation                                                      *)
Discarded(d) == [d EXCEPT !.staged = NoAnswer]

(* upsert_compaction: the same summary is not written twice.               *)
Compacted(d, summary) ==
  IF d.summary = summary THEN d ELSE [d EXCEPT !.rev = @ + 1, !.summary = summary]

(* delete_session, with the rows that hang from the session.               *)
Removed(d) == [d EXCEPT !.exists = FALSE, !.answer = NoAnswer, !.staged = NoAnswer]

(* Mutant of Repaired: what was staged is kept.                            *)
MutantRepaired(d) == Finished(d, "interrupted")

(* The second half of _migrate_and_repair.                                 *)
Repaired(d) == Finished(Discarded(d), "interrupted")

-----------------------------------------------------------------------------
(* Calls that fail.                                                        *)

Fault == trouble < MaxTrouble /\ trouble' = trouble + 1

Text(o) == [by |-> o.id, size |-> o.segments]

(* The work task ends by raising.                                          *)
Raise(error) == op' = [op EXCEPT !.pc = "raised", !.error = error, !.retried = FALSE]

(* _retry_terminal_persistence has failed twice.  Work raises to its        *)
(* supervisor; the supervisor closes the service, and stages no event when  *)
(* the operation was cancelled for a deletion or by a shutdown.            *)
GiveUp ==
  IF op.want \in {"none", "completed"}
  THEN Raise("unsaved") /\ UNCHANGED accepting
  ELSE /\ op' = [op EXCEPT !.pc = "release",
                           !.error = IF op.reason = "deleted" THEN "fatal" ELSE @,
                           !.terminal = IF op.reason \in {"deleted", "interrupted"}
                                        THEN "none" ELSE "storage"]
       /\ accepting' = (accepting /\ op.reason = "interrupted")

(* One attempt of _retry_terminal_persistence.                             *)
Attempt(new, done) ==
  \/ /\ db' = new
     /\ op' = [done EXCEPT !.retried = FALSE]
     /\ UNCHANGED <<accepting, trouble>>
  \/ /\ ~op.retried /\ Fault
     /\ db' \in {db, new}
     /\ op' = [op EXCEPT !.retried = TRUE]
     /\ UNCHANGED accepting
  \/ /\ op.retried /\ GiveUp
     /\ db' \in {db, new}
     /\ UNCHANGED trouble

-----------------------------------------------------------------------------
(* Commands.                                                               *)

(* What the API checks on the transcript it has read.                      *)
Admissible(kind) ==
  /\ kind = "retry" => db.answer.status \in Unfinished
  /\ kind = "regenerate" => db.answer.status = "completed"

(* send, retry, regenerate and compact: the checks may have been made on    *)
(* an older revision, that of another tab.                                 *)
Start ==
  /\ phase = "up" /\ accepting /\ lock = "free"
  /\ op = NoOp /\ del.step = "none"
  /\ started < MaxOps
  /\ \E kind \in Kinds, rev \in 1..db.rev :
       /\ rev = db.rev => Admissible(kind)
       /\ op' = [id |-> started + 1, kind |-> kind, rev |-> rev, pc |-> "prepare",
                 settling |-> FALSE, reason |-> "none", cancelled |-> FALSE,
                 gen |-> 0, segments |-> 0, recovered |-> FALSE, error |-> "none",
                 want |-> "none", retried |-> FALSE, terminal |-> "none"]
  /\ started' = started + 1
  /\ UNCHANGED <<server, del, db, late, trouble>>

(* The work task has ended, or the supervisor has taken over.              *)
WorkOver == op.pc \in {"raised", "cancelled"}

(* What _cancel_active does to an operation that nobody settles yet.       *)
Cancelled(reason) ==
  [op EXCEPT !.settling = TRUE, !.reason = reason, !.cancelled = ~WorkOver]

Stop ==
  /\ phase = "up" /\ accepting /\ lock = "free"
  /\ op # NoOp /\ ~op.settling
  /\ op' = Cancelled("stopped")
  /\ obeyed' = obeyed \union {op.id}
  /\ UNCHANGED <<phase, accepting, lock, lost, del, db, late, started, trouble>>

(* update_session takes the lock and keeps it over its transaction.        *)
BeginUpdate ==
  /\ phase = "up" /\ accepting /\ lock = "free" /\ del.step = "none"
  /\ Fault
  /\ lock' = "update"
  /\ UNCHANGED <<phase, accepting, obeyed, lost, op, del, db, late, started>>

(* The transaction, refused when the revision is stale, may be lost too.   *)
EndUpdate ==
  /\ lock = "update"
  /\ lock' = "free"
  /\ db' \in {db} \union (IF db.exists THEN {[db EXCEPT !.rev = @ + 1]} ELSE {})
  /\ UNCHANGED <<phase, accepting, obeyed, lost, op, del, late, started, trouble>>

-----------------------------------------------------------------------------
(* The work task.                                                          *)

(* The work reaches an await with no cancellation pending.                 *)
Works(pc) == op # NoOp /\ op.pc = pc /\ ~op.cancelled

WorkOnly == UNCHANGED <<server, del, late, started>>

(* Reading the transcript, and summarising it when it is too long: what    *)
(* can go wrong (a stale revision, a store that does not answer, a failing *)
(* provider, a request that cannot fit) raises.                            *)
Prepare ==
  /\ Works("prepare")
  /\ \/ /\ db.exists /\ db.rev = op.rev
        /\ op' \in {[op EXCEPT !.pc = pc] :
                      pc \in IF op.kind = "compact" THEN {"claim"}
                             ELSE {"begin", "checkpoint"}}
     \/ Raise("plain")
  /\ WorkOnly /\ UNCHANGED <<db, trouble>>

(* The commit of an automatic compaction, shielded from cancellation.      *)
Checkpoint ==
  /\ op # NoOp /\ op.pc = "checkpoint"
  /\ Attempt(Compacted(db, <<op.id, op.gen # 0>>),
             [op EXCEPT !.pc = CASE op.cancelled -> "cancelled"
                                 [] ~op.cancelled /\ op.gen = 0 -> "reread"
                                 [] OTHER -> "stream"])
  /\ UNCHANGED <<phase, lock, obeyed, lost, del, late, started>>

Reread ==
  /\ Works("reread")
  /\ op' = [op EXCEPT !.pc = "begin", !.rev = db.rev] \/ Raise("plain")
  /\ WorkOnly /\ UNCHANGED <<db, trouble>>

(* The generation belongs to the operation from here on.                   *)
Adopt ==
  op' = [op EXCEPT !.gen = RowOf(db, op),
                   !.pc = IF op.cancelled THEN "cancelled" ELSE "stream"]

(* _commit_generation_start, shielded: the transaction commits, refuses,   *)
(* or fails with its outcome unknown.                                      *)
Begin ==
  /\ op # NoOp /\ op.pc = "begin"
  /\ \/ MayBegin(db, op) /\ db' = Begun(db, op) /\ Adopt /\ UNCHANGED trouble
     \/ ~MayBegin(db, op) /\ Raise("plain") /\ UNCHANGED <<db, trouble>>
     \/ /\ Fault
        /\ op' = [op EXCEPT !.pc = "reconcile"]
        /\ db' \in {db} \union (IF MayBegin(db, op) THEN {Begun(db, op)} ELSE {})
  /\ WorkOnly

(* The outcome is read back, shielded too.                                 *)
Reconcile ==
  /\ op # NoOp /\ op.pc = "reconcile"
  /\ \/ HasBegun(db, op) /\ Adopt /\ UNCHANGED trouble
     \/ ~HasBegun(db, op) /\ Raise("plain") /\ UNCHANGED trouble
     \/ Raise("unsaved") /\ UNCHANGED trouble
  /\ WorkOnly /\ UNCHANGED db

(* content_block_start and the deltas of a block.                          *)
Segment ==
  /\ Works("stream")
  /\ op.segments < MaxSegments
  /\ op' = [op EXCEPT !.segments = @ + 1]
  /\ WorkOnly /\ UNCHANGED <<db, trouble>>

(* _flush_segments while the answer streams: it is not retried.            *)
Flush ==
  /\ Works("stream")
  /\ op.segments > 0
  /\ \/ db' = WithText(db, op.gen, Text(op)) /\ UNCHANGED <<op, trouble>>
     \/ Fault /\ db' \in {db, WithText(db, op.gen, Text(op))} /\ Raise("plain")
  /\ WorkOnly

(* Every candidate found the context too long before anything was shown:   *)
(* the transcript is compacted, once, and the request is made again.       *)
Recover ==
  /\ Works("stream")
  /\ op.segments = 0 /\ ~op.recovered
  /\ op' = [op EXCEPT !.pc = "checkpoint", !.recovered = TRUE]
  /\ WorkOnly /\ UNCHANGED <<db, trouble>>

(* The stream fails, or ends with message_stop.                            *)
EndStream ==
  /\ Works("stream")
  /\ Raise("plain") \/ op' = [op EXCEPT !.pc = "claim"]
  /\ WorkOnly /\ UNCHANGED <<db, trouble>>

(* Mutant of Claim: the completion does not claim the settlement.          *)
MutantClaim ==
  /\ Works("claim") /\ lock = "free"
  /\ op' = [op EXCEPT !.want = "completed",
                      !.pc = IF op.kind = "compact" THEN "upsert" ELSE "flush"]
  /\ WorkOnly /\ UNCHANGED <<db, trouble>>

(* _claim_settlement before a completion is committed.  When the operation *)
(* is settled by a cancellation, that cancellation is pending here.        *)
Claim ==
  /\ Works("claim") /\ lock = "free"
  /\ op' = [op EXCEPT !.settling = TRUE, !.want = "completed",
                      !.pc = IF op.kind = "compact" THEN "upsert" ELSE "flush"]
  /\ WorkOnly /\ UNCHANGED <<db, trouble>>

(* The commit of a manual compaction.                                      *)
Upsert ==
  /\ op # NoOp /\ op.pc = "upsert"
  /\ Attempt(Compacted(db, <<op.id, FALSE>>),
             [op EXCEPT !.pc = "release", !.terminal = "completed"])
  /\ UNCHANGED <<phase, lock, obeyed, lost, del, late, started>>

(* CancelledError at an await that is not shielded.  A flush that was      *)
(* under way goes on in its thread.                                        *)
Deliver ==
  /\ op # NoOp /\ op.cancelled
  /\ op.pc \in {"prepare", "reread", "stream", "claim"}
  /\ op' = [op EXCEPT !.pc = "cancelled"]
  /\ late' \in {late} \union (IF op.pc = "stream" /\ op.segments > 0
                              THEN {[gen |-> op.gen, text |-> Text(op)]} ELSE {})
  /\ UNCHANGED <<server, del, db, started, trouble>>

Land ==
  /\ late # NoLate
  /\ db' = WithText(db, late.gen, late.text)
  /\ late' = NoLate
  /\ UNCHANGED <<server, op, del, started, trouble>>

-----------------------------------------------------------------------------
(* The supervisor.                                                         *)

Settle(want) ==
  op' = [op EXCEPT !.settling = TRUE, !.want = want,
                   !.pc = IF want = "discarded" THEN "finish" ELSE "flush"]

End(terminal) == op' = [op EXCEPT !.settling = TRUE, !.pc = "release", !.terminal = terminal]

(* _handle_cancelled                                                       *)
HandleCancelled ==
  /\ \/ op.gen = 0 /\ End(IF op.reason = "deleted" THEN "none" ELSE "stopped")
     \/ op.gen # 0 /\ op.kind = "regenerate" /\ Settle("discarded")
     \/ /\ op.gen # 0 /\ op.kind # "regenerate"
        /\ Settle(IF op.reason = "interrupted" THEN "interrupted" ELSE "stopped")
  /\ UNCHANGED accepting

(* _handle_failure                                                         *)
HandleFailure ==
  \/ op.error = "unsaved" /\ End("storage") /\ accepting' = FALSE
  \/ op.error = "plain" /\ op.gen = 0 /\ End("failed") /\ UNCHANGED accepting
  \/ op.error = "plain" /\ op.gen # 0 /\ Settle("failed") /\ UNCHANGED accepting

(* _run_active once the work is over: an operation that nobody has settled *)
(* is settled as failed, and a cancellation wins over a failure.           *)
Supervise ==
  /\ op # NoOp /\ WorkOver /\ lock = "free"
  /\ IF op.reason # "none" THEN HandleCancelled ELSE HandleFailure
  /\ lost' = IF op.reason # "none" /\ op.error = "unsaved" /\ op.gen = 0
             THEN lost \union {op.id} ELSE lost
  /\ UNCHANGED <<phase, lock, obeyed, del, db, late, started, trouble>>

(* _flush_terminal_segments                                                *)
FlushAll ==
  /\ op # NoOp /\ op.pc = "flush"
  /\ Attempt(WithText(db, op.gen, Text(op)), [op EXCEPT !.pc = "finish"])
  /\ UNCHANGED <<phase, lock, obeyed, lost, del, late, started>>

Settled ==
  CASE op.want = "discarded" -> Discarded(db)
    [] op.want # "discarded" /\ op.kind = "regenerate" -> Swapped(db, op.want)
    [] OTHER -> Finished(db, op.want)

EventOf ==
  CASE op.reason = "deleted" -> "none"
    [] op.reason # "deleted" /\ op.want \in {"completed", "failed"} -> op.want
    [] OTHER -> "stopped"

(* _finish_generation, _finish_regeneration or _discard_regeneration, and  *)
(* the terminal event that is staged for it.                               *)
Finish ==
  /\ op # NoOp /\ op.pc = "finish"
  /\ Attempt(Settled, [op EXCEPT !.pc = "release", !.terminal = EventOf])
  /\ UNCHANGED <<phase, lock, obeyed, lost, del, late, started>>

(* Mutant of Release: an operation whose settlement has raised is kept.    *)
MutantRelease ==
  /\ op # NoOp /\ op.pc = "release" /\ lock = "free" /\ op.error # "fatal"
  /\ op' = NoOp
  /\ UNCHANGED <<server, del, db, late, started, trouble>>

(* _release_active publishes the terminal event.  A supervisor that raises *)
(* takes the deletion that waits for it down.                              *)
Release ==
  /\ op # NoOp /\ op.pc = "release" /\ lock = "free"
  /\ op' = NoOp
  /\ del' = IF op.error = "fatal" /\ del.step = "waiting" THEN NoDelete ELSE del
  /\ UNCHANGED <<server, db, late, started, trouble>>

-----------------------------------------------------------------------------
(* delete_session                                                          *)

(* Mutant of Delete: the operation that runs is not captured.              *)
MutantDelete ==
  /\ phase = "up" /\ accepting /\ lock = "free" /\ del.step = "none"
  /\ del' = [step |-> "checking", target |-> 0, rev |-> 0]
  /\ UNCHANGED <<server, op, db, late, started, trouble>>

(* The chat is marked and the operation that runs is captured.             *)
Delete ==
  /\ phase = "up" /\ accepting /\ lock = "free" /\ del.step = "none"
  /\ del' = [step |-> "checking", target |-> op.id, rev |-> 0]
  /\ UNCHANGED <<server, op, db, late, started, trouble>>

(* The revision is the caller's, or the deletion is refused.               *)
CheckDelete ==
  /\ del.step = "checking"
  /\ \/ /\ db.exists
        /\ del' = [del EXCEPT !.rev = db.rev,
                              !.step = IF del.target = 0 THEN "removing" ELSE "cancelling"]
     \/ del' = NoDelete
  /\ UNCHANGED <<server, op, db, late, started, trouble>>

(* _cancel_active on the captured operation, which may be over.            *)
CancelForDelete ==
  /\ del.step = "cancelling" /\ lock = "free"
  /\ op' = IF op.id = del.target /\ ~op.settling THEN Cancelled("deleted") ELSE op
  /\ del' = [del EXCEPT !.step = "waiting"]
  /\ UNCHANGED <<server, db, late, started, trouble>>

(* The supervisor is over: the session is read again.                      *)
RereadForDelete ==
  /\ del.step = "waiting" /\ op.id # del.target
  /\ \/ del' = [del EXCEPT !.step = "removing", !.rev = db.rev] /\ UNCHANGED trouble
     \/ Fault /\ del' = NoDelete
  /\ UNCHANGED <<server, op, db, late, started>>

(* The transaction, on the revision that was read.                         *)
Remove ==
  /\ del.step = "removing"
  /\ db.exists /\ db.rev = del.rev
  /\ del' = NoDelete
  /\ \/ db' = Removed(db) /\ UNCHANGED trouble
     \/ Fault /\ db' \in {db, Removed(db)}
  /\ UNCHANGED <<server, op, late, started>>

-----------------------------------------------------------------------------
(* The life of the server.                                                 *)

(* begin_shutdown, and close up to its cancellation of what runs.          *)
Close ==
  /\ phase = "up" /\ lock = "free"
  /\ IF accepting THEN Fault ELSE UNCHANGED trouble
  /\ phase' = "closing" /\ accepting' = FALSE
  /\ op' = IF op # NoOp /\ ~op.settling THEN Cancelled("interrupted") ELSE op
  /\ UNCHANGED <<lock, obeyed, lost, del, db, late, started>>

(* What is in memory is gone; what was under way is not.                   *)
Die ==
  /\ phase' = "down" /\ accepting' = FALSE /\ lock' = "free"
  /\ op' = NoOp /\ del' = NoDelete /\ late' = NoLate
  /\ UNCHANGED <<obeyed, lost, db, started>>

(* The supervisors are over: the store is closed and the process ends.     *)
EndClose == phase = "closing" /\ op = NoOp /\ Die /\ UNCHANGED trouble

(* The process dies.                                                       *)
Crash == phase \in {"up", "starting", "closing"} /\ Fault /\ Die

(* start: the store repairs its rows, then selections of retired models    *)
(* are replaced, which may change the revision, and commands are accepted. *)
OpenStore ==
  /\ phase = "down"
  /\ phase' = "starting"
  /\ db' = Repaired(db)
  /\ UNCHANGED <<accepting, lock, obeyed, lost, op, del, late, started, trouble>>

Retire ==
  /\ phase = "starting"
  /\ db' \in {db} \union (IF db.exists THEN {[db EXCEPT !.rev = @ + 1]} ELSE {})
  /\ phase' = "up" /\ accepting' = TRUE
  /\ UNCHANGED <<lock, obeyed, lost, op, del, late, started, trouble>>

-----------------------------------------------------------------------------
Work ==
  \/ Prepare \/ Checkpoint \/ Reread \/ Begin \/ Reconcile
  \/ EndStream \/ Claim \/ Upsert \/ Deliver

Settlement == Supervise \/ FlushAll \/ Finish \/ Release

Deletion == CheckDelete \/ CancelForDelete \/ RereadForDelete \/ Remove

Next ==
  \/ Start \/ Stop \/ Delete \/ BeginUpdate \/ EndUpdate
  \/ Work \/ Segment \/ Flush \/ Recover \/ Land
  \/ Settlement
  \/ Deletion
  \/ Close \/ EndClose \/ Crash \/ OpenStore \/ Retire

Spec == Init /\ [][Next]_vars

(* Tasks of the event loop run, a store call ends at the latest when its    *)
(* busy timeout does, and a stream ends at the latest at the progress       *)
(* deadline of its request.                                                *)
Fairness ==
  /\ WF_vars(EndUpdate)
  /\ WF_vars(Work)
  /\ WF_vars(Settlement)
  /\ WF_vars(Deletion)
  /\ WF_vars(EndClose)

FairSpec == Spec /\ Fairness

-----------------------------------------------------------------------------
Texts == [by : 0..MaxOps, size : 0..MaxSegments]
Rows == [id : 0..MaxOps, turn : 0..MaxOps, by : 0..MaxOps,
         status : Terminal \union {"none", "running"}, text : Texts]

TypeOK ==
  /\ phase \in {"up", "closing", "down", "starting"}
  /\ accepting \in BOOLEAN
  /\ lock \in {"free", "update"}
  /\ op = NoOp \/ op \in
       [id : 1..MaxOps, kind : Kinds, rev : Nat,
        pc : {"prepare", "checkpoint", "reread", "begin", "reconcile", "stream", "claim",
              "upsert", "raised", "cancelled", "flush", "finish", "release"},
        settling : BOOLEAN, reason : {"none", "stopped", "interrupted", "deleted"},
        cancelled : BOOLEAN, gen : 0..MaxOps, segments : 0..MaxSegments,
        recovered : BOOLEAN, error : {"none", "plain", "unsaved", "fatal"},
        want : Terminal \union {"none", "discarded"}, retried : BOOLEAN,
        terminal : {"none", "completed", "failed", "stopped", "storage"}]
  /\ del \in [step : {"none", "checking", "cancelling", "waiting", "removing"},
              target : 0..MaxOps, rev : Nat]
  /\ db \in [exists : BOOLEAN, rev : Nat, answer : Rows, staged : Rows,
             summary : (0..MaxOps) \X BOOLEAN]
  /\ late \in [gen : 0..MaxOps, text : Texts]
  /\ started \in 0..MaxOps /\ trouble \in 0..MaxTrouble
  /\ obeyed \subseteq 1..MaxOps /\ lost \subseteq 1..MaxOps

Writing == {g \in {db.answer, db.staged} : g.status = "running"}

(* While the service accepts commands, an answer that the store calls       *)
(* running is being written: nothing is left running by a stop, a failure,  *)
(* a deletion or a crash, where no command could touch it any more.  (The   *)
(* exception is an operation cancelled while nobody could tell whether its  *)
(* generation had begun.)                                                  *)
OwnedWhileRunning ==
  phase = "up" /\ accepting =>
    \A g \in Writing : g.by = op.id \/ g.by \in lost

(* The event that ends an operation says what the store holds: the answer   *)
(* it completed is the visible one with all of its text (unless a late      *)
(* flush of an earlier attempt has come over it), a stopped regeneration    *)
(* has left the completed answer in place, and an operation whose stop was  *)
(* accepted does not end as completed.                                     *)
TerminalIsTrue ==
  op # NoOp /\ op.pc = "release" =>
    /\ op.terminal = "completed" => op.id \notin obeyed
    /\ op.terminal = "completed" /\ op.kind = "compact" => db.summary[1] = op.id
    /\ op.gen # 0 /\ op.terminal \in {"completed", "failed"} =>
         /\ db.answer.id = op.gen
         /\ db.answer.status = op.terminal
         /\ db.answer.text = Text(op) \/ db.answer.text.by # op.id
    /\ op.gen # 0 /\ op.terminal = "stopped" =>
         IF op.kind = "regenerate"
         THEN db.staged = NoAnswer /\ db.answer.status = "completed"
         ELSE db.answer.id = op.gen /\ db.answer.status \in {"stopped", "interrupted"}

(* No write that ends something is refused: when an operation settles its   *)
(* generation, the row is there and still its own, and when a deletion      *)
(* removes the chat, nobody has changed the revision it has read.          *)
WritesAreNotRefused ==
  /\ op # NoOp /\ op.gen # 0 =>
       /\ db.exists
       /\ op.gen \in {db.answer.id, db.staged.id} \/ op.want = "discarded"
  /\ del.step = "removing" => db.exists /\ db.rev = del.rev

(* The chat keeps the promise of ChatAnswers.                              *)
ImplementsAnswers == Answers!Spec

(* Every operation ends, every deletion is answered and a shutdown comes to *)
(* its end, unless the process dies.                                       *)
CommandsSettle ==
  /\ op # NoOp ~> op = NoOp
  /\ del.step # "none" ~> del.step = "none"
  /\ phase = "closing" ~> phase = "down"
=============================================================================
