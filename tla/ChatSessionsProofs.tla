------------------------- MODULE ChatSessionsProofs -------------------------
(* Proofs about ChatSessions, for any number of operations, segments and    *)
(* failures.                                                               *)
EXTENDS ChatSessions, TLAPS

-----------------------------------------------------------------------------
(* The inductive invariant.                                                *)

Running == {"prepare", "checkpoint", "reread", "begin", "reconcile", "stream", "claim"}

(* Commands are accepted only by a server that is up, and one that is not   *)
(* has nothing under way.                                                  *)
ServerInv ==
  /\ accepting => phase = "up"
  /\ phase \in {"down", "starting"} =>
       op = NoOp /\ del = NoDelete /\ late = NoLate /\ lock = "free"
  /\ phase = "starting" => Writing = {}

(* A row bears the numbers of operations that were started, and a row that *)
(* exists has an id.                                                       *)
RowInv(row) ==
  /\ row.by <= started /\ row.turn <= row.by /\ row.id <= row.by
  /\ row.status # "none" => row.id > 0

NumbersInv ==
  /\ RowInv(db.answer) /\ RowInv(db.staged)
  /\ op # NoOp => op.id = started
  /\ late.text.by <= started
  /\ late # NoLate => late.gen # 0
  /\ obeyed \subseteq 1..started /\ lost \subseteq 1..started

(* How an operation is claimed: by its completion, or once by whoever      *)
(* cancels it, and then the cancellation is delivered before a completion  *)
(* can claim it.                                                           *)
ClaimInv ==
  op # NoOp =>
    /\ op.reason # "none" \/ op.want # "none" \/ op.pc \in {"upsert", "flush", "finish", "release"}
         => op.settling
    /\ op.cancelled => op.reason # "none"
    /\ op.reason # "none" /\ op.pc \in Running => op.cancelled
    /\ op.pc = "cancelled" => op.reason # "none"
    /\ op.pc = "upsert" \/ op.want \in {"completed", "failed"} => op.reason = "none"
    /\ op.reason = "interrupted" => ~accepting
    /\ op.id \in obeyed => op.reason # "none"
    /\ late.text.by = op.id => op.reason # "none"

(* The generation of the operation is in the store, as it was begun.       *)
OwnsAs(gen) ==
  IF op.kind = "regenerate"
  THEN /\ db.staged.id = gen /\ gen = op.id /\ db.staged.by = op.id /\ db.staged.status = "running"
       /\ db.staged.turn = db.answer.turn /\ db.answer.status = "completed"
       /\ db.answer.by < op.id
  ELSE /\ db.answer.id = gen /\ db.answer.by = op.id /\ db.answer.status = "running"
       /\ db.staged.by < op.id

(* It is as its settlement has left it.                                    *)
Done ==
  IF op.want = "discarded"
  THEN db.staged = NoAnswer /\ db.answer.status = "completed" /\ db.answer.by < op.id
  ELSE /\ db.answer.id = op.gen /\ db.answer.by = op.id /\ db.answer.status = op.want
       /\ db.staged.by < op.id
       /\ op.kind = "regenerate" => db.staged = NoAnswer

NotBegun == db.answer.by < op.id /\ db.staged.by < op.id

(* The text of the generation is what the operation has streamed, unless a *)
(* flush of another operation has come over it.                            *)
TextOf(row) == row.text = Text(op) \/ row.text.by # op.id

Owned == op.gen # 0 /\ OwnsAs(op.gen) /\ op.want = "none"

Unbegun == op.gen = 0 /\ NotBegun

Ready == db.exists /\ Admissible(op.kind) /\ op.kind # "compact"

(* What the store knows of the operation, at each of its places.           *)
PlaceInv ==
  /\ op.pc = "prepare" => /\ Unbegun /\ op.want = "none" /\ op.rev <= db.rev
                          /\ op.rev = db.rev => Admissible(op.kind)
  /\ op.pc = "checkpoint" => (Unbegun /\ Ready /\ op.want = "none") \/ Owned
  /\ op.pc \in {"reread", "begin"} => Unbegun /\ Ready /\ op.want = "none"
  /\ op.pc = "reconcile" => /\ op.gen = 0 /\ op.want = "none" /\ db.exists
                            /\ op.kind # "compact"
                            /\ (NotBegun /\ Ready) \/ OwnsAs(RowOf(db, op))
  /\ op.pc = "stream" => Owned
  /\ op.pc = "claim" => Owned \/ (Unbegun /\ op.kind = "compact" /\ op.want = "none")
  /\ op.pc = "upsert" => Unbegun /\ op.kind = "compact" /\ op.want = "completed"
  /\ op.pc = "raised" =>
       \/ Owned /\ op.error \in {"plain", "unsaved"}
       \/ Unbegun /\ op.error = "plain"
       \/ op.gen = 0 /\ op.error = "unsaved"
       \/ /\ op.gen # 0 /\ op.error = "unsaved" /\ op.want = "completed"
          /\ OwnsAs(op.gen) \/ Done
  /\ op.pc = "cancelled" => op.want = "none" /\ (Owned \/ Unbegun)
  /\ op.pc = "flush" => op.gen # 0 /\ OwnsAs(op.gen) /\ op.want \in Terminal
  /\ op.pc = "finish" => op.gen # 0 /\ op.want # "none" /\ (OwnsAs(op.gen) \/ Done)
  /\ op.pc = "release" =>
       /\ op.gen # 0 => Done \/ (OwnsAs(op.gen) /\ ~accepting)
       /\ op.gen = 0 => NotBegun \/ op.id \in lost \/ ~accepting

(* How far its settlement is, and what the event says that ends it.        *)
SettlementInv ==
  /\ op.want = "discarded" => op.kind = "regenerate"
  /\ op.kind = "regenerate" => op.want \notin {"stopped", "interrupted"}
  /\ op.gen # 0 => db.exists /\ op.kind # "compact"
  /\ op.gen # 0 /\ op.pc = "finish" /\ op.want \in {"completed", "failed"} =>
       IF op.kind = "regenerate" /\ db.staged # NoAnswer
       THEN TextOf(db.staged) ELSE TextOf(db.answer)
  /\ op.pc = "release" =>
       /\ op.terminal = "completed" => op.want = "completed"
       /\ op.terminal = "completed" /\ op.kind = "compact" => db.summary[1] = op.id
       /\ op.gen # 0 /\ op.terminal \in {"completed", "failed"} =>
            op.want = op.terminal /\ Done /\ TextOf(db.answer)
       /\ op.gen # 0 /\ op.terminal = "stopped" =>
            op.want \in {"stopped", "interrupted", "discarded"} /\ Done

OpInv == op # NoOp => PlaceInv /\ SettlementInv

WritingInv ==
  accepting => \A g \in Writing : g.by \in lost \/ (op # NoOp /\ g.by = op.id)

(* A deletion has the chat for itself once it removes it.                  *)
DeleteInv ==
  /\ del.step # "none" => lock = "free" /\ (op # NoOp => op.id = del.target)
  /\ del.step \in {"cancelling", "waiting"} => db.exists /\ del.target # 0
  /\ del.step = "removing" => op = NoOp /\ db.exists /\ db.rev = del.rev

OpRecords ==
  [id : 1..MaxOps, kind : Kinds, rev : Nat,
   pc : {"prepare", "checkpoint", "reread", "begin", "reconcile", "stream", "claim",
         "upsert", "raised", "cancelled", "flush", "finish", "release"},
   settling : BOOLEAN, reason : {"none", "stopped", "interrupted", "deleted"},
   cancelled : BOOLEAN, gen : 0..MaxOps, segments : 0..MaxSegments,
   recovered : BOOLEAN, error : {"none", "plain", "unsaved", "fatal"},
   want : Terminal \union {"none", "discarded"}, retried : BOOLEAN,
   terminal : {"none", "completed", "failed", "stopped", "storage"}]

DelRecords ==
  [step : {"none", "checking", "cancelling", "waiting", "removing"},
   target : 0..MaxOps, rev : Nat]

DbRecords ==
  [exists : BOOLEAN, rev : Nat, answer : Rows, staged : Rows,
   summary : (0..MaxOps) \X BOOLEAN]

LateRecords == [gen : 0..MaxOps, text : Texts]

ChatInv ==
  /\ TypeOK /\ ServerInv /\ NumbersInv /\ ClaimInv /\ OpInv
  /\ WritingInv /\ DeleteInv

-----------------------------------------------------------------------------
(* Types.                                                                  *)

LEMMA TypeOKis ==
  TypeOK <=> /\ phase \in {"up", "closing", "down", "starting"}
             /\ accepting \in BOOLEAN
             /\ lock \in {"free", "update"}
             /\ op = NoOp \/ op \in OpRecords
             /\ del \in DelRecords /\ db \in DbRecords /\ late \in LateRecords
             /\ started \in 0..MaxOps /\ trouble \in 0..MaxTrouble
             /\ obeyed \subseteq 1..MaxOps /\ lost \subseteq 1..MaxOps
  BY DEF TypeOK, OpRecords, DelRecords, DbRecords, LateRecords

LEMMA TypeOKisNext ==
  TypeOK' <=> /\ phase' \in {"up", "closing", "down", "starting"}
              /\ accepting' \in BOOLEAN
              /\ lock' \in {"free", "update"}
              /\ op' = NoOp \/ op' \in OpRecords
              /\ del' \in DelRecords /\ db' \in DbRecords /\ late' \in LateRecords
              /\ started' \in 0..MaxOps /\ trouble' \in 0..MaxTrouble
              /\ obeyed' \subseteq 1..MaxOps /\ lost' \subseteq 1..MaxOps
  BY DEF TypeOK, OpRecords, DelRecords, DbRecords, LateRecords

LEMMA NoOpIsNone ==
  /\ \A o \in OpRecords : o # NoOp /\ o.id > 0
  /\ NoOp.id = 0
<1>1. NoOp.id = 0
  BY DEF NoOp
<1>2. \A o \in OpRecords : o.id \in 1..MaxOps
  BY DEF OpRecords
<1> QED
  BY <1>1, <1>2

LEMMA Constants ==
  /\ MaxOps \in Nat /\ MaxSegments \in Nat /\ MaxTrouble \in Nat
  /\ NoText \in Texts /\ NoAnswer \in Rows /\ NoLate \in LateRecords
  /\ NoDelete \in DelRecords
  /\ NoAnswer.id = 0 /\ NoAnswer.by = 0 /\ NoAnswer.status = "none" /\ NoAnswer.turn = 0
  /\ NoAnswer.text.by = 0 /\ NoLate.gen = 0 /\ NoLate.text.by = 0 /\ NoDelete.step = "none"
<1>1. MaxOps \in Nat /\ MaxSegments \in Nat /\ MaxTrouble \in Nat
  BY ChatAssumption
<1> QED
  BY <1>1 DEF NoText, Texts, NoAnswer, Rows, NoLate, LateRecords, NoDelete, DelRecords, Terminal

LEMMA FieldTypes ==
  ASSUME NEW o \in OpRecords
  PROVE  /\ o.id \in 1..MaxOps /\ o.kind \in Kinds /\ o.rev \in Nat
         /\ o.settling \in BOOLEAN /\ o.cancelled \in BOOLEAN
         /\ o.gen \in 0..MaxOps /\ o.segments \in 0..MaxSegments
         /\ o.want \in Terminal \union {"none", "discarded"}
         /\ Text(o) \in Texts /\ Text(o).by = o.id
  BY Constants DEF OpRecords, Text, Texts

LEMMA RowTypes ==
  ASSUME NEW d \in DbRecords
  PROVE  /\ d.answer \in Rows /\ d.staged \in Rows
         /\ d.rev \in Nat /\ d.rev + 1 \in Nat /\ d.exists \in BOOLEAN
         /\ \A r \in {d.answer, d.staged} :
              /\ r.id \in 0..MaxOps /\ r.by \in 0..MaxOps /\ r.turn \in 0..MaxOps
              /\ r.text \in Texts /\ r.text.by \in 0..MaxOps
              /\ r.status \in Terminal \union {"none", "running"}
  BY DEF DbRecords, Rows, Texts

-----------------------------------------------------------------------------
(* What the transactions do to the rows.                                   *)

SameRow(r, s) == r.id = s.id /\ r.turn = s.turn /\ r.by = s.by /\ r.status = s.status

LEMMA WithTextIs ==
  ASSUME NEW d \in DbRecords, NEW gen \in 0..MaxOps, gen # 0, NEW text \in Texts
  PROVE  /\ WithText(d, gen, text) \in DbRecords
         /\ WithText(d, gen, text).exists = d.exists
         /\ WithText(d, gen, text).rev = d.rev
         /\ WithText(d, gen, text).summary = d.summary
         /\ SameRow(WithText(d, gen, text).answer, d.answer)
         /\ SameRow(WithText(d, gen, text).staged, d.staged)
         /\ WithText(d, gen, text).answer.text =
              IF d.answer.id = gen THEN text ELSE d.answer.text
         /\ WithText(d, gen, text).staged.text =
              IF d.answer.id # gen /\ d.staged.id = gen THEN text ELSE d.staged.text
         /\ WithText(d, gen, text).staged = NoAnswer <=> d.staged = NoAnswer
<1> USE DEF DbRecords, SameRow
<1>1. CASE d.answer.id = gen
  <2>1. WithText(d, gen, text) = [d EXCEPT !.answer.text = text]
    BY <1>1 DEF WithText
  <2>2. [d.answer EXCEPT !.text = text] \in Rows
    BY DEF Rows
  <2>3. SameRow([d.answer EXCEPT !.text = text], d.answer)
        /\ [d.answer EXCEPT !.text = text].text = text
    BY DEF Rows
  <2> QED
    BY <1>1, <2>1, <2>2, <2>3
<1>2. CASE d.answer.id # gen /\ d.staged.id = gen
  <2>1. WithText(d, gen, text) = [d EXCEPT !.staged.text = text]
    BY <1>2 DEF WithText
  <2>2. [d.staged EXCEPT !.text = text] \in Rows
    BY DEF Rows
  <2>3. SameRow([d.staged EXCEPT !.text = text], d.staged)
        /\ [d.staged EXCEPT !.text = text].text = text
    BY DEF Rows
  <2>4. d.staged # NoAnswer /\ [d.staged EXCEPT !.text = text] # NoAnswer
    BY <1>2, <2>3, Constants
  <2> QED
    BY <1>2, <2>1, <2>2, <2>3, <2>4
<1>3. CASE d.answer.id # gen /\ d.staged.id # gen
  <2>1. WithText(d, gen, text) = d
    BY <1>3 DEF WithText
  <2> QED
    BY <1>3, <2>1
<1> QED
  BY <1>1, <1>2, <1>3

LEMMA CompactedIs ==
  ASSUME NEW d \in DbRecords, NEW summary \in (0..MaxOps) \X BOOLEAN
  PROVE  /\ Compacted(d, summary) \in DbRecords
         /\ Compacted(d, summary).exists = d.exists
         /\ Compacted(d, summary).answer = d.answer /\ Compacted(d, summary).staged = d.staged
         /\ Compacted(d, summary).summary = summary
  BY RowTypes DEF Compacted, DbRecords

LEMMA FinishedIs ==
  ASSUME NEW d \in DbRecords, NEW status \in Terminal
  PROVE  /\ Finished(d, status) \in DbRecords
         /\ Finished(d, status).exists = d.exists
         /\ Finished(d, status).staged = d.staged /\ Finished(d, status).summary = d.summary
         /\ Finished(d, status).answer.id = d.answer.id
         /\ Finished(d, status).answer.turn = d.answer.turn
         /\ Finished(d, status).answer.by = d.answer.by
         /\ Finished(d, status).answer.text = d.answer.text
         /\ Finished(d, status).answer.status =
              IF d.answer.status = "running" THEN status ELSE d.answer.status
<1>1. CASE d.answer.status = "running"
  <2>1. Finished(d, status) = [d EXCEPT !.rev = @ + 1, !.answer.status = status]
    BY <1>1 DEF Finished
  <2>2. /\ [d.answer EXCEPT !.status = status] \in Rows
        /\ [d.answer EXCEPT !.status = status].id = d.answer.id
        /\ [d.answer EXCEPT !.status = status].turn = d.answer.turn
        /\ [d.answer EXCEPT !.status = status].by = d.answer.by
        /\ [d.answer EXCEPT !.status = status].text = d.answer.text
        /\ [d.answer EXCEPT !.status = status].status = status
    BY DEF Rows, DbRecords
  <2> QED
    BY <1>1, <2>1, <2>2, RowTypes DEF DbRecords
<1>2. CASE d.answer.status # "running"
  BY <1>2 DEF Finished
<1> QED
  BY <1>1, <1>2

LEMMA SwappedIs ==
  ASSUME NEW d \in DbRecords, NEW status \in Terminal
  PROVE  /\ Swapped(d, status) \in DbRecords
         /\ Swapped(d, status).exists = d.exists
         /\ Swapped(d, status).summary = d.summary
         /\ Swapped(d, status).staged = NoAnswer
         /\ d.staged = NoAnswer => Swapped(d, status) = d
         /\ d.staged # NoAnswer =>
              /\ Swapped(d, status).answer.id = d.staged.id
              /\ Swapped(d, status).answer.turn = d.staged.turn
              /\ Swapped(d, status).answer.by = d.staged.by
              /\ Swapped(d, status).answer.text = d.staged.text
              /\ Swapped(d, status).answer.status = status
<1>1. CASE d.staged = NoAnswer
  BY <1>1 DEF Swapped
<1>2. CASE d.staged # NoAnswer
  <2>1. Swapped(d, status) =
          [d EXCEPT !.rev = @ + 1, !.answer = [d.staged EXCEPT !.status = status],
                    !.staged = NoAnswer]
    BY <1>2 DEF Swapped
  <2>2. /\ [d.staged EXCEPT !.status = status] \in Rows
        /\ [d.staged EXCEPT !.status = status].id = d.staged.id
        /\ [d.staged EXCEPT !.status = status].turn = d.staged.turn
        /\ [d.staged EXCEPT !.status = status].by = d.staged.by
        /\ [d.staged EXCEPT !.status = status].text = d.staged.text
        /\ [d.staged EXCEPT !.status = status].status = status
    BY DEF Rows, DbRecords
  <2> QED
    BY <1>2, <2>1, <2>2, RowTypes, Constants DEF DbRecords
<1> QED
  BY <1>1, <1>2

LEMMA DiscardedIs ==
  ASSUME NEW d \in DbRecords
  PROVE  /\ Discarded(d) \in DbRecords
         /\ Discarded(d).exists = d.exists /\ Discarded(d).answer = d.answer
         /\ Discarded(d).summary = d.summary /\ Discarded(d).staged = NoAnswer
  BY Constants DEF Discarded, DbRecords

(* The row an operation begins with.                                       *)
LEMMA BegunIs ==
  ASSUME NEW d \in DbRecords, NEW o \in OpRecords, MayBegin(d, o),
         d.answer.turn <= d.answer.by, d.answer.by < o.id,
         d.answer.status # "none" => d.answer.id > 0
  PROVE  /\ Begun(d, o) \in DbRecords
         /\ Begun(d, o).exists = d.exists /\ Begun(d, o).summary = d.summary
         /\ RowOf(d, o) \in 1..MaxOps
         /\ Row(d, o) \in Rows
         /\ Row(d, o).id = RowOf(d, o) /\ Row(d, o).by = o.id /\ Row(d, o).status = "running"
         /\ Row(d, o).turn = d.answer.turn + (IF o.kind = "send" THEN 1 ELSE 0)
         /\ Row(d, o).turn <= o.id
         /\ o.kind = "regenerate" => Begun(d, o).staged = Row(d, o) /\ Begun(d, o).answer = d.answer
         /\ o.kind # "regenerate" => Begun(d, o).answer = Row(d, o) /\ Begun(d, o).staged = d.staged
<1>1. /\ d.answer.id \in 0..MaxOps /\ d.answer.by \in 0..MaxOps /\ d.answer.turn \in 0..MaxOps
      /\ o.id \in 1..MaxOps /\ MaxOps \in Nat
  BY RowTypes, FieldTypes, Constants
<1>2. RowOf(d, o) \in 1..MaxOps
  BY <1>1 DEF RowOf, MayBegin, Unfinished, Terminal
<1>3. [by |-> o.id, size |-> 0] \in Texts
  BY <1>1, Constants DEF Texts
<1> DEFINE turn == d.answer.turn + (IF o.kind = "send" THEN 1 ELSE 0)
<1>4. turn \in 0..MaxOps /\ turn <= o.id
  BY <1>1
<1> HIDE DEF turn
<1>5. /\ Row(d, o) \in Rows
      /\ Row(d, o).id = RowOf(d, o) /\ Row(d, o).by = o.id /\ Row(d, o).status = "running"
      /\ Row(d, o).turn = turn
  <2>1. Row(d, o) = [id |-> RowOf(d, o), turn |-> turn, by |-> o.id, status |-> "running",
                     text |-> [by |-> o.id, size |-> 0]]
    BY DEF Row, turn
  <2> QED
    BY <1>1, <1>2, <1>3, <1>4, <2>1 DEF Rows
<1>6. /\ Begun(d, o) \in DbRecords
      /\ Begun(d, o).exists = d.exists /\ Begun(d, o).summary = d.summary
      /\ o.kind = "regenerate" => Begun(d, o).staged = Row(d, o) /\ Begun(d, o).answer = d.answer
      /\ o.kind # "regenerate" => Begun(d, o).answer = Row(d, o) /\ Begun(d, o).staged = d.staged
  BY <1>5, RowTypes DEF Begun, DbRecords
<1> QED
  BY <1>2, <1>4, <1>5, <1>6 DEF turn

-----------------------------------------------------------------------------
(* Steps of the operation that is under way.                               *)

(* They leave the server and the deletion alone.                           *)
LEMMA OwnStep ==
  ASSUME ChatInv, op # NoOp, op' \in OpRecords, op'.id = op.id,
         UNCHANGED <<phase, lock, del, started, obeyed>>,
         accepting' \in BOOLEAN, accepting' => accepting,
         trouble' \in 0..MaxTrouble, lost' \subseteq 1..started,
         late' \in LateRecords, late'.text.by <= started, late' # NoLate => late'.gen # 0,
         db' \in DbRecords, db'.exists = db.exists,
         RowInv(db.answer)', RowInv(db.staged)', WritingInv', ClaimInv', OpInv'
  PROVE  ChatInv'
<1> USE DEF ChatInv
<1>1. op \in OpRecords /\ started \in 0..MaxOps /\ MaxOps \in Nat
  BY TypeOKis, Constants
<1>2. op' # NoOp
  BY NoOpIsNone
<1>3. TypeOK'
  <2>1. lost' \subseteq 1..MaxOps
    BY <1>1
  <2> QED
    BY <2>1, TypeOKis, TypeOKisNext
<1>4. ServerInv'
  BY DEF ServerInv
<1>5. NumbersInv'
  BY <1>1 DEF NumbersInv
<1>6. DeleteInv'
  BY <1>2 DEF DeleteInv
<1> QED
  BY <1>3, <1>4, <1>5, <1>6

(* A step that leaves the rows as they are but for their text.             *)
LEMMA RowsKept ==
  ASSUME ChatInv, op # NoOp, op' \in OpRecords, op'.id = op.id, started' = started,
         accepting' => accepting, lost \subseteq lost',
         SameRow(db'.answer, db.answer), SameRow(db'.staged, db.staged)
  PROVE  RowInv(db.answer)' /\ RowInv(db.staged)' /\ WritingInv'
<1> USE DEF ChatInv, SameRow
<1>1. RowInv(db.answer)' /\ RowInv(db.staged)'
  BY DEF NumbersInv, RowInv
<1>2. op' # NoOp
  BY NoOpIsNone
<1>3. WritingInv'
  BY <1>2 DEF WritingInv, Writing
<1> QED
  BY <1>1, <1>3

(* What the store holds of the operation, seen before and after a step that *)
(* leaves the rows as they are but for their text.                         *)
LEMMA SameOwner ==
  ASSUME op'.id = op.id, op'.kind = op.kind, op'.gen = op.gen, db'.exists = db.exists,
         SameRow(db'.answer, db.answer), SameRow(db'.staged, db.staged),
         db.staged = NoAnswer => db'.staged = NoAnswer
  PROVE  /\ OwnsAs(op.gen)' <=> OwnsAs(op.gen)
         /\ OwnsAs(RowOf(db, op))' <=> OwnsAs(RowOf(db, op))
         /\ NotBegun' <=> NotBegun
         /\ Unbegun' <=> Unbegun
         /\ Admissible(op.kind)' <=> Admissible(op.kind)
         /\ Ready' <=> Ready
         /\ op'.want = op.want => (Owned' <=> Owned)
         /\ op'.want = op.want /\ Done => Done'
  BY DEF SameRow, OwnsAs, RowOf, NotBegun, Unbegun, Ready, Admissible, Owned, Done

(* The operation moves on, whoever has claimed it.                         *)
SameOp ==
  /\ op'.id = op.id /\ op'.kind = op.kind /\ op'.gen = op.gen /\ op'.want = op.want
  /\ op'.settling = op.settling /\ op'.reason = op.reason /\ op'.cancelled = op.cancelled

SameRows ==
  /\ db' \in DbRecords /\ db'.exists = db.exists
  /\ SameRow(db'.answer, db.answer) /\ SameRow(db'.staged, db.staged)
  /\ db'.staged = NoAnswer <=> db.staged = NoAnswer

OpLeavesAlone == UNCHANGED <<phase, lock, del, started, obeyed, lost, late>>

LEMMA ClaimKept ==
  ASSUME ChatInv, op # NoOp, SameOp, obeyed' = obeyed, late' = late, accepting' => accepting,
         op'.pc \in Running => op.pc \in Running,
         op'.pc = "cancelled" => op.reason # "none",
         op'.pc = "upsert" => op.reason = "none",
         op'.pc \in {"upsert", "flush", "finish", "release"} => op.settling
  PROVE  ClaimInv'
  BY DEF ChatInv, ClaimInv, SameOp

LEMMA LateAndLost ==
  ASSUME ChatInv, OpLeavesAlone
  PROVE  /\ lost' \subseteq 1..started /\ late' \in LateRecords /\ late'.text.by <= started
         /\ late' # NoLate => late'.gen # 0
  BY TypeOKis DEF NumbersInv, ChatInv, OpLeavesAlone

(* A step of the work that leaves the rows as they are but for their text. *)
LEMMA MoveKeeps ==
  ASSUME ChatInv, op # NoOp, op' \in OpRecords, SameOp, SameRows, OpLeavesAlone,
         accepting' = accepting, trouble' \in 0..MaxTrouble,
         op.pc \in Running \/ op.pc = op'.pc \/ op'.pc = "raised",
         op'.pc \in (Running \ {"prepare"}) \union {"raised", "cancelled"}
                      \union ({op.pc} \intersect {"upsert", "flush"}),
         op'.pc = "cancelled" => op.reason # "none",
         PlaceInv'
  PROVE  ChatInv'
<1> USE DEF ChatInv
<1>1. ClaimInv'
  BY ClaimKept DEF OpLeavesAlone, Running
<1>2. RowInv(db.answer)' /\ RowInv(db.staged)' /\ WritingInv'
  BY RowsKept DEF SameOp, SameRows, OpLeavesAlone
<1>3. SettlementInv'
  <2>1. SettlementInv /\ op'.pc \notin {"finish", "release"}
    BY DEF OpInv, Running
  <2> QED
    BY <2>1 DEF SettlementInv, SameOp, SameRows
<1>4. OpInv'
  BY <1>3 DEF OpInv
<1>5. /\ lost' \subseteq 1..started /\ late' \in LateRecords /\ late'.text.by <= started
      /\ late' # NoLate => late'.gen # 0
  BY LateAndLost
<1>6. accepting' \in BOOLEAN /\ (accepting' => accepting)
  BY TypeOKis
<1> QED
  BY <1>1, <1>2, <1>4, <1>5, <1>6, OwnStep DEF SameOp, SameRows, OpLeavesAlone

(* What a move does to the record of the operation.                        *)
LEMMA PcMoved ==
  ASSUME op \in OpRecords,
         NEW pc \in (Running \union {"raised", "cancelled", "upsert", "flush", "finish", "release"}),
         op' = [op EXCEPT !.pc = pc]
  PROVE  op' \in OpRecords /\ SameOp /\ op'.pc = pc /\ op'.rev = op.rev
         /\ op'.segments = op.segments
  BY DEF OpRecords, Running, SameOp

LEMMA Raised ==
  ASSUME op \in OpRecords, NEW error \in {"plain", "unsaved"}, Raise(error)
  PROVE  op' \in OpRecords /\ SameOp /\ op'.pc = "raised" /\ op'.error = error
         /\ op'.segments = op.segments
  BY DEF OpRecords, SameOp, Raise

LEMMA Faulty ==
  ASSUME TypeOK, Fault \/ UNCHANGED trouble
  PROVE  trouble' \in 0..MaxTrouble
  BY Constants DEF TypeOK, Fault

LEMMA RowsUnchanged == ASSUME TypeOK, db' = db PROVE SameRows
  BY TypeOKis DEF SameRows, SameRow

(* The operation at one of its places.                                     *)
LEMMA Working ==
  ASSUME ChatInv, op # NoOp
  PROVE  /\ op \in OpRecords /\ db \in DbRecords /\ TypeOK /\ PlaceInv /\ SettlementInv
         /\ op.id = started /\ op.id \in 1..MaxOps
         /\ op.pc \in Running \union {"raised", "cancelled", "upsert", "flush", "finish", "release"}
<1>1. op \in OpRecords /\ db \in DbRecords
  BY TypeOKis DEF ChatInv
<1> QED
  BY <1>1, FieldTypes DEF ChatInv, OpInv, NumbersInv, OpRecords, Running

(* A failure of the work, before its completion has claimed it.            *)
LEMMA RaiseKeeps ==
  ASSUME ChatInv, op # NoOp, NEW error \in {"plain", "unsaved"},
         Raise(error), SameRows, OpLeavesAlone, accepting' = accepting,
         Fault \/ UNCHANGED trouble,
         Owned \/ (Unbegun /\ error = "plain") \/ (op.gen = 0 /\ error = "unsaved")
  PROVE  ChatInv'
<1>1. op' \in OpRecords /\ SameOp /\ op'.pc = "raised" /\ op'.error = error
  BY Raised, Working
<1>2. PlaceInv'
  <2>1. (Owned => Owned') /\ (Unbegun => Unbegun')
    BY <1>1, SameOwner DEF SameOp, SameRows
  <2> QED
    BY <1>1, <2>1 DEF PlaceInv, SameOp, Running
<1>3. trouble' \in 0..MaxTrouble
  BY Faulty DEF ChatInv
<1> QED
  BY <1>1, <1>2, <1>3, MoveKeeps

LEMMA PrepareKeeps == ASSUME ChatInv, Prepare PROVE ChatInv'
<1>1. op # NoOp /\ op.pc = "prepare" /\ db' = db /\ UNCHANGED <<accepting, trouble>>
      /\ OpLeavesAlone
  BY DEF Prepare, Works, WorkOnly, server, OpLeavesAlone
<1>2. SameRows /\ Unbegun /\ op.want = "none" /\ (op.rev = db.rev => Admissible(op.kind))
  BY <1>1, Working, RowsUnchanged DEF PlaceInv
<1>3. CASE Raise("plain")
  BY <1>1, <1>2, <1>3, RaiseKeeps DEF Running
<1>4. ASSUME db.exists, db.rev = op.rev, op.kind # "compact", NEW pc \in {"begin", "checkpoint"},
             op' = [op EXCEPT !.pc = pc]
      PROVE  ChatInv'
  <2>1. op' \in OpRecords /\ SameOp /\ op'.pc = pc
    BY <1>1, <1>4, Working, PcMoved DEF Running
  <2>2. Unbegun' /\ Ready'
    BY <1>1, <1>2, <1>4, <2>1, SameOwner DEF SameOp, SameRows, Ready
  <2>3. PlaceInv'
    BY <1>2, <2>1, <2>2 DEF PlaceInv, SameOp
  <2> QED
    BY <1>1, <1>2, <2>1, <2>3, MoveKeeps, Faulty DEF Running, ChatInv
<1>5. ASSUME op.kind = "compact", op' = [op EXCEPT !.pc = "claim"]
      PROVE  ChatInv'
  <2>1. op' \in OpRecords /\ SameOp /\ op'.pc = "claim"
    BY <1>1, <1>5, Working, PcMoved DEF Running
  <2>2. Unbegun'
    BY <1>1, <1>2, <1>5, <2>1, SameOwner DEF SameOp, SameRows
  <2>3. PlaceInv'
    BY <1>2, <1>5, <2>1, <2>2 DEF PlaceInv, SameOp
  <2> QED
    BY <1>1, <1>2, <2>1, <2>3, MoveKeeps, Faulty DEF Running, ChatInv
<1> QED
  BY <1>1, <1>3, <1>4, <1>5 DEF Prepare

LEMMA RereadKeeps == ASSUME ChatInv, Reread PROVE ChatInv'
<1>1. op # NoOp /\ op.pc = "reread" /\ db' = db /\ UNCHANGED <<accepting, trouble>>
      /\ OpLeavesAlone
  BY DEF Reread, Works, WorkOnly, server, OpLeavesAlone
<1>2. SameRows /\ Unbegun /\ Ready /\ op.want = "none"
  BY <1>1, Working, RowsUnchanged DEF PlaceInv
<1>3. CASE Raise("plain")
  BY <1>1, <1>2, <1>3, RaiseKeeps DEF Running
<1>4. CASE op' = [op EXCEPT !.pc = "begin", !.rev = db.rev]
  <2>1. op' \in OpRecords /\ SameOp /\ op'.pc = "begin"
    BY <1>1, <1>4, Working, RowTypes DEF OpRecords, SameOp
  <2>2. Unbegun' /\ Ready'
    BY <1>1, <1>2, <1>4, <2>1, SameOwner DEF SameOp, SameRows
  <2>3. PlaceInv'
    BY <1>2, <2>1, <2>2 DEF PlaceInv, SameOp
  <2> QED
    BY <1>1, <1>2, <2>1, <2>3, MoveKeeps, Faulty DEF Running, ChatInv
<1> QED
  BY <1>3, <1>4 DEF Reread

(* What streams keeps the generation it owns.                              *)
LEMMA StreamKeeps == ASSUME ChatInv, Segment \/ Flush \/ Recover \/ EndStream PROVE ChatInv'
<1>1. op # NoOp /\ op.pc = "stream" /\ UNCHANGED accepting /\ OpLeavesAlone
  BY DEF Segment, Flush, Recover, EndStream, Works, WorkOnly, server, OpLeavesAlone
<1>2. Owned /\ op \in OpRecords /\ db \in DbRecords /\ TypeOK
  BY <1>1, Working DEF PlaceInv
<1>3. trouble' \in 0..MaxTrouble
  BY <1>2, Faulty DEF Segment, Flush, Recover, EndStream
<1>4. SameRows
  <2>1. WithText(db, op.gen, Text(op)) \in DbRecords
        /\ WithText(db, op.gen, Text(op)).exists = db.exists
        /\ SameRow(WithText(db, op.gen, Text(op)).answer, db.answer)
        /\ SameRow(WithText(db, op.gen, Text(op)).staged, db.staged)
        /\ (WithText(db, op.gen, Text(op)).staged = NoAnswer <=> db.staged = NoAnswer)
    BY <1>2, WithTextIs, FieldTypes DEF Owned
  <2>2. db' \in {db, WithText(db, op.gen, Text(op))}
    BY DEF Segment, Flush, Recover, EndStream
  <2> QED
    BY <1>2, <2>1, <2>2, RowsUnchanged DEF SameRows
<1>5. CASE Raise("plain")
  BY <1>1, <1>2, <1>4, <1>5, RaiseKeeps DEF Running, Segment, Flush, Recover, EndStream
<1>6. CASE ~Raise("plain")
  <2>1. /\ op' \in OpRecords /\ SameOp
        /\ op'.pc \in {"stream", "checkpoint", "claim"}
    <3>1. CASE Segment
      <4>1. op.segments \in Nat /\ op.segments + 1 \in 0..MaxSegments
        BY <1>2, <3>1, FieldTypes, Constants DEF Segment
      <4> QED
        BY <1>1, <1>2, <3>1, <4>1 DEF Segment, OpRecords, SameOp
    <3>2. CASE Flush
      BY <1>1, <1>2, <1>6, <3>2 DEF Flush, SameOp
    <3>3. CASE Recover
      BY <1>1, <1>2, <3>3 DEF Recover, OpRecords, SameOp
    <3>4. CASE EndStream
      BY <1>1, <1>2, <1>6, <3>4 DEF EndStream, OpRecords, SameOp
    <3> QED
      BY <3>1, <3>2, <3>3, <3>4
  <2>2. Owned'
    BY <1>2, <1>4, <2>1, SameOwner DEF SameOp, SameRows
  <2>3. PlaceInv'
    BY <2>1, <2>2 DEF PlaceInv
  <2> QED
    BY <1>1, <1>3, <1>4, <2>1, <2>3, MoveKeeps DEF Running
<1> QED
  BY <1>5, <1>6

(* An automatic compaction is committed, is tried again, or fails.         *)
LEMMA CheckpointKeeps == ASSUME ChatInv, Checkpoint PROVE ChatInv'
<1> DEFINE new == Compacted(db, <<op.id, op.gen # 0>>)
<1>1. op # NoOp /\ op.pc = "checkpoint" /\ OpLeavesAlone
  BY DEF Checkpoint, OpLeavesAlone
<1>2. /\ op \in OpRecords /\ TypeOK
      /\ (Unbegun /\ Ready) \/ Owned
      /\ op.want = "none"
  BY <1>1, Working DEF PlaceInv, Owned
<1>3. db' \in {db, new}
  BY DEF Checkpoint, Attempt
<1>4. SameRows
  <2>1. <<op.id, op.gen # 0>> \in (0..MaxOps) \X BOOLEAN
    <3> DEFINE recovered == op.gen # 0
    <3>1. op.id \in 0..MaxOps /\ recovered \in BOOLEAN
      BY <1>2, FieldTypes, Constants
    <3> HIDE DEF recovered
    <3>2. <<op.id, recovered>> \in (0..MaxOps) \X BOOLEAN
      BY <3>1
    <3> QED
      BY <3>2 DEF recovered
  <2>2. new \in DbRecords /\ new.exists = db.exists /\ new.answer = db.answer
        /\ new.staged = db.staged
    BY <1>1, <2>1, Working, CompactedIs
  <2> HIDE DEF new
  <2> QED
    BY <1>2, <1>3, <2>2, RowsUnchanged DEF SameRows, SameRow
<1> HIDE DEF new
<1>5. (Owned /\ SameOp => Owned') /\ (Unbegun /\ SameOp => Unbegun') /\ (Ready /\ SameOp => Ready')
  BY <1>4, SameOwner DEF SameOp, SameRows
<1>6. CASE /\ op' = [[op EXCEPT !.pc = CASE op.cancelled -> "cancelled"
                                        [] ~op.cancelled /\ op.gen = 0 -> "reread"
                                        [] OTHER -> "stream"] EXCEPT !.retried = FALSE]
           /\ UNCHANGED <<accepting, trouble>>
  <2> DEFINE pc == CASE op.cancelled -> "cancelled"
                     [] ~op.cancelled /\ op.gen = 0 -> "reread"
                     [] OTHER -> "stream"
  <2>1. /\ pc \in {"cancelled", "reread", "stream"} /\ (pc = "cancelled" => op.cancelled)
        /\ (pc = "reread" => op.gen = 0) /\ (pc = "stream" => op.gen # 0)
    <3>1. op.cancelled \in BOOLEAN
      BY <1>2, FieldTypes
    <3> QED
      BY <3>1
  <2> HIDE DEF pc
  <2>2. op' = [[op EXCEPT !.pc = pc] EXCEPT !.retried = FALSE]
    BY <1>6 DEF pc
  <2>3. op' \in OpRecords /\ SameOp /\ op'.pc = pc
    BY <1>2, <2>1, <2>2 DEF OpRecords, SameOp
  <2>4. op'.pc = "cancelled" => op.reason # "none"
    BY <1>1, <2>1, <2>3 DEF ChatInv, ClaimInv
  <2>5. PlaceInv'
    BY <1>2, <1>5, <2>1, <2>3 DEF PlaceInv, SameOp, Owned, Unbegun
  <2>6. trouble' \in 0..MaxTrouble
    BY <1>2, <1>6, Faulty
  <2> QED
    BY <1>1, <1>4, <1>6, <2>1, <2>3, <2>4, <2>5, <2>6, MoveKeeps DEF Running
<1>7. CASE Fault /\ op' = [op EXCEPT !.retried = TRUE] /\ UNCHANGED accepting
  <2>1. op' \in OpRecords /\ SameOp /\ op'.pc = "checkpoint"
    BY <1>1, <1>2, <1>7 DEF OpRecords, SameOp
  <2>2. PlaceInv'
    BY <1>2, <1>5, <2>1 DEF PlaceInv, SameOp
  <2>3. trouble' \in 0..MaxTrouble
    BY <1>2, <1>7, Faulty
  <2> QED
    BY <1>1, <1>4, <1>7, <2>1, <2>2, <2>3, MoveKeeps DEF Running
<1>8. CASE GiveUp /\ UNCHANGED trouble
  <2>1. Raise("unsaved") /\ UNCHANGED accepting
    BY <1>2, <1>8 DEF GiveUp
  <2>2. Owned \/ op.gen = 0
    BY <1>2 DEF Unbegun
  <2> QED
    BY <1>1, <1>4, <1>8, <2>1, <2>2, RaiseKeeps DEF Running
<1> QED
  BY <1>6, <1>7, <1>8 DEF Checkpoint, Attempt

-----------------------------------------------------------------------------
(* The generation is begun.                                                *)

(* Once its transaction has committed, the generation belongs to the       *)
(* operation, whether or not anybody has been told.                        *)
LEMMA BegunOwns ==
  ASSUME ChatInv, op # NoOp, Unbegun, MayBegin(db, op), db' = Begun(db, op),
         op' \in OpRecords, op'.id = op.id, op'.kind = op.kind,
         UNCHANGED <<accepting, started, lost>>
  PROVE  /\ db' \in DbRecords /\ db'.exists = db.exists
         /\ RowOf(db, op) \in 1..MaxOps /\ RowOf(db, op)' = RowOf(db, op)
         /\ OwnsAs(RowOf(db, op))'
         /\ RowInv(db.answer)' /\ RowInv(db.staged)' /\ WritingInv'
<1>1. /\ op \in OpRecords /\ db \in DbRecords /\ op.id = started /\ op.id \in 1..MaxOps
      /\ RowInv(db.answer) /\ RowInv(db.staged) /\ NotBegun
  BY Working DEF ChatInv, NumbersInv, Unbegun
<1>2. /\ db' \in DbRecords /\ db'.exists = db.exists
      /\ RowOf(db, op) \in 1..MaxOps
      /\ Row(db, op).id = RowOf(db, op) /\ Row(db, op).by = op.id
      /\ Row(db, op).status = "running"
      /\ Row(db, op).turn = db.answer.turn + (IF op.kind = "send" THEN 1 ELSE 0)
      /\ Row(db, op).turn <= op.id
      /\ op.kind = "regenerate" => db'.staged = Row(db, op) /\ db'.answer = db.answer
      /\ op.kind # "regenerate" => db'.answer = Row(db, op) /\ db'.staged = db.staged
  BY <1>1, BegunIs DEF RowInv, NotBegun
<1>3. RowOf(db, op) <= op.id
  BY <1>1, RowTypes DEF RowOf, RowInv, NotBegun
<1>4. RowOf(db, op)' = RowOf(db, op)
  BY <1>2 DEF RowOf
<1>5. op.kind = "regenerate" => RowOf(db, op) = op.id
  BY DEF RowOf
<1>6. RowInv(db.answer)' /\ RowInv(db.staged)'
  BY <1>1, <1>2, <1>3 DEF RowInv
<1>7. OwnsAs(RowOf(db, op))'
  <2>1. CASE op.kind = "regenerate"
    <3>1. db.answer.status = "completed" /\ db.answer.turn + 0 = db.answer.turn
      BY <1>1, <2>1, RowTypes DEF MayBegin
    <3> QED
      BY <1>1, <1>2, <1>4, <1>5, <2>1, <3>1 DEF OwnsAs, NotBegun
  <2>2. CASE op.kind # "regenerate"
    BY <1>1, <1>2, <1>4, <2>2 DEF OwnsAs, NotBegun
  <2> QED
    BY <2>1, <2>2
<1>8. WritingInv'
  <2>1. op' # NoOp
    BY NoOpIsNone
  <2> QED
    BY <1>2, <2>1 DEF ChatInv, WritingInv, Writing
<1> QED
  BY <1>2, <1>4, <1>6, <1>7, <1>8

(* The operation takes the generation over.                                *)
LEMMA AdoptKeeps ==
  ASSUME ChatInv, op # NoOp, op.pc \in {"begin", "reconcile"}, Adopt,
         RowOf(db, op) \in 1..MaxOps, RowOf(db, op)' = RowOf(db, op), OwnsAs(RowOf(db, op))',
         OpLeavesAlone, UNCHANGED accepting, Fault \/ UNCHANGED trouble,
         db' \in DbRecords, db'.exists = db.exists, db.exists,
         RowInv(db.answer)', RowInv(db.staged)', WritingInv'
  PROVE  ChatInv'
<1>1. /\ op \in OpRecords /\ TypeOK /\ op.want = "none" /\ SettlementInv
      /\ op.kind # "compact" /\ op.id = started
  BY Working DEF PlaceInv, Ready
<1>2. /\ op' \in OpRecords /\ op'.id = op.id /\ op'.kind = op.kind /\ op'.want = op.want
      /\ op'.settling = op.settling /\ op'.reason = op.reason /\ op'.cancelled = op.cancelled
      /\ op'.gen = RowOf(db, op)
      /\ op'.pc \in {"cancelled", "stream"} /\ (op'.pc = "cancelled" => op.cancelled)
  <2> DEFINE pc == IF op.cancelled THEN "cancelled" ELSE "stream"
             gen == RowOf(db, op)
  <2>1. op' = [op EXCEPT !.gen = gen, !.pc = pc]
    BY DEF Adopt
  <2>2. gen \in 0..MaxOps /\ pc \in {"cancelled", "stream"} /\ (pc = "cancelled" => op.cancelled)
    BY Constants
  <2> HIDE DEF pc, gen
  <2>3. /\ op' \in OpRecords /\ op'.id = op.id /\ op'.kind = op.kind /\ op'.want = op.want
        /\ op'.settling = op.settling /\ op'.reason = op.reason /\ op'.cancelled = op.cancelled
        /\ op'.gen = gen /\ op'.pc = pc
    BY <1>1, <2>1, <2>2 DEF OpRecords
  <2> QED
    BY <2>2, <2>3 DEF gen
<1>3. Owned'
  BY <1>1, <1>2 DEF Owned
<1>4. PlaceInv'
  BY <1>2, <1>3 DEF PlaceInv, Owned
<1>5. SettlementInv'
  BY <1>1, <1>2 DEF SettlementInv
<1>6. ClaimInv'
  BY <1>1, <1>2 DEF ChatInv, ClaimInv, Running, OpLeavesAlone
<1>7. OpInv'
  BY <1>4, <1>5 DEF OpInv
<1>8. /\ lost' \subseteq 1..started /\ late' \in LateRecords /\ late'.text.by <= started
      /\ late' # NoLate => late'.gen # 0
  BY LateAndLost
<1>9. trouble' \in 0..MaxTrouble /\ accepting' \in BOOLEAN
  BY <1>1, Faulty, TypeOKis
<1> QED
  BY <1>2, <1>6, <1>7, <1>8, <1>9, OwnStep DEF OpLeavesAlone

LEMMA BeginKeeps == ASSUME ChatInv, Begin PROVE ChatInv'
<1>1. op # NoOp /\ op.pc = "begin" /\ OpLeavesAlone /\ UNCHANGED accepting
  BY DEF Begin, WorkOnly, server, OpLeavesAlone
<1>2. op \in OpRecords /\ db \in DbRecords /\ TypeOK /\ Unbegun /\ Ready /\ op.want = "none"
  BY <1>1, Working DEF PlaceInv
<1>3. CASE MayBegin(db, op) /\ db' = Begun(db, op) /\ Adopt /\ UNCHANGED trouble
  <2>1. op' \in OpRecords /\ op'.id = op.id /\ op'.kind = op.kind
    <3> DEFINE pc == IF op.cancelled THEN "cancelled" ELSE "stream"
               gen == RowOf(db, op)
    <3>1. gen \in 0..MaxOps
      BY <1>2, RowTypes, FieldTypes, Constants DEF RowOf
    <3>2. op' = [op EXCEPT !.gen = gen, !.pc = pc] /\ pc \in {"cancelled", "stream"}
      BY <1>3 DEF Adopt
    <3> HIDE DEF pc, gen
    <3> QED
      BY <1>2, <3>1, <3>2 DEF OpRecords
  <2>2. UNCHANGED <<accepting, started, lost>>
    BY <1>1 DEF OpLeavesAlone
  <2>3. /\ db' \in DbRecords /\ db'.exists = db.exists
        /\ RowOf(db, op) \in 1..MaxOps /\ RowOf(db, op)' = RowOf(db, op)
        /\ OwnsAs(RowOf(db, op))'
        /\ RowInv(db.answer)' /\ RowInv(db.staged)' /\ WritingInv'
    BY <1>1, <1>2, <1>3, <2>1, <2>2, BegunOwns
  <2> QED
    BY <1>1, <1>2, <1>3, <2>3, AdoptKeeps DEF Ready
<1>4. CASE ~MayBegin(db, op) /\ Raise("plain") /\ UNCHANGED <<db, trouble>>
  BY <1>1, <1>2, <1>4, RaiseKeeps, RowsUnchanged
<1>5. CASE /\ Fault /\ op' = [op EXCEPT !.pc = "reconcile"]
           /\ db' \in {db} \union (IF MayBegin(db, op) THEN {Begun(db, op)} ELSE {})
  <2>1. op' \in OpRecords /\ SameOp /\ op'.pc = "reconcile"
    BY <1>2, <1>5, PcMoved DEF Running
  <2>2. trouble' \in 0..MaxTrouble
    BY <1>2, <1>5, Faulty
  <2>3. CASE db' = db
    <3>1. SameRows
      BY <1>2, <2>3, RowsUnchanged
    <3>2. NotBegun' /\ Ready'
      BY <1>2, <2>1, <3>1, SameOwner DEF SameOp, SameRows, Unbegun
    <3>3. PlaceInv'
      BY <1>2, <2>1, <3>2 DEF PlaceInv, SameOp, Unbegun, Ready
    <3> QED
      BY <1>1, <2>1, <2>2, <3>1, <3>3, MoveKeeps DEF Running
  <2>4. CASE MayBegin(db, op) /\ db' = Begun(db, op)
    <3>1. UNCHANGED <<accepting, started, lost>> /\ op'.id = op.id /\ op'.kind = op.kind
      BY <1>1, <2>1 DEF OpLeavesAlone, SameOp
    <3>2. /\ db' \in DbRecords /\ db'.exists = db.exists
          /\ RowOf(db, op)' = RowOf(db, op) /\ OwnsAs(RowOf(db, op))'
          /\ RowInv(db.answer)' /\ RowInv(db.staged)' /\ WritingInv'
      BY <1>1, <1>2, <2>1, <2>4, <3>1, BegunOwns
    <3>3. PlaceInv'
      BY <1>2, <2>1, <3>2 DEF PlaceInv, SameOp, Ready, Unbegun
    <3>4. SettlementInv'
      BY <1>1, <1>2, <2>1, <3>2, Working DEF SettlementInv, SameOp, Ready, Unbegun
    <3>5. ClaimInv'
      BY <1>1, <2>1, ClaimKept DEF OpLeavesAlone, Running
    <3>6. OpInv'
      BY <3>3, <3>4 DEF OpInv
    <3>7. /\ lost' \subseteq 1..started /\ late' \in LateRecords /\ late'.text.by <= started
          /\ late' # NoLate => late'.gen # 0
      BY <1>1, LateAndLost
    <3>8. accepting' \in BOOLEAN
      BY <1>1, <1>2, TypeOKis
    <3> QED
      BY <1>1, <2>1, <2>2, <3>1, <3>2, <3>5, <3>6, <3>7, <3>8, OwnStep DEF OpLeavesAlone
  <2> QED
    BY <1>5, <2>3, <2>4
<1> QED
  BY <1>3, <1>4, <1>5 DEF Begin

LEMMA ReconcileKeeps == ASSUME ChatInv, Reconcile PROVE ChatInv'
<1>1. /\ op # NoOp /\ op.pc = "reconcile" /\ OpLeavesAlone /\ UNCHANGED accepting
      /\ db' = db /\ UNCHANGED trouble
  BY DEF Reconcile, WorkOnly, server, OpLeavesAlone
<1>2. /\ op \in OpRecords /\ db \in DbRecords /\ TypeOK /\ SameRows
      /\ op.gen = 0 /\ db.exists /\ op.kind # "compact" /\ op.want = "none"
      /\ (NotBegun /\ Ready) \/ OwnsAs(RowOf(db, op))
      /\ RowInv(db.answer) /\ RowInv(db.staged)
      /\ op.id \in 1..MaxOps
  BY <1>1, Working, RowsUnchanged DEF PlaceInv, ChatInv, NumbersInv
<1>3. /\ db.answer.id \in Nat /\ db.answer.by \in Nat /\ db.staged.id \in Nat
      /\ db.staged.by \in Nat /\ MaxOps \in Nat
      /\ db.answer.id \in 0..MaxOps /\ op.kind \in Kinds
  BY <1>2, RowTypes, FieldTypes, Constants
<1>4. HasBegun(db, op) <=> OwnsAs(RowOf(db, op))
  <2>1. ASSUME NotBegun, Ready PROVE ~HasBegun(db, op)
    BY <1>2, <1>3, <2>1 DEF HasBegun, RowOf, NotBegun, Ready, RowInv, Admissible, Unfinished,
                        Terminal
  <2>2. ASSUME OwnsAs(RowOf(db, op)) PROVE HasBegun(db, op)
    BY <2>2 DEF HasBegun, RowOf, OwnsAs
  <2>3. ASSUME NotBegun, OwnsAs(RowOf(db, op)) PROVE FALSE
    BY <1>2, <1>3, <2>3 DEF NotBegun, OwnsAs
  <2> QED
    BY <1>2, <2>1, <2>2, <2>3
<1>5. CASE HasBegun(db, op) /\ Adopt
  <2>1. OwnsAs(RowOf(db, op)) /\ RowOf(db, op) \in 1..MaxOps
    BY <1>2, <1>3, <1>4, <1>5 DEF OwnsAs, RowOf, RowInv
  <2>2. op' \in OpRecords /\ op'.id = op.id /\ op'.kind = op.kind
    <3> DEFINE pc == IF op.cancelled THEN "cancelled" ELSE "stream"
               gen == RowOf(db, op)
    <3>1. gen \in 0..MaxOps
      BY <1>3, <2>1
    <3>2. op' = [op EXCEPT !.gen = gen, !.pc = pc] /\ pc \in {"cancelled", "stream"}
      BY <1>5 DEF Adopt
    <3> HIDE DEF pc, gen
    <3> QED
      BY <1>2, <3>1, <3>2 DEF OpRecords
  <2>3. RowOf(db, op)' = RowOf(db, op) /\ OwnsAs(RowOf(db, op))'
    BY <1>1, <2>1, <2>2 DEF OwnsAs, RowOf
  <2>4. RowInv(db.answer)' /\ RowInv(db.staged)' /\ WritingInv'
    BY <1>1, <1>2, <2>2, RowsKept DEF SameRows, OpLeavesAlone
  <2> QED
    BY <1>1, <1>2, <1>5, <2>1, <2>3, <2>4, AdoptKeeps
<1>6. CASE ~HasBegun(db, op) /\ Raise("plain")
  <2>1. Unbegun
    BY <1>2, <1>4, <1>6 DEF Unbegun
  <2> QED
    BY <1>1, <1>2, <1>6, <2>1, RaiseKeeps
<1>7. CASE Raise("unsaved")
  BY <1>1, <1>2, <1>7, RaiseKeeps
<1> QED
  BY <1>5, <1>6, <1>7 DEF Reconcile

-----------------------------------------------------------------------------
(* The operation is claimed and settled.                                   *)

LEMMA ClaimKeeps == ASSUME ChatInv, Claim PROVE ChatInv'
<1>1. /\ op # NoOp /\ op.pc = "claim" /\ ~op.cancelled /\ OpLeavesAlone
      /\ UNCHANGED accepting /\ db' = db /\ UNCHANGED trouble
  BY DEF Claim, Works, WorkOnly, server, OpLeavesAlone
<1>2. /\ op \in OpRecords /\ TypeOK /\ SameRows /\ SettlementInv
      /\ Owned \/ (Unbegun /\ op.kind = "compact")
  BY <1>1, Working, RowsUnchanged DEF PlaceInv
<1>3. /\ op' \in OpRecords /\ op'.id = op.id /\ op'.kind = op.kind /\ op'.gen = op.gen
      /\ op'.settling = TRUE /\ op'.want = "completed"
      /\ op'.reason = op.reason /\ op'.cancelled = op.cancelled
      /\ op'.pc = IF op.kind = "compact" THEN "upsert" ELSE "flush"
  <2> DEFINE pc == IF op.kind = "compact" THEN "upsert" ELSE "flush"
  <2>1. op' = [op EXCEPT !.settling = TRUE, !.want = "completed", !.pc = pc]
        /\ pc \in {"upsert", "flush"}
    BY DEF Claim
  <2> HIDE DEF pc
  <2>2. /\ op' \in OpRecords /\ op'.id = op.id /\ op'.kind = op.kind /\ op'.gen = op.gen
        /\ op'.settling = TRUE /\ op'.want = "completed"
        /\ op'.reason = op.reason /\ op'.cancelled = op.cancelled /\ op'.pc = pc
    BY <1>2, <2>1 DEF OpRecords, Terminal
  <2> QED
    BY <2>2 DEF pc
<1>4. /\ OwnsAs(op.gen)' <=> OwnsAs(op.gen)
      /\ Unbegun' <=> Unbegun
  BY <1>2, <1>3, SameOwner DEF SameRows
<1>5. PlaceInv'
  BY <1>2, <1>3, <1>4 DEF PlaceInv, SettlementInv, Owned, Unbegun, Terminal
<1>6. SettlementInv'
  BY <1>1, <1>2, <1>3 DEF SettlementInv
<1>7. ClaimInv'
  BY <1>1, <1>3 DEF ClaimInv, ChatInv, Running, OpLeavesAlone
<1>8. OpInv'
  BY <1>5, <1>6 DEF OpInv
<1>9. RowInv(db.answer)' /\ RowInv(db.staged)' /\ WritingInv'
  BY <1>1, <1>2, <1>3, RowsKept DEF SameRows, OpLeavesAlone
<1>10. /\ lost' \subseteq 1..started /\ late' \in LateRecords /\ late'.text.by <= started
       /\ late' # NoLate => late'.gen # 0
  BY <1>1, LateAndLost
<1>11. trouble' \in 0..MaxTrouble /\ accepting' \in BOOLEAN
  BY <1>1, <1>2, Faulty, TypeOKis
<1> QED
  BY <1>1, <1>2, <1>3, <1>7, <1>8, <1>9, <1>10, <1>11, OwnStep DEF OpLeavesAlone, SameRows

(* The operation leaves its settlement: its terminal event is staged, or   *)
(* the service gives up and closes.                                        *)
LEMMA ReleasedKeeps ==
  ASSUME ChatInv, op # NoOp, op.settling, op' \in OpRecords, SameOp, op'.pc = "release",
         OpLeavesAlone, accepting' \in BOOLEAN, accepting' => accepting,
         trouble' \in 0..MaxTrouble, db' \in DbRecords, db'.exists = db.exists,
         RowInv(db.answer)', RowInv(db.staged)', WritingInv',
         PlaceInv', SettlementInv'
  PROVE  ChatInv'
<1>1. ClaimInv'
  BY ClaimKept DEF OpLeavesAlone, Running
<1>2. /\ lost' \subseteq 1..started /\ late' \in LateRecords /\ late'.text.by <= started
      /\ late' # NoLate => late'.gen # 0
  BY LateAndLost
<1>3. OpInv'
  BY DEF OpInv
<1> QED
  BY <1>1, <1>2, <1>3, OwnStep DEF OpLeavesAlone, SameOp

LEMMA GaveUp ==
  ASSUME ChatInv, op # NoOp, op.settling, GiveUp, op.want \notin {"none", "completed"},
         OpLeavesAlone
  PROVE  /\ op' \in OpRecords /\ SameOp /\ op'.pc = "release"
         /\ op'.terminal \in {"none", "storage"} /\ ~accepting' /\ accepting' \in BOOLEAN
<1>1. op \in OpRecords /\ accepting \in BOOLEAN
  BY Working, TypeOKis
<1>2. op.reason = "interrupted" => ~accepting
  BY DEF ChatInv, ClaimInv
<1>3. ~accepting' /\ accepting' \in BOOLEAN
  BY <1>1, <1>2 DEF GiveUp
<1> DEFINE error == IF op.reason = "deleted" THEN "fatal" ELSE op.error
           terminal == IF op.reason \in {"deleted", "interrupted"} THEN "none" ELSE "storage"
<1>4. op' = [op EXCEPT !.pc = "release", !.error = error, !.terminal = terminal]
  BY DEF GiveUp
<1>5. terminal \in {"none", "storage"} /\ error \in {"none", "plain", "unsaved", "fatal"}
  BY <1>1 DEF OpRecords
<1> HIDE DEF error, terminal
<1>6. op' \in OpRecords /\ SameOp /\ op'.pc = "release" /\ op'.terminal = terminal
  BY <1>1, <1>4, <1>5 DEF OpRecords, SameOp
<1> QED
  BY <1>3, <1>5, <1>6

LEMMA UpsertKeeps == ASSUME ChatInv, Upsert PROVE ChatInv'
<1> DEFINE summary == <<op.id, FALSE>>
           new == Compacted(db, summary)
<1>1. op # NoOp /\ op.pc = "upsert" /\ OpLeavesAlone
  BY DEF Upsert, OpLeavesAlone
<1>2. /\ op \in OpRecords /\ TypeOK /\ Unbegun /\ op.kind = "compact"
      /\ op.want = "completed" /\ SettlementInv /\ op.settling
  BY <1>1, Working DEF PlaceInv, ChatInv, ClaimInv
<1>3. db' \in {db, new}
  BY DEF Upsert, Attempt
<1>4. summary \in (0..MaxOps) \X BOOLEAN /\ summary[1] = op.id
  <2>1. op.id \in 0..MaxOps
    BY <1>2, FieldTypes, Constants
  <2> QED
    BY <2>1 DEF summary
<1> HIDE DEF summary
<1>5. /\ new \in DbRecords /\ new.exists = db.exists /\ new.answer = db.answer
      /\ new.staged = db.staged /\ new.summary = summary
  BY <1>1, <1>4, Working, CompactedIs
<1> HIDE DEF new
<1>6. SameRows
  BY <1>2, <1>3, <1>5, RowsUnchanged DEF SameRows, SameRow
<1>7. SameOp => Unbegun' /\ NotBegun'
  BY <1>2, <1>6, SameOwner DEF SameOp, SameRows, Unbegun
<1>8. CASE /\ db' = new /\ UNCHANGED <<accepting, trouble>>
           /\ op' = [[op EXCEPT !.pc = "release", !.terminal = "completed"] EXCEPT !.retried = FALSE]
  <2>1. op' \in OpRecords /\ SameOp /\ op'.pc = "release" /\ op'.terminal = "completed"
    BY <1>2, <1>8 DEF OpRecords, SameOp
  <2>2. PlaceInv'
    BY <1>2, <1>7, <2>1 DEF PlaceInv, SameOp, Unbegun
  <2>3. SettlementInv'
    BY <1>2, <1>4, <1>5, <1>8, <2>1 DEF SettlementInv, SameOp, Unbegun
  <2>4. RowInv(db.answer)' /\ RowInv(db.staged)' /\ WritingInv'
    BY <1>1, <1>6, <1>8, <2>1, RowsKept DEF SameRows, OpLeavesAlone, SameOp
  <2>5. trouble' \in 0..MaxTrouble /\ accepting' \in BOOLEAN /\ (accepting' => accepting)
    BY <1>2, <1>8, Faulty, TypeOKis
  <2> QED
    BY <1>1, <1>2, <1>6, <2>1, <2>2, <2>3, <2>4, <2>5, ReleasedKeeps DEF SameRows
<1>9. CASE Fault /\ op' = [op EXCEPT !.retried = TRUE] /\ UNCHANGED accepting
  <2>1. op' \in OpRecords /\ SameOp /\ op'.pc = "upsert"
    BY <1>1, <1>2, <1>9 DEF OpRecords, SameOp
  <2>2. PlaceInv'
    BY <1>2, <1>7, <2>1 DEF PlaceInv, SameOp
  <2>3. trouble' \in 0..MaxTrouble
    BY <1>2, <1>9, Faulty
  <2> QED
    BY <1>1, <1>6, <1>9, <2>1, <2>2, <2>3, MoveKeeps DEF Running
<1>10. CASE GiveUp /\ UNCHANGED trouble
  <2>1. Raise("unsaved") /\ UNCHANGED accepting
    BY <1>2, <1>10 DEF GiveUp
  <2> QED
    BY <1>1, <1>2, <1>6, <1>10, <2>1, RaiseKeeps DEF Unbegun
<1> QED
  BY <1>8, <1>9, <1>10 DEF Upsert, Attempt, new, summary

-----------------------------------------------------------------------------
(* Steps that leave the operation where it is.                             *)

SamePlace ==
  /\ op' \in OpRecords /\ op'.id = op.id /\ op'.kind = op.kind /\ op'.gen = op.gen
  /\ op'.want = op.want /\ op'.pc = op.pc /\ op'.rev = op.rev /\ op'.error = op.error
  /\ op'.terminal = op.terminal /\ op'.segments = op.segments

(* What the store knows of the operation is not disturbed by a step that   *)
(* changes the revision, or the text of an operation that was cancelled.   *)
LEMMA PlaceKept ==
  ASSUME ChatInv, op # NoOp, SamePlace, SameRows, db'.rev \in {db.rev, db.rev + 1},
         accepting' => accepting, lost \subseteq lost',
         db'.summary = db.summary,
         op.want \in {"completed", "failed"} =>
           (TextOf(db.answer) => TextOf(db.answer)') /\ (TextOf(db.staged) => TextOf(db.staged)')
  PROVE  OpInv'
<1>1. /\ PlaceInv /\ SettlementInv /\ db.rev \in Nat /\ op.rev \in Nat
  BY Working, RowTypes, FieldTypes
<1>2. /\ OwnsAs(op.gen)' <=> OwnsAs(op.gen)
      /\ OwnsAs(RowOf(db, op))' <=> OwnsAs(RowOf(db, op))
      /\ NotBegun' <=> NotBegun
      /\ Unbegun' <=> Unbegun
      /\ Admissible(op.kind)' <=> Admissible(op.kind)
      /\ Ready' <=> Ready
      /\ Owned' <=> Owned
      /\ Done => Done'
  BY SameOwner DEF SamePlace, SameRows
<1>3. PlaceInv'
  BY <1>1, <1>2 DEF PlaceInv, SamePlace, SameRows
<1>4. SettlementInv'
  BY <1>1, <1>2 DEF SettlementInv, SamePlace, SameRows
<1> QED
  BY <1>3, <1>4 DEF OpInv

LEMMA StaysPut == ASSUME ChatInv, op # NoOp, op' = op PROVE SamePlace
  BY Working DEF SamePlace

LEMMA DeliverKeeps == ASSUME ChatInv, Deliver PROVE ChatInv'
<1>1. /\ op # NoOp /\ op.cancelled /\ op.pc \in {"prepare", "reread", "stream", "claim"}
      /\ op' = [op EXCEPT !.pc = "cancelled"] /\ db' = db
      /\ UNCHANGED <<phase, accepting, lock, del, started, obeyed, lost, trouble>>
  BY DEF Deliver, server
<1>2. /\ op \in OpRecords /\ TypeOK /\ SameRows /\ SettlementInv /\ op.id = started
      /\ op.want = "none" /\ (Owned \/ Unbegun) /\ (op.pc = "stream" => Owned)
  BY <1>1, Working, RowsUnchanged DEF PlaceInv, Owned
<1>3. op.reason # "none" /\ op.settling
  BY <1>1 DEF ChatInv, ClaimInv
<1>4. op' \in OpRecords /\ SameOp /\ op'.pc = "cancelled"
  BY <1>1, <1>2, PcMoved DEF Running
<1>5. /\ late' \in LateRecords /\ late'.text.by <= started /\ (late' # NoLate => late'.gen # 0)
  <2>1. late \in LateRecords /\ late.text.by <= started /\ (late # NoLate => late.gen # 0)
    BY <1>2, TypeOKis DEF ChatInv, NumbersInv
  <2>2. CASE late' = late
    BY <2>1, <2>2
  <2>3. CASE op.pc = "stream" /\ late' = [gen |-> op.gen, text |-> Text(op)]
    <3>1. Text(op) \in Texts /\ Text(op).by = op.id /\ op.gen \in 0..MaxOps /\ op.gen # 0
          /\ started \in Nat
      BY <1>2, <2>3, FieldTypes, TypeOKis, Constants DEF Owned
    <3> QED
      BY <1>2, <2>3, <3>1 DEF LateRecords
  <2> QED
    BY <2>2, <2>3 DEF Deliver
<1>6. PlaceInv'
  <2>1. (Owned' <=> Owned) /\ (Unbegun' <=> Unbegun)
    BY <1>2, <1>4, SameOwner DEF SameOp, SameRows
  <2> QED
    BY <1>2, <1>4, <2>1 DEF PlaceInv, SameOp
<1>7. SettlementInv'
  BY <1>2, <1>4 DEF SettlementInv, SameOp, SameRows
<1>8. ClaimInv'
  BY <1>1, <1>3, <1>4 DEF ChatInv, ClaimInv, Running, SameOp
<1>9. RowInv(db.answer)' /\ RowInv(db.staged)' /\ WritingInv'
  BY <1>1, <1>2, <1>4, RowsKept DEF SameRows, SameOp
<1>10. OpInv'
  BY <1>6, <1>7 DEF OpInv
<1>11. /\ lost' \subseteq 1..started /\ trouble' \in 0..MaxTrouble /\ accepting' \in BOOLEAN
       /\ accepting' => accepting
  BY <1>1, TypeOKis DEF ChatInv, NumbersInv
<1> QED
  BY <1>1, <1>2, <1>4, <1>5, <1>8, <1>9, <1>10, <1>11, OwnStep DEF SameOp, SameRows

(* A late flush lands on the rows of an operation that has been cancelled, *)
(* or of one that is over.                                                 *)
LEMMA LandKeeps == ASSUME ChatInv, Land PROVE ChatInv'
<1>1. /\ late # NoLate /\ db' = WithText(db, late.gen, late.text) /\ late' = NoLate /\ op' = op
      /\ UNCHANGED <<phase, accepting, lock, obeyed, lost, del, started, trouble>>
  BY DEF Land, server
<1>2. /\ late \in LateRecords /\ late.gen \in 0..MaxOps /\ late.gen # 0 /\ late.text \in Texts
      /\ db \in DbRecords /\ started \in 0..MaxOps
  BY <1>1, TypeOKis DEF ChatInv, NumbersInv, LateRecords
<1>3. /\ SameRows /\ db'.rev = db.rev /\ db'.summary = db.summary
      /\ db'.answer.text \in {db.answer.text, late.text}
      /\ db'.staged.text \in {db.staged.text, late.text}
  BY <1>1, <1>2, WithTextIs DEF SameRows
<1>4. TypeOK'
  BY <1>1, <1>3, TypeOKis, TypeOKisNext, Constants DEF SameRows, ChatInv
<1>5. ServerInv'
  BY <1>1 DEF ChatInv, ServerInv
<1>6. RowInv(db.answer)' /\ RowInv(db.staged)'
  BY <1>1, <1>3 DEF ChatInv, NumbersInv, RowInv, SameRows, SameRow
<1>7. NumbersInv'
  <2>1. 0 <= started
    BY <1>2, Constants
  <2> QED
    BY <1>1, <1>6, <2>1, Constants DEF ChatInv, NumbersInv
<1>8. ClaimInv'
  <2>1. op # NoOp => late'.text.by # op.id
    BY <1>1, Working, Constants
  <2> QED
    BY <1>1, <2>1 DEF ChatInv, ClaimInv
<1>9. OpInv'
  <2>1. CASE op # NoOp
    <3>1. op.want \in {"completed", "failed"} => late.text.by # op.id
      BY <2>1 DEF ChatInv, ClaimInv
    <3>2. op.want \in {"completed", "failed"} =>
            (TextOf(db.answer) => TextOf(db.answer)') /\ (TextOf(db.staged) => TextOf(db.staged)')
      BY <1>1, <1>3, <3>1 DEF TextOf
    <3> QED
      BY <1>1, <1>3, <2>1, <3>2, StaysPut, PlaceKept
  <2>2. CASE op = NoOp
    BY <1>1, <2>2 DEF OpInv
  <2> QED
    BY <2>1, <2>2
<1>10. WritingInv'
  BY <1>1, <1>3 DEF ChatInv, WritingInv, Writing, SameRows, SameRow
<1>11. DeleteInv'
  BY <1>1, <1>3 DEF ChatInv, DeleteInv, SameRows
<1> QED
  BY <1>4, <1>5, <1>7, <1>8, <1>9, <1>10, <1>11 DEF ChatInv

-----------------------------------------------------------------------------
(* The settlement.                                                         *)

(* The supervisor takes over: what it has settled the operation as.        *)
LEMMA SettleKeeps ==
  ASSUME ChatInv, op # NoOp, op.pc \in {"raised", "cancelled"},
         NEW want \in {"discarded", "stopped", "interrupted", "failed"}, Settle(want),
         op.gen # 0, OwnsAs(op.gen),
         want = "discarded" <=> op.kind = "regenerate" /\ want # "failed",
         want = "failed" => op.reason = "none",
         OpLeavesAlone, UNCHANGED <<accepting, db, trouble>>
  PROVE  ChatInv'
<1>1. op \in OpRecords /\ TypeOK /\ SameRows /\ SettlementInv
  BY Working, RowsUnchanged
<1>2. /\ op' \in OpRecords /\ op'.id = op.id /\ op'.kind = op.kind /\ op'.gen = op.gen
      /\ op'.settling = TRUE /\ op'.want = want
      /\ op'.reason = op.reason /\ op'.cancelled = op.cancelled
      /\ op'.pc = IF want = "discarded" THEN "finish" ELSE "flush"
  <2> DEFINE pc == IF want = "discarded" THEN "finish" ELSE "flush"
  <2>1. op' = [op EXCEPT !.settling = TRUE, !.want = want, !.pc = pc]
        /\ pc \in {"finish", "flush"}
    BY DEF Settle
  <2> HIDE DEF pc
  <2>2. /\ op' \in OpRecords /\ op'.id = op.id /\ op'.kind = op.kind /\ op'.gen = op.gen
        /\ op'.settling = TRUE /\ op'.want = want
        /\ op'.reason = op.reason /\ op'.cancelled = op.cancelled /\ op'.pc = pc
    BY <1>1, <2>1 DEF OpRecords, Terminal
  <2> QED
    BY <2>2 DEF pc
<1>3. OwnsAs(op.gen)'
  BY <1>1, <1>2, SameOwner DEF SameRows
<1>4. PlaceInv'
  BY <1>2, <1>3 DEF PlaceInv, Terminal
<1>5. SettlementInv'
  BY <1>1, <1>2 DEF SettlementInv, SameRows
<1>6. OpInv'
  BY <1>4, <1>5 DEF OpInv
<1>7. ClaimInv'
  BY <1>2 DEF ChatInv, ClaimInv, Running, OpLeavesAlone
<1>8. RowInv(db.answer)' /\ RowInv(db.staged)' /\ WritingInv'
  BY <1>1, <1>2, RowsKept DEF SameRows, OpLeavesAlone
<1>9. /\ lost' \subseteq 1..started /\ late' \in LateRecords /\ late'.text.by <= started
      /\ late' # NoLate => late'.gen # 0
  BY LateAndLost
<1>10. trouble' \in 0..MaxTrouble /\ accepting' \in BOOLEAN
  BY <1>1, Faulty, TypeOKis
<1> QED
  BY <1>1, <1>2, <1>6, <1>7, <1>8, <1>9, <1>10, OwnStep DEF OpLeavesAlone, SameRows

(* It is over without a settlement, or the service closes.                 *)
LEMMA EndKeeps ==
  ASSUME ChatInv, op # NoOp, op.pc \in {"raised", "cancelled"},
         NEW terminal \in {"none", "stopped", "failed", "storage"}, End(terminal),
         \/ op.gen = 0 /\ (NotBegun \/ op.id \in lost' \/ ~accepting')
         \/ /\ op.gen # 0 /\ terminal = "storage" /\ ~accepting'
            /\ OwnsAs(op.gen) \/ Done,
         UNCHANGED <<phase, lock, del, started, obeyed, late, db, trouble>>,
         accepting' \in BOOLEAN, accepting' => accepting,
         lost' \in {lost, lost \union {op.id}}
  PROVE  ChatInv'
<1>1. op \in OpRecords /\ TypeOK /\ SameRows /\ SettlementInv /\ op.id = started
      /\ op.id \in 1..MaxOps
  BY Working, RowsUnchanged
<1>2. /\ op' \in OpRecords /\ op'.id = op.id /\ op'.kind = op.kind /\ op'.gen = op.gen
      /\ op'.settling = TRUE /\ op'.want = op.want /\ op'.terminal = terminal
      /\ op'.reason = op.reason /\ op'.cancelled = op.cancelled /\ op'.pc = "release"
  BY <1>1 DEF End, OpRecords
<1>3. /\ OwnsAs(op.gen)' <=> OwnsAs(op.gen)
      /\ NotBegun' <=> NotBegun
      /\ Done => Done'
  BY <1>1, <1>2, SameOwner DEF SameRows
<1>4. PlaceInv'
  BY <1>2, <1>3 DEF PlaceInv
<1>5. SettlementInv'
  BY <1>1, <1>2 DEF SettlementInv, SameRows
<1>6. OpInv'
  BY <1>4, <1>5 DEF OpInv
<1>7. ClaimInv'
  BY <1>2 DEF ChatInv, ClaimInv, Running
<1>8. RowInv(db.answer)' /\ RowInv(db.staged)' /\ WritingInv'
  BY <1>1, <1>2, RowsKept DEF SameRows
<1>9. /\ lost' \subseteq 1..started /\ late' \in LateRecords /\ late'.text.by <= started
      /\ late' # NoLate => late'.gen # 0
  <2>1. lost \subseteq 1..started /\ started \in 1..started
    BY <1>1 DEF ChatInv, NumbersInv
  <2> QED
    BY <1>1, <2>1, TypeOKis DEF ChatInv, NumbersInv
<1>10. trouble' \in 0..MaxTrouble
  BY <1>1, TypeOKis
<1> QED
  BY <1>1, <1>2, <1>6, <1>7, <1>8, <1>9, <1>10, OwnStep DEF SameRows

LEMMA SuperviseKeeps == ASSUME ChatInv, Supervise PROVE ChatInv'
<1>1. /\ op # NoOp /\ op.pc \in {"raised", "cancelled"} /\ accepting \in BOOLEAN
      /\ UNCHANGED <<phase, lock, del, started, obeyed, late, db, trouble>>
      /\ lost' \in {lost, lost \union {op.id}}
  BY TypeOKis DEF Supervise, WorkOver, ChatInv
<1>2. /\ \/ Owned
         \/ Unbegun
         \/ op.gen = 0 /\ op.error = "unsaved" /\ op.pc = "raised"
         \/ /\ op.gen # 0 /\ op.error = "unsaved" /\ op.want = "completed"
            /\ OwnsAs(op.gen) \/ Done
      /\ op.reason # "none" => op.want # "completed"
      /\ op.pc = "cancelled" => op.reason # "none"
      /\ op.pc = "raised" /\ op.error = "plain" => Owned \/ Unbegun
  BY <1>1, Working DEF PlaceInv, ChatInv, ClaimInv
<1>3. CASE op.reason # "none"
  <2>1. HandleCancelled /\ UNCHANGED accepting
    BY <1>3 DEF Supervise, HandleCancelled
  <2>2. CASE op.gen = 0
    <3> DEFINE terminal == IF op.reason = "deleted" THEN "none" ELSE "stopped"
    <3>1. End(terminal) /\ terminal \in {"none", "stopped"}
      BY <2>1, <2>2 DEF HandleCancelled
    <3> HIDE DEF terminal
    <3>2. NotBegun \/ op.id \in lost'
      BY <1>2, <1>3, <2>2 DEF Supervise, Owned, Unbegun
    <3> QED
      BY <1>1, <2>1, <2>2, <3>1, <3>2, EndKeeps
  <2>3. CASE op.gen # 0
    <3>1. lost' = lost /\ OpLeavesAlone /\ UNCHANGED <<accepting, db, trouble>>
      BY <1>1, <2>1, <2>3 DEF Supervise, OpLeavesAlone
    <3>2. OwnsAs(op.gen)
      BY <1>2, <1>3, <2>3 DEF Owned, Unbegun
    <3>3. CASE op.kind = "regenerate"
      <4>1. Settle("discarded")
        BY <2>1, <2>3, <3>3 DEF HandleCancelled
      <4> QED
        BY <1>1, <2>3, <3>1, <3>2, <3>3, <4>1, SettleKeeps
    <3>4. CASE op.kind # "regenerate"
      <4>1. Settle("interrupted") \/ Settle("stopped")
        BY <2>1, <2>3, <3>4 DEF HandleCancelled
      <4> QED
        BY <1>1, <2>3, <3>1, <3>2, <3>4, <4>1, SettleKeeps
    <3> QED
      BY <3>3, <3>4
  <2> QED
    BY <2>2, <2>3
<1>4. CASE op.reason = "none"
  <2>1. HandleFailure /\ lost' = lost /\ op.pc = "raised"
    BY <1>1, <1>2, <1>4 DEF Supervise
  <2>2. CASE op.error = "unsaved" /\ End("storage") /\ accepting' = FALSE
    BY <1>1, <1>2, <2>1, <2>2, EndKeeps DEF Owned, Unbegun
  <2>3. CASE op.error = "plain" /\ op.gen = 0 /\ End("failed") /\ UNCHANGED accepting
    <3>1. NotBegun
      BY <1>2, <2>1, <2>3 DEF Owned, Unbegun
    <3> QED
      BY <1>1, <2>1, <2>3, <3>1, EndKeeps
  <2>4. CASE op.error = "plain" /\ op.gen # 0 /\ Settle("failed") /\ UNCHANGED accepting
    <3>1. OwnsAs(op.gen)
      BY <1>2, <2>1, <2>4 DEF Owned, Unbegun
    <3>2. OpLeavesAlone
      BY <1>1, <2>1 DEF OpLeavesAlone
    <3> QED
      BY <1>1, <1>4, <2>4, <3>1, <3>2, SettleKeeps
  <2> QED
    BY <2>1, <2>2, <2>3, <2>4 DEF HandleFailure
<1> QED
  BY <1>3, <1>4

(* All of the text is in the row before its generation is settled.         *)
LEMMA FlushAllKeeps == ASSUME ChatInv, FlushAll PROVE ChatInv'
<1> DEFINE new == WithText(db, op.gen, Text(op))
<1>1. op # NoOp /\ op.pc = "flush" /\ OpLeavesAlone
  BY DEF FlushAll, OpLeavesAlone
<1>2. /\ op \in OpRecords /\ db \in DbRecords /\ TypeOK /\ SettlementInv /\ op.settling
      /\ op.gen # 0 /\ OwnsAs(op.gen) /\ op.want \in Terminal
      /\ op.id \in 1..MaxOps
  BY <1>1, Working DEF PlaceInv, ChatInv, ClaimInv
<1>3. db' \in {db, new}
  BY DEF FlushAll, Attempt
<1>4. /\ new \in DbRecords /\ new.exists = db.exists
      /\ SameRow(new.answer, db.answer) /\ SameRow(new.staged, db.staged)
      /\ new.staged = NoAnswer <=> db.staged = NoAnswer
      /\ db.answer.id = op.gen => new.answer.text = Text(op)
      /\ db.answer.id # op.gen /\ db.staged.id = op.gen => new.staged.text = Text(op)
  BY <1>2, WithTextIs, FieldTypes
<1> HIDE DEF new
<1>5. SameRows
  BY <1>2, <1>3, <1>4, RowsUnchanged DEF SameRows
<1>6. SameOp => OwnsAs(op.gen)'
  BY <1>2, <1>5, SameOwner DEF SameOp, SameRows
<1>7. SameOp => RowInv(db.answer)' /\ RowInv(db.staged)'
                /\ ((accepting' => accepting) /\ op' \in OpRecords => WritingInv')
  <2>1. RowInv(db.answer)' /\ RowInv(db.staged)'
    BY <1>1, <1>5 DEF ChatInv, NumbersInv, RowInv, SameRows, SameRow, OpLeavesAlone
  <2>2. ASSUME SameOp, accepting' => accepting, op' \in OpRecords PROVE WritingInv'
    BY <1>1, <1>5, <2>2, RowsKept DEF SameRows, OpLeavesAlone, SameOp
  <2> QED
    BY <2>1, <2>2
<1>8. CASE /\ db' = new /\ UNCHANGED <<accepting, trouble>>
           /\ op' = [[op EXCEPT !.pc = "finish"] EXCEPT !.retried = FALSE]
  <2>1. op' \in OpRecords /\ SameOp /\ op'.pc = "finish" /\ op'.segments = op.segments
    BY <1>2, <1>8 DEF OpRecords, SameOp
  <2>2. PlaceInv'
    BY <1>2, <1>6, <2>1 DEF PlaceInv, SameOp, Terminal
  <2>3. Text(op)' = Text(op)
    BY <2>1 DEF Text, SameOp
  <2>4. IF op.kind = "regenerate" /\ new.staged # NoAnswer
        THEN new.staged.text = Text(op) ELSE new.answer.text = Text(op)
    <3>1. CASE op.kind = "regenerate"
      <4>1. db.answer.id <= db.answer.by /\ db.answer.by < op.id /\ op.gen = op.id
            /\ db.staged.id = op.gen
        BY <1>2, <3>1 DEF OwnsAs, ChatInv, NumbersInv, RowInv
      <4>2. db.answer.id \in Nat /\ db.answer.by \in Nat /\ op.id \in Nat
        BY <1>2, RowTypes, FieldTypes, Constants
      <4>3. db.answer.id # op.gen /\ db.staged # NoAnswer
        BY <1>2, <4>1, <4>2, Constants
      <4> QED
        BY <1>4, <3>1, <4>1, <4>3
    <3>2. CASE op.kind # "regenerate"
      BY <1>2, <1>4, <3>2 DEF OwnsAs
    <3> QED
      BY <3>1, <3>2
  <2>5. SettlementInv'
    BY <1>2, <1>5, <1>8, <2>1, <2>3, <2>4 DEF SettlementInv, SameOp, SameRows, TextOf
  <2>6. ClaimInv'
    BY <1>1, <1>2, <1>8, <2>1, ClaimKept DEF OpLeavesAlone, Running
  <2>7. OpInv'
    BY <2>2, <2>5 DEF OpInv
  <2>8. trouble' \in 0..MaxTrouble /\ accepting' \in BOOLEAN /\ (accepting' => accepting)
    BY <1>2, <1>8, Faulty, TypeOKis
  <2>9. /\ lost' \subseteq 1..started /\ late' \in LateRecords /\ late'.text.by <= started
        /\ late' # NoLate => late'.gen # 0
    BY <1>1, LateAndLost
  <2> QED
    BY <1>1, <1>5, <1>7, <2>1, <2>6, <2>7, <2>8, <2>9, OwnStep DEF OpLeavesAlone, SameOp, SameRows
<1>9. CASE Fault /\ op' = [op EXCEPT !.retried = TRUE] /\ UNCHANGED accepting
  <2>1. op' \in OpRecords /\ SameOp /\ op'.pc = "flush"
    BY <1>1, <1>2, <1>9 DEF OpRecords, SameOp
  <2>2. PlaceInv'
    BY <1>2, <1>6, <2>1 DEF PlaceInv, SameOp
  <2>3. trouble' \in 0..MaxTrouble
    BY <1>2, <1>9, Faulty
  <2> QED
    BY <1>1, <1>5, <1>9, <2>1, <2>2, <2>3, MoveKeeps DEF Running
<1>10. CASE GiveUp /\ UNCHANGED trouble
  <2>1. trouble' \in 0..MaxTrouble
    BY <1>2, <1>10, Faulty
  <2>2. CASE op.want = "completed"
    <3>1. Raise("unsaved") /\ UNCHANGED accepting
      BY <1>10, <2>2 DEF GiveUp
    <3>2. op' \in OpRecords /\ SameOp /\ op'.pc = "raised" /\ op'.error = "unsaved"
      BY <1>2, <3>1, Raised
    <3>3. PlaceInv'
      BY <1>2, <1>6, <2>2, <3>2 DEF PlaceInv, SameOp
    <3> QED
      BY <1>1, <1>5, <2>1, <3>1, <3>2, <3>3, MoveKeeps
  <2>3. CASE op.want # "completed"
    <3>1. /\ op' \in OpRecords /\ SameOp /\ op'.pc = "release"
          /\ op'.terminal \in {"none", "storage"} /\ ~accepting' /\ accepting' \in BOOLEAN
      BY <1>1, <1>2, <1>10, <2>3, GaveUp DEF Terminal
    <3>2. PlaceInv'
      BY <1>2, <1>6, <3>1 DEF PlaceInv, SameOp
    <3>3. SettlementInv'
      BY <1>2, <1>5, <3>1 DEF SettlementInv, SameOp, SameRows
    <3> QED
      BY <1>1, <1>2, <1>5, <1>7, <2>1, <3>1, <3>2, <3>3, ReleasedKeeps DEF SameRows
  <2> QED
    BY <2>2, <2>3
<1> QED
  BY <1>8, <1>9, <1>10 DEF FlushAll, Attempt, new

(* What the transaction that settles the generation leaves.                *)
LEMMA SettledIs ==
  ASSUME ChatInv, op # NoOp, op.pc = "finish"
  PROVE  /\ Settled \in DbRecords /\ Settled.exists = db.exists
         /\ RowInv(Settled.answer) /\ RowInv(Settled.staged)
         /\ \A g \in {Settled.answer, Settled.staged} :
              g.status = "running" => \E h \in Writing : h.by = g.by
         /\ IF op.want = "discarded"
            THEN /\ Settled.staged = NoAnswer /\ Settled.answer.status = "completed"
                 /\ Settled.answer.by < op.id
            ELSE /\ Settled.answer.id = op.gen /\ Settled.answer.by = op.id
                 /\ Settled.answer.status = op.want /\ Settled.staged.by < op.id
                 /\ op.kind = "regenerate" => Settled.staged = NoAnswer
         /\ op.want \in {"completed", "failed"} => TextOf(Settled.answer)
<1>1. /\ op \in OpRecords /\ db \in DbRecords /\ SettlementInv /\ op.id \in 1..MaxOps
      /\ op.gen # 0 /\ op.want # "none" /\ (OwnsAs(op.gen) \/ Done)
      /\ RowInv(db.answer) /\ RowInv(db.staged)
  BY Working DEF PlaceInv, ChatInv, NumbersInv
<1>2. op.want \in Terminal \union {"discarded"}
  BY <1>1, FieldTypes
<1>3. RowInv(NoAnswer) /\ NoAnswer.by < op.id /\ NoAnswer.status # "running"
  <2>1. started \in Nat
    BY TypeOKis, Constants DEF ChatInv
  <2> QED
    BY <1>1, <2>1, Constants DEF RowInv
<1>4. CASE op.want = "discarded"
  <2>1. Settled = Discarded(db)
    BY <1>4 DEF Settled
  <2>2. /\ Discarded(db) \in DbRecords /\ Discarded(db).exists = db.exists
        /\ Discarded(db).answer = db.answer /\ Discarded(db).staged = NoAnswer
    BY <1>1, DiscardedIs
  <2>3. db.answer.status = "completed" /\ db.answer.by < op.id
    BY <1>1, <1>4 DEF OwnsAs, Done, SettlementInv
  <2> QED
    BY <1>1, <1>3, <1>4, <2>1, <2>2, <2>3
<1>5. CASE op.want # "discarded" /\ op.kind = "regenerate"
  <2>1. Settled = Swapped(db, op.want) /\ op.want \in Terminal
    BY <1>2, <1>5 DEF Settled
  <2> DEFINE new == Swapped(db, op.want)
  <2>2. /\ new \in DbRecords /\ new.exists = db.exists
        /\ new.staged = NoAnswer
        /\ db.staged = NoAnswer => new = db
        /\ db.staged # NoAnswer =>
             /\ new.answer.id = db.staged.id /\ new.answer.turn = db.staged.turn
             /\ new.answer.by = db.staged.by /\ new.answer.text = db.staged.text
             /\ new.answer.status = op.want
    BY <1>1, <2>1, SwappedIs
  <2> HIDE DEF new
  <2>3. CASE db.staged = NoAnswer
    <3>1. Done
      BY <1>1, <1>5, <2>3, Constants DEF OwnsAs
    <3>2. op.want \in {"completed", "failed"} => TextOf(db.answer)
      BY <1>1, <2>3 DEF SettlementInv
    <3> QED
      BY <1>1, <1>3, <1>5, <2>1, <2>2, <2>3, <3>1, <3>2 DEF Done, Terminal, new
  <2>4. CASE db.staged # NoAnswer
    <3>1. OwnsAs(op.gen)
      BY <1>1, <1>5, <2>4 DEF Done
    <3>2. RowInv(new.answer)
      BY <1>1, <2>1, <2>2, <2>4, <3>1, <1>5 DEF RowInv, OwnsAs
    <3>3. op.want \in {"completed", "failed"} => TextOf(new.answer)
      BY <1>1, <1>5, <2>2, <2>4 DEF SettlementInv, TextOf
    <3>4. new.answer.status # "running"
      BY <2>1, <2>2, <2>4 DEF Terminal
    <3> QED
      BY <1>1, <1>3, <1>5, <2>1, <2>2, <2>4, <3>1, <3>2, <3>3, <3>4 DEF OwnsAs, new
  <2> QED
    BY <2>3, <2>4
<1>6. CASE op.want # "discarded" /\ op.kind # "regenerate"
  <2>1. Settled = Finished(db, op.want) /\ op.want \in Terminal
    BY <1>2, <1>6 DEF Settled
  <2> DEFINE new == Finished(db, op.want)
  <2>2. /\ new \in DbRecords /\ new.exists = db.exists /\ new.staged = db.staged
        /\ new.answer.id = db.answer.id /\ new.answer.turn = db.answer.turn
        /\ new.answer.by = db.answer.by /\ new.answer.text = db.answer.text
        /\ new.answer.status = IF db.answer.status = "running" THEN op.want ELSE db.answer.status
    BY <1>1, <2>1, FinishedIs
  <2> HIDE DEF new
  <2>3. /\ db.answer.id = op.gen /\ db.answer.by = op.id /\ db.staged.by < op.id
        /\ db.answer.status \in {"running", op.want}
    BY <1>1, <1>6 DEF OwnsAs, Done
  <2>4. new.answer.status = op.want /\ op.want # "running"
    BY <2>1, <2>2, <2>3 DEF Terminal
  <2>5. RowInv(new.answer) /\ RowInv(new.staged)
    BY <1>1, <2>2, <2>3 DEF RowInv
  <2>6. op.want \in {"completed", "failed"} => TextOf(new.answer)
    BY <1>1, <1>6, <2>2 DEF SettlementInv, TextOf
  <2>7. \A g \in {new.answer, new.staged} :
          g.status = "running" => \E h \in Writing : h.by = g.by
    BY <2>2, <2>4 DEF Writing
  <2> QED
    BY <1>6, <2>1, <2>2, <2>3, <2>4, <2>5, <2>6, <2>7 DEF new
<1> QED
  BY <1>2, <1>4, <1>5, <1>6

(* The generation is settled, or has been and nobody was told.             *)
LEMMA FinishKeeps == ASSUME ChatInv, Finish PROVE ChatInv'
<1>1. op # NoOp /\ op.pc = "finish" /\ OpLeavesAlone
  BY DEF Finish, OpLeavesAlone
<1>2. /\ op \in OpRecords /\ db \in DbRecords /\ TypeOK /\ SettlementInv /\ op.settling
      /\ op.gen # 0 /\ op.want # "none" /\ (OwnsAs(op.gen) \/ Done)
      /\ op.id \in 1..MaxOps /\ op.id = started
      /\ RowInv(db.answer) /\ RowInv(db.staged)
  BY <1>1, Working DEF PlaceInv, ChatInv, ClaimInv, NumbersInv
<1>3. db' \in {db, Settled}
  BY DEF Finish, Attempt
<1>4. db' \in DbRecords /\ db'.exists = db.exists /\ RowInv(db.answer)' /\ RowInv(db.staged)'
  <2>1. started' = started
    BY <1>1 DEF OpLeavesAlone
  <2> QED
    BY <1>1, <1>2, <1>3, <2>1, SettledIs DEF RowInv
<1>5. ASSUME SameOp, op' \in OpRecords, accepting' => accepting PROVE WritingInv'
  <2>1. \A g \in Writing' : \E h \in Writing : h.by = g.by
    <3>1. CASE db' = db
      BY <3>1 DEF Writing
    <3>2. CASE db' = Settled
      BY <1>1, <3>2, SettledIs DEF Writing
    <3> QED
      BY <1>3, <3>1, <3>2
  <2>2. op' # NoOp /\ op'.id = op.id /\ lost' = lost
    BY <1>1, <1>5, NoOpIsNone DEF SameOp, OpLeavesAlone
  <2> QED
    BY <1>5, <2>1, <2>2 DEF ChatInv, WritingInv
<1>6. SameOp => (OwnsAs(op.gen) \/ Done)' /\ (db' = Settled => Done')
  <2>1. SameOp /\ db' = Settled => Done'
    BY <1>1, SettledIs DEF Done, SameOp
  <2>2. SameOp /\ db' = db => (OwnsAs(op.gen) \/ Done)'
    BY <1>2 DEF Done, OwnsAs, SameOp
  <2> QED
    BY <1>3, <2>1, <2>2
<1>7. ASSUME SameOp, op'.segments = op.segments, op.want \in {"completed", "failed"}
      PROVE  /\ db' = Settled => TextOf(db.answer)'
             /\ IF op.kind = "regenerate" /\ db'.staged # NoAnswer
                THEN TextOf(db.staged)' ELSE TextOf(db.answer)'
  <2>1. Text(op)' = Text(op) /\ op'.id = op.id
    BY <1>7 DEF Text, SameOp
  <2>2. CASE db' = Settled
    <3>1. TextOf(Settled.answer) /\ (op.kind = "regenerate" => Settled.staged = NoAnswer)
      BY <1>1, <1>7, SettledIs
    <3> QED
      BY <2>1, <2>2, <3>1 DEF TextOf
  <2>3. CASE db' = db /\ db' # Settled
    <3>1. IF op.kind = "regenerate" /\ db.staged # NoAnswer
          THEN TextOf(db.staged) ELSE TextOf(db.answer)
      BY <1>1, <1>2, <1>7 DEF SettlementInv
    <3> QED
      BY <2>1, <2>3, <3>1 DEF TextOf
  <2> QED
    BY <1>3, <2>2, <2>3
<1>8. CASE /\ db' = Settled /\ UNCHANGED <<accepting, trouble>>
           /\ op' = [[op EXCEPT !.pc = "release", !.terminal = EventOf] EXCEPT !.retried = FALSE]
  <2>1. /\ EventOf \in {"none", "completed", "failed", "stopped"}
        /\ EventOf \in {"completed", "failed"} => op.want = EventOf
        /\ EventOf = "stopped" => op.want \in {"stopped", "interrupted", "discarded"}
    BY <1>2, FieldTypes DEF EventOf, Terminal
  <2> DEFINE terminal == EventOf
  <2>2. op' = [[op EXCEPT !.pc = "release", !.terminal = terminal] EXCEPT !.retried = FALSE]
    BY <1>8
  <2> HIDE DEF terminal
  <2>3. terminal \in {"none", "completed", "failed", "stopped"}
    BY <2>1 DEF terminal
  <2>4. /\ op' \in OpRecords /\ SameOp /\ op'.pc = "release" /\ op'.terminal = terminal
        /\ op'.segments = op.segments
    BY <1>2, <2>2, <2>3 DEF OpRecords, SameOp
  <2>5. PlaceInv'
    BY <1>2, <1>6, <1>8, <2>4 DEF PlaceInv, SameOp
  <2>6. SettlementInv'
    <3>1. Done' /\ (op.want \in {"completed", "failed"} => TextOf(db.answer)')
      BY <1>6, <1>7, <1>8, <2>4
    <3> QED
      BY <1>2, <1>4, <2>1, <2>4, <3>1 DEF SettlementInv, SameOp, TextOf, terminal
  <2>7. trouble' \in 0..MaxTrouble /\ accepting' \in BOOLEAN /\ (accepting' => accepting)
    BY <1>2, <1>8, Faulty, TypeOKis
  <2> QED
    BY <1>1, <1>2, <1>4, <1>5, <2>4, <2>5, <2>6, <2>7, ReleasedKeeps
<1>9. ASSUME \/ Fault /\ op' = [op EXCEPT !.retried = TRUE] /\ UNCHANGED accepting
             \/ /\ op.want = "completed" /\ Raise("unsaved")
                /\ UNCHANGED <<accepting, trouble>>
      PROVE  ChatInv'
  <2>1. /\ op' \in OpRecords /\ SameOp /\ op'.segments = op.segments
        /\ \/ op'.pc = "finish"
           \/ op'.pc = "raised" /\ op'.error = "unsaved" /\ op.want = "completed"
    BY <1>1, <1>2, <1>9, Raised DEF OpRecords, SameOp
  <2>2. PlaceInv'
    BY <1>2, <1>6, <2>1 DEF PlaceInv, SameOp
  <2>3. SettlementInv'
    BY <1>2, <1>4, <1>7, <2>1 DEF SettlementInv, SameOp, TextOf
  <2>4. ClaimInv'
    BY <1>1, <1>2, <1>9, <2>1, ClaimKept DEF OpLeavesAlone, Running
  <2>5. trouble' \in 0..MaxTrouble /\ accepting' \in BOOLEAN /\ (accepting' => accepting)
    BY <1>2, <1>9, Faulty, TypeOKis
  <2>6. OpInv' /\ WritingInv'
    BY <1>5, <2>1, <2>2, <2>3, <2>5 DEF OpInv
  <2>7. /\ lost' \subseteq 1..started /\ late' \in LateRecords /\ late'.text.by <= started
        /\ late' # NoLate => late'.gen # 0
    BY <1>1, LateAndLost
  <2> QED
    BY <1>1, <1>2, <1>4, <2>1, <2>4, <2>5, <2>6, <2>7, OwnStep DEF OpLeavesAlone, SameOp
<1>10. CASE GiveUp /\ UNCHANGED trouble
  <2>1. trouble' \in 0..MaxTrouble
    BY <1>2, <1>10, Faulty
  <2>2. CASE op.want = "completed"
    BY <1>9, <1>10, <2>2 DEF GiveUp
  <2>3. CASE op.want # "completed"
    <3>1. /\ op' \in OpRecords /\ SameOp /\ op'.pc = "release"
          /\ op'.terminal \in {"none", "storage"} /\ ~accepting' /\ accepting' \in BOOLEAN
      BY <1>1, <1>2, <1>10, <2>3, GaveUp
    <3>2. PlaceInv'
      BY <1>2, <1>6, <3>1 DEF PlaceInv, SameOp
    <3>3. SettlementInv'
      BY <1>2, <1>4, <3>1 DEF SettlementInv, SameOp
    <3> QED
      BY <1>1, <1>2, <1>4, <1>5, <2>1, <3>1, <3>2, <3>3, ReleasedKeeps
  <2> QED
    BY <2>2, <2>3
<1> QED
  BY <1>8, <1>9, <1>10 DEF Finish, Attempt

(* What an operation leaves behind is not running, or it is lost.          *)
LEMMA ReleaseKeeps == ASSUME ChatInv, Release PROVE ChatInv'
<1>1. /\ op # NoOp /\ op.pc = "release" /\ op' = NoOp /\ del' \in {del, NoDelete}
      /\ UNCHANGED <<phase, accepting, lock, obeyed, lost, db, late, started, trouble>>
  BY DEF Release, server
<1>2. /\ PlaceInv /\ op \in OpRecords /\ op.id \in 1..MaxOps
  BY <1>1, Working
<1>3. TypeOK'
  BY <1>1, TypeOKis, TypeOKisNext, Constants DEF ChatInv
<1>4. ServerInv'
  BY <1>1 DEF ChatInv, ServerInv
<1>5. NumbersInv' /\ ClaimInv' /\ OpInv'
  BY <1>1 DEF ChatInv, NumbersInv, ClaimInv, OpInv, RowInv
<1>6. WritingInv'
  <2>1. ASSUME accepting, NEW g \in Writing PROVE g.by \in lost
    <3>1. g.by \in lost \/ g.by = op.id
      BY <1>1, <2>1 DEF ChatInv, WritingInv
    <3>2. db \in DbRecords /\ g \in {db.answer, db.staged} /\ g.status = "running"
          /\ op.want # "running" /\ NoAnswer.status # "running"
      BY <1>1, <1>2, Working, FieldTypes, Constants DEF Writing, Terminal
    <3>3. CASE op.gen # 0
      <4>1. Done
        BY <1>1, <1>2, <2>1, <3>3 DEF PlaceInv
      <4>2. g = db.staged /\ g.by < op.id
        BY <3>2, <4>1 DEF Done
      <4> QED
        BY <1>2, <3>1, <4>2
    <3>4. CASE op.gen = 0
      <4>1. NotBegun \/ op.id \in lost
        BY <1>1, <1>2, <2>1, <3>4 DEF PlaceInv
      <4>2. NotBegun => g.by < op.id
        BY <3>2 DEF NotBegun
      <4> QED
        BY <1>2, <3>1, <4>1, <4>2
    <3> QED
      BY <3>3, <3>4
  <2> QED
    BY <1>1, <2>1 DEF WritingInv, Writing
<1>7. DeleteInv'
  BY <1>1, Constants DEF ChatInv, DeleteInv
<1> QED
  BY <1>3, <1>4, <1>5, <1>6, <1>7 DEF ChatInv

-----------------------------------------------------------------------------
(* The commands, a deletion and the life of the server.                    *)

(* A cancellation claims the operation and leaves it where it is.          *)
LEMMA CancelKeeps ==
  ASSUME ChatInv, op # NoOp, ~op.settling,
         NEW reason \in {"stopped", "deleted", "interrupted"}, op' = Cancelled(reason),
         reason = "interrupted" => ~accepting', accepting' => accepting,
         UNCHANGED <<db, lost, late>>
  PROVE  op' \in OpRecords /\ op'.id = op.id /\ ClaimInv' /\ OpInv' /\ WritingInv'
<1>1. op \in OpRecords /\ TypeOK /\ SameRows /\ db'.rev = db.rev /\ db'.summary = db.summary
  BY Working, RowsUnchanged
<1>2. op.want = "none" /\ op.pc \notin {"upsert", "flush", "finish", "release"}
  BY DEF ChatInv, ClaimInv
<1>3. SamePlace /\ op'.settling = TRUE /\ op'.reason = reason /\ op'.cancelled = ~WorkOver
  <2> DEFINE cancelled == ~WorkOver
  <2>1. cancelled \in BOOLEAN
    BY DEF WorkOver
  <2>2. op' = [op EXCEPT !.settling = TRUE, !.reason = reason, !.cancelled = cancelled]
    BY DEF Cancelled
  <2> HIDE DEF cancelled
  <2>3. SamePlace /\ op'.settling = TRUE /\ op'.reason = reason /\ op'.cancelled = cancelled
    BY <1>1, <2>1, <2>2 DEF OpRecords, SamePlace
  <2> QED
    BY <2>3 DEF cancelled
<1>4. OpInv'
  <2>1. lost \subseteq lost'
    OBVIOUS
  <2> QED
    BY <1>1, <1>2, <1>3, <2>1, PlaceKept
<1>5. ClaimInv'
  BY <1>2, <1>3 DEF ClaimInv, SamePlace, Running, WorkOver
<1>6. WritingInv'
  BY <1>3, NoOpIsNone DEF ChatInv, WritingInv, Writing, SamePlace
<1> QED
  BY <1>3, <1>4, <1>5, <1>6 DEF SamePlace

(* A step that leaves the operation and the rows alone.                    *)
LEMMA Untouched ==
  ASSUME ChatInv, UNCHANGED <<op, late, obeyed, lost>>, SameRows,
         db'.answer = db.answer, db'.staged = db.staged, db'.summary = db.summary,
         db'.rev \in {db.rev, db.rev + 1}, accepting' => accepting
  PROVE  ClaimInv' /\ OpInv' /\ WritingInv'
<1>1. ClaimInv'
  BY DEF ChatInv, ClaimInv
<1>2. OpInv'
  <2>1. CASE op # NoOp
    <3>1. (TextOf(db.answer) => TextOf(db.answer)') /\ (TextOf(db.staged) => TextOf(db.staged)')
          /\ lost \subseteq lost'
      BY DEF TextOf, Text
    <3> QED
      BY <2>1, <3>1, StaysPut, PlaceKept
  <2>2. CASE op = NoOp
    BY <2>2 DEF OpInv
  <2> QED
    BY <2>1, <2>2
<1>3. WritingInv'
  BY DEF ChatInv, WritingInv, Writing
<1> QED
  BY <1>1, <1>2, <1>3

(* A new operation knows of no generation of its own.                      *)
LEMMA StartKeeps == ASSUME ChatInv, Start PROVE ChatInv'
<1>1. /\ phase = "up" /\ lock = "free" /\ op = NoOp /\ del.step = "none" /\ started < MaxOps
      /\ started' = started + 1 /\ db' = db
      /\ UNCHANGED <<phase, accepting, lock, obeyed, lost, del, late, trouble>>
  BY DEF Start, server
<1>2. PICK kind \in Kinds, rev \in 1..db.rev :
        /\ rev = db.rev => Admissible(kind)
        /\ op' = [id |-> started + 1, kind |-> kind, rev |-> rev, pc |-> "prepare",
                  settling |-> FALSE, reason |-> "none", cancelled |-> FALSE,
                  gen |-> 0, segments |-> 0, recovered |-> FALSE, error |-> "none",
                  want |-> "none", retried |-> FALSE, terminal |-> "none"]
  BY DEF Start
<1>3. started \in 0..MaxOps /\ db \in DbRecords /\ db.rev \in Nat /\ MaxOps \in Nat
  BY TypeOKis, RowTypes, Constants DEF ChatInv
<1>4. /\ db.answer.by \in Nat /\ db.staged.by \in Nat /\ late.text.by \in Nat
      /\ db.answer.by <= started /\ db.staged.by <= started /\ late.text.by <= started
  BY <1>3, RowTypes, TypeOKis DEF ChatInv, NumbersInv, RowInv, LateRecords, Texts
<1>5. /\ op' \in OpRecords /\ op' # NoOp /\ op'.id = started + 1 /\ op'.kind = kind
      /\ op'.rev = rev /\ op'.pc = "prepare" /\ op'.settling = FALSE /\ op'.reason = "none"
      /\ op'.cancelled = FALSE /\ op'.gen = 0 /\ op'.want = "none"
  <2>1. started + 1 \in 1..MaxOps /\ 0 \in 0..MaxOps /\ 0 \in 0..MaxSegments /\ rev \in Nat
    BY <1>1, <1>3, Constants
  <2>2. op' \in OpRecords
    BY <1>2, <2>1 DEF OpRecords
  <2> QED
    BY <1>2, <2>2, NoOpIsNone
<1>6. TypeOK'
  <2>1. started' \in 0..MaxOps
    BY <1>1, <1>3
  <2> QED
    BY <1>1, <1>5, <2>1, TypeOKis, TypeOKisNext DEF ChatInv
<1>7. ServerInv'
  BY <1>1 DEF ChatInv, ServerInv
<1>8. NumbersInv'
  <2>1. RowInv(db.answer)' /\ RowInv(db.staged)'
    BY <1>1, <1>3, <1>4 DEF ChatInv, NumbersInv, RowInv
  <2>2. obeyed' \subseteq 1..started' /\ lost' \subseteq 1..started'
    BY <1>1, <1>3 DEF ChatInv, NumbersInv
  <2> QED
    BY <1>1, <1>3, <1>4, <1>5, <2>1, <2>2 DEF ChatInv, NumbersInv
<1>9. ClaimInv'
  <2>1. started + 1 \notin obeyed /\ late'.text.by # op'.id
    BY <1>1, <1>3, <1>4, <1>5 DEF ChatInv, NumbersInv
  <2> QED
    BY <1>1, <1>5, <2>1 DEF ClaimInv
<1>10. OpInv'
  <2>1. Unbegun' /\ op'.rev <= db'.rev /\ (op'.rev = db'.rev => Admissible(op.kind)')
    BY <1>1, <1>2, <1>3, <1>4, <1>5 DEF Unbegun, NotBegun, Admissible
  <2>2. PlaceInv'
    BY <1>5, <2>1 DEF PlaceInv
  <2>3. SettlementInv'
    BY <1>5 DEF SettlementInv
  <2> QED
    BY <2>2, <2>3 DEF OpInv
<1>11. WritingInv'
  BY <1>1 DEF ChatInv, WritingInv, Writing
<1>12. DeleteInv'
  BY <1>1 DEF DeleteInv
<1> QED
  BY <1>6, <1>7, <1>8, <1>9, <1>10, <1>11, <1>12 DEF ChatInv

LEMMA StopKeeps == ASSUME ChatInv, Stop PROVE ChatInv'
<1>1. /\ phase = "up" /\ op # NoOp /\ ~op.settling /\ op' = Cancelled("stopped") /\ db' = db
      /\ obeyed' = obeyed \union {op.id}
      /\ UNCHANGED <<phase, accepting, lock, lost, del, late, started, trouble>>
  BY DEF Stop
<1>2. op' \in OpRecords /\ op'.id = op.id /\ ClaimInv' /\ OpInv' /\ WritingInv'
  BY <1>1, CancelKeeps
<1>3. op' # NoOp /\ op.id = started /\ op.id \in 1..MaxOps
  BY <1>1, <1>2, Working, NoOpIsNone
<1>4. TypeOK'
  BY <1>1, <1>2, <1>3, TypeOKis, TypeOKisNext DEF ChatInv
<1>5. ServerInv'
  BY <1>1 DEF ChatInv, ServerInv
<1>6. NumbersInv'
  <2>1. op.id \in 1..started
    BY <1>3
  <2> QED
    BY <1>1, <1>2, <2>1 DEF ChatInv, NumbersInv, RowInv
<1>7. DeleteInv'
  BY <1>1, <1>2, <1>3 DEF ChatInv, DeleteInv
<1> QED
  BY <1>2, <1>4, <1>5, <1>6, <1>7 DEF ChatInv

(* The steps of update_session and of a deletion that leave the operation  *)
(* and the answers alone.                                                  *)
LEMMA LookingKeeps ==
  ASSUME ChatInv, BeginUpdate \/ EndUpdate \/ Delete \/ CheckDelete \/ RereadForDelete
  PROVE  ChatInv'
<1>1. UNCHANGED <<phase, accepting, op, late, obeyed, lost, started>>
  BY DEF BeginUpdate, EndUpdate, Delete, CheckDelete, RereadForDelete, server
<1>2. db \in DbRecords /\ db.rev \in Nat /\ db.rev + 1 \in Nat /\ TypeOK
  BY TypeOKis, RowTypes DEF ChatInv
<1>3. /\ db' \in DbRecords /\ db'.exists = db.exists /\ db'.answer = db.answer
      /\ db'.staged = db.staged /\ db'.summary = db.summary /\ db'.rev \in {db.rev, db.rev + 1}
  <2>1. db' = db \/ db' = [db EXCEPT !.rev = @ + 1]
    BY DEF BeginUpdate, EndUpdate, Delete, CheckDelete, RereadForDelete
  <2> QED
    BY <1>2, <2>1 DEF DbRecords
<1>4. SameRows
  BY <1>3 DEF SameRows, SameRow
<1>5. ClaimInv' /\ OpInv' /\ WritingInv'
  BY <1>1, <1>3, <1>4, Untouched
<1>6. trouble' \in 0..MaxTrouble
  BY <1>2, Faulty DEF BeginUpdate, EndUpdate, Delete, CheckDelete, RereadForDelete
<1>7. lock' \in {"free", "update"} /\ del' \in DelRecords
  <2>1. op.id \in 0..MaxOps
    BY <1>2, TypeOKis, FieldTypes, NoOpIsNone, Constants
  <2>2. del \in DelRecords /\ NoDelete \in DelRecords /\ lock \in {"free", "update"}
    BY <1>2, TypeOKis, Constants
  <2>3. CASE BeginUpdate \/ EndUpdate
    BY <2>2, <2>3 DEF BeginUpdate, EndUpdate
  <2>4. CASE Delete
    BY <2>1, <2>2, <2>4 DEF Delete, DelRecords, server
  <2>5. CASE CheckDelete
    <3>1. CASE del' = NoDelete
      BY <2>2, <2>5, <3>1 DEF CheckDelete, server
    <3> DEFINE step == IF del.target = 0 THEN "removing" ELSE "cancelling"
    <3>2. CASE del' = [del EXCEPT !.rev = db.rev, !.step = step]
      <4>1. step \in {"removing", "cancelling"}
        OBVIOUS
      <4> HIDE DEF step
      <4> QED
        BY <1>2, <2>2, <2>5, <3>2, <4>1 DEF CheckDelete, server, DelRecords
    <3> QED
      BY <2>5, <3>1, <3>2 DEF CheckDelete
  <2>6. CASE RereadForDelete
    BY <1>2, <2>2, <2>6 DEF RereadForDelete, server, DelRecords
  <2> QED
    BY <2>3, <2>4, <2>5, <2>6
<1>8. TypeOK'
  BY <1>1, <1>2, <1>3, <1>6, <1>7, TypeOKis, TypeOKisNext
<1>9. ServerInv'
  <2>1. phase \notin {"down", "starting"}
    BY Constants DEF ChatInv, ServerInv, BeginUpdate, EndUpdate, Delete, CheckDelete,
                     RereadForDelete
  <2> QED
    BY <1>1, <2>1 DEF ChatInv, ServerInv
<1>10. NumbersInv'
  BY <1>1, <1>3 DEF ChatInv, NumbersInv, RowInv
<1>11. DeleteInv'
  <2>1. CASE BeginUpdate
    BY <1>1, <2>1 DEF BeginUpdate, DeleteInv
  <2>2. CASE EndUpdate
    BY <1>1, <2>2 DEF ChatInv, EndUpdate, DeleteInv
  <2>3. CASE Delete
    BY <1>1, <2>3 DEF Delete, DeleteInv, server
  <2>4. CASE CheckDelete
    <3>1. op # NoOp => op.id = del.target /\ op.id # 0
      BY <2>4, Working DEF ChatInv, CheckDelete, DeleteInv
    <3>2. del \in DelRecords /\ db' = db
      BY <1>2, <2>4, TypeOKis DEF CheckDelete
    <3> QED
      BY <1>1, <1>2, <2>4, <3>1, <3>2, Constants
         DEF ChatInv, CheckDelete, DeleteInv, server, DelRecords
  <2>5. CASE RereadForDelete
    <3>1. op = NoOp /\ db.exists /\ del \in DelRecords /\ db' = db
      BY <1>2, <2>5, TypeOKis DEF ChatInv, RereadForDelete, DeleteInv
    <3> QED
      BY <1>1, <1>2, <2>5, <3>1, Constants
         DEF ChatInv, RereadForDelete, DeleteInv, server, DelRecords
  <2> QED
    BY <2>1, <2>2, <2>3, <2>4, <2>5
<1> QED
  BY <1>5, <1>8, <1>9, <1>10, <1>11 DEF ChatInv

LEMMA CancelForDeleteKeeps == ASSUME ChatInv, CancelForDelete PROVE ChatInv'
<1>1. /\ del.step = "cancelling" /\ del' = [del EXCEPT !.step = "waiting"]
      /\ op' = IF op.id = del.target /\ ~op.settling THEN Cancelled("deleted") ELSE op
      /\ UNCHANGED <<phase, accepting, lock, obeyed, lost, db, late, started, trouble>>
  BY DEF CancelForDelete, server
<1>2. del \in DelRecords /\ db.exists /\ del.target # 0 /\ TypeOK
      /\ (op # NoOp => op.id = del.target)
  BY <1>1, TypeOKis DEF ChatInv, DeleteInv
<1>3. del' \in DelRecords /\ del'.step = "waiting" /\ del'.target = del.target
  BY <1>1, <1>2 DEF DelRecords
<1>4. /\ ClaimInv' /\ OpInv' /\ WritingInv' /\ (op' = NoOp <=> op = NoOp)
      /\ op # NoOp => op' \in OpRecords /\ op'.id = op.id
  <2>1. CASE op # NoOp /\ ~op.settling
    <3>1. op' = Cancelled("deleted")
      BY <1>1, <1>2, <2>1
    <3> QED
      BY <1>1, <2>1, <3>1, CancelKeeps, NoOpIsNone
  <2>2. CASE op = NoOp \/ op.settling
    <3>1. op' = op
      BY <1>1, <1>2, <2>2, NoOpIsNone
    <3> QED
      BY <1>1, <1>2, <3>1, Untouched, RowsUnchanged, TypeOKis
  <2> QED
    BY <2>1, <2>2
<1>5. TypeOK'
  BY <1>1, <1>2, <1>3, <1>4, TypeOKis, TypeOKisNext
<1>6. ServerInv' /\ NumbersInv'
  <2>1. phase \notin {"down", "starting"}
    BY <1>1, Constants DEF ChatInv, ServerInv
  <2> QED
    BY <1>1, <1>4, <2>1 DEF ChatInv, ServerInv, NumbersInv, RowInv
<1>7. DeleteInv'
  BY <1>1, <1>2, <1>3, <1>4 DEF ChatInv, DeleteInv
<1> QED
  BY <1>4, <1>5, <1>6, <1>7 DEF ChatInv

(* The chat is removed once nothing of it is under way.                    *)
LEMMA RemoveKeeps == ASSUME ChatInv, Remove PROVE ChatInv'
<1>1. /\ del.step = "removing" /\ del' = NoDelete /\ db' \in {db, Removed(db)}
      /\ UNCHANGED <<phase, accepting, lock, obeyed, lost, op, late, started>>
      /\ Fault \/ UNCHANGED trouble
  BY DEF Remove, server
<1>2. op = NoOp /\ TypeOK /\ db \in DbRecords /\ started \in 0..MaxOps
  BY <1>1, TypeOKis DEF ChatInv, DeleteInv
<1>3. /\ db' \in DbRecords
      /\ db'.answer \in {db.answer, NoAnswer} /\ db'.staged \in {db.staged, NoAnswer}
  <2>1. /\ Removed(db) \in DbRecords
        /\ Removed(db).answer = NoAnswer /\ Removed(db).staged = NoAnswer
    BY <1>2, Constants DEF Removed, DbRecords
  <2> QED
    BY <1>1, <1>2, <2>1
<1>4. RowInv(NoAnswer) /\ NoAnswer.status # "running"
  BY <1>2, Constants DEF RowInv
<1>5. TypeOK'
  <2>1. trouble' \in 0..MaxTrouble
    BY <1>1, <1>2, Faulty
  <2> QED
    BY <1>1, <1>2, <1>3, <2>1, TypeOKis, TypeOKisNext, Constants
<1>6. NumbersInv'
  BY <1>1, <1>2, <1>3, <1>4 DEF ChatInv, NumbersInv, RowInv
<1>7. WritingInv' /\ ServerInv'
  <2>1. phase \notin {"down", "starting"}
    BY <1>1, Constants DEF ChatInv, ServerInv
  <2> QED
    BY <1>1, <1>2, <1>3, <1>4, <2>1 DEF ChatInv, WritingInv, Writing, ServerInv
<1>8. ClaimInv' /\ OpInv' /\ DeleteInv'
  BY <1>1, <1>2, Constants DEF ClaimInv, OpInv, DeleteInv
<1> QED
  BY <1>5, <1>6, <1>7, <1>8 DEF ChatInv

LEMMA CloseKeeps == ASSUME ChatInv, Close PROVE ChatInv'
<1>1. /\ phase = "up" /\ phase' = "closing" /\ accepting' = FALSE
      /\ op' = IF op # NoOp /\ ~op.settling THEN Cancelled("interrupted") ELSE op
      /\ UNCHANGED <<lock, obeyed, lost, del, db, late, started>>
      /\ Fault \/ UNCHANGED trouble
  BY DEF Close
<1>2. TypeOK /\ trouble' \in 0..MaxTrouble
  BY <1>1, Faulty DEF ChatInv
<1>3. /\ ClaimInv' /\ OpInv' /\ WritingInv' /\ (op' = NoOp <=> op = NoOp)
      /\ op # NoOp => op' \in OpRecords /\ op'.id = op.id
  <2>1. CASE op # NoOp /\ ~op.settling
    <3>1. op' = Cancelled("interrupted")
      BY <1>1, <2>1
    <3> QED
      BY <1>1, <2>1, <3>1, CancelKeeps, NoOpIsNone
  <2>2. CASE op = NoOp \/ op.settling
    <3>1. op' = op
      BY <1>1, <2>2
    <3> QED
      BY <1>1, <1>2, <3>1, Untouched, RowsUnchanged, TypeOKis
  <2> QED
    BY <2>1, <2>2
<1>4. TypeOK'
  BY <1>1, <1>2, <1>3, TypeOKis, TypeOKisNext
<1>5. ServerInv' /\ NumbersInv'
  BY <1>1, <1>3 DEF ChatInv, ServerInv, NumbersInv, RowInv
<1>6. DeleteInv'
  BY <1>1, <1>3 DEF ChatInv, DeleteInv
<1> QED
  BY <1>3, <1>4, <1>5, <1>6 DEF ChatInv

LEMMA DieKeeps == ASSUME ChatInv, EndClose \/ Crash PROVE ChatInv'
<1>1. /\ phase' = "down" /\ accepting' = FALSE /\ lock' = "free"
      /\ op' = NoOp /\ del' = NoDelete /\ late' = NoLate
      /\ UNCHANGED <<obeyed, lost, db, started>> /\ (Fault \/ UNCHANGED trouble)
  BY DEF EndClose, Crash, Die
<1>2. TypeOK /\ trouble' \in 0..MaxTrouble /\ started \in 0..MaxOps /\ 0 <= started
  <2>1. started \in 0..MaxOps
    BY TypeOKis DEF ChatInv
  <2> QED
    BY <1>1, <2>1, Faulty, Constants DEF ChatInv
<1>3. TypeOK'
  BY <1>1, <1>2, TypeOKis, TypeOKisNext, Constants
<1>4. NumbersInv'
  BY <1>1, <1>2, Constants DEF ChatInv, NumbersInv, RowInv
<1>5. ServerInv' /\ ClaimInv' /\ OpInv' /\ WritingInv' /\ DeleteInv'
  BY <1>1, Constants DEF ServerInv, ClaimInv, OpInv, WritingInv, DeleteInv
<1> QED
  BY <1>3, <1>4, <1>5 DEF ChatInv

(* The repair leaves nothing running.                                      *)
LEMMA RepairedIs ==
  ASSUME NEW d \in DbRecords
  PROVE  /\ Repaired(d) \in DbRecords /\ Repaired(d).exists = d.exists
         /\ Repaired(d).staged = NoAnswer
         /\ Repaired(d).answer.id = d.answer.id /\ Repaired(d).answer.turn = d.answer.turn
         /\ Repaired(d).answer.by = d.answer.by
         /\ Repaired(d).answer.status =
              IF d.answer.status = "running" THEN "interrupted" ELSE d.answer.status
<1>1. /\ Discarded(d) \in DbRecords /\ Discarded(d).exists = d.exists
      /\ Discarded(d).answer = d.answer /\ Discarded(d).staged = NoAnswer
  BY DiscardedIs
<1> QED
  BY <1>1, FinishedIs DEF Repaired, Terminal

LEMMA OpenStoreKeeps == ASSUME ChatInv, OpenStore PROVE ChatInv'
<1>1. /\ phase = "down" /\ phase' = "starting" /\ db' = Repaired(db)
      /\ UNCHANGED <<accepting, lock, obeyed, lost, op, del, late, started, trouble>>
  BY DEF OpenStore
<1>2. /\ op = NoOp /\ del = NoDelete /\ late = NoLate /\ lock = "free" /\ ~accepting
      /\ db \in DbRecords /\ TypeOK /\ started \in 0..MaxOps
  BY <1>1, TypeOKis DEF ChatInv, ServerInv
<1>3. /\ db' \in DbRecords /\ db'.staged = NoAnswer /\ db'.answer.status # "running"
      /\ db'.answer.status # "none" => db.answer.status # "none"
      /\ db'.answer.id = db.answer.id /\ db'.answer.turn = db.answer.turn
      /\ db'.answer.by = db.answer.by
  BY <1>1, <1>2, RepairedIs
<1>4. TypeOK'
  BY <1>1, <1>2, <1>3, TypeOKis, TypeOKisNext
<1>5. ServerInv'
  BY <1>1, <1>2, <1>3, Constants DEF ServerInv, Writing
<1>6. NumbersInv'
  <2>1. RowInv(db.answer)' /\ RowInv(db.staged)'
    BY <1>1, <1>2, <1>3, Constants DEF ChatInv, NumbersInv, RowInv
  <2> QED
    BY <1>1, <1>2, <2>1 DEF ChatInv, NumbersInv
<1>7. ClaimInv' /\ OpInv' /\ WritingInv' /\ DeleteInv'
  BY <1>1, <1>2, Constants DEF ClaimInv, OpInv, WritingInv, DeleteInv
<1> QED
  BY <1>4, <1>5, <1>6, <1>7 DEF ChatInv

LEMMA RetireKeeps == ASSUME ChatInv, Retire PROVE ChatInv'
<1>1. /\ phase = "starting" /\ phase' = "up" /\ accepting' = TRUE
      /\ db' = db \/ db' = [db EXCEPT !.rev = @ + 1]
      /\ UNCHANGED <<lock, obeyed, lost, op, del, late, started, trouble>>
  BY DEF Retire
<1>2. /\ op = NoOp /\ del = NoDelete /\ late = NoLate /\ lock = "free" /\ Writing = {}
      /\ db \in DbRecords /\ TypeOK
  BY <1>1, TypeOKis DEF ChatInv, ServerInv
<1>3. db' \in DbRecords /\ db'.answer = db.answer /\ db'.staged = db.staged
  <2>1. db.rev + 1 \in Nat
    BY <1>2, RowTypes
  <2> QED
    BY <1>1, <1>2, <2>1 DEF DbRecords
<1>4. TypeOK'
  BY <1>1, <1>2, <1>3, TypeOKis, TypeOKisNext
<1>5. ServerInv' /\ WritingInv'
  BY <1>1, <1>2, <1>3 DEF ServerInv, WritingInv, Writing
<1>6. NumbersInv'
  BY <1>1, <1>2, <1>3 DEF ChatInv, NumbersInv, RowInv
<1>7. ClaimInv' /\ OpInv' /\ DeleteInv'
  BY <1>1, <1>2, Constants DEF ClaimInv, OpInv, DeleteInv
<1> QED
  BY <1>4, <1>5, <1>6, <1>7 DEF ChatInv

-----------------------------------------------------------------------------
(* The invariant holds.                                                    *)

LEMMA ChatInit == Init => ChatInv
<1> SUFFICES ASSUME Init PROVE ChatInv
  OBVIOUS
<1>1. /\ phase = "up" /\ accepting = TRUE /\ lock = "free" /\ obeyed = {} /\ lost = {}
      /\ op = NoOp /\ del = NoDelete /\ late = NoLate /\ started = 0 /\ trouble = 0
      /\ db = [exists |-> TRUE, rev |-> 1, answer |-> NoAnswer, staged |-> NoAnswer,
               summary |-> <<0, FALSE>>]
  BY DEF Init
<1>2. db \in DbRecords
  <2>1. <<0, FALSE>> \in (0..MaxOps) \X BOOLEAN
    <3>1. 0 \in 0..MaxOps
      BY Constants
    <3> QED
      BY <3>1
  <2> QED
    BY <1>1, <2>1, Constants DEF DbRecords
<1>3. TypeOK
  BY <1>1, <1>2, Constants, TypeOKis
<1>4. NumbersInv
  BY <1>1, Constants DEF NumbersInv, RowInv
<1>5. ServerInv /\ ClaimInv /\ OpInv /\ WritingInv /\ DeleteInv
  BY <1>1, Constants DEF ServerInv, ClaimInv, OpInv, WritingInv, Writing, DeleteInv
<1> QED
  BY <1>3, <1>4, <1>5 DEF ChatInv

LEMMA ChatStutters == ASSUME ChatInv, UNCHANGED vars PROVE ChatInv'
<1>1. UNCHANGED <<phase, accepting, lock, obeyed, lost, op, del, db, late, started, trouble>>
  BY DEF vars, server
<1>2. ClaimInv' /\ OpInv' /\ WritingInv'
  BY <1>1, Untouched, RowsUnchanged DEF ChatInv
<1>3. TypeOK' /\ ServerInv' /\ NumbersInv' /\ DeleteInv'
  BY <1>1, TypeOKis, TypeOKisNext
     DEF ChatInv, ServerInv, NumbersInv, RowInv, DeleteInv, Writing
<1> QED
  BY <1>2, <1>3 DEF ChatInv

LEMMA ChatStep == ChatInv /\ [Next]_vars => ChatInv'
<1> SUFFICES ASSUME ChatInv, [Next]_vars PROVE ChatInv'
  OBVIOUS
<1>1. CASE Start \/ Stop
  BY <1>1, StartKeeps, StopKeeps
<1>2. CASE BeginUpdate \/ EndUpdate \/ Delete \/ CheckDelete \/ RereadForDelete
  BY <1>2, LookingKeeps
<1>3. CASE Prepare \/ Checkpoint \/ Reread
  BY <1>3, PrepareKeeps, CheckpointKeeps, RereadKeeps
<1>4. CASE Begin \/ Reconcile \/ Claim \/ Upsert
  BY <1>4, BeginKeeps, ReconcileKeeps, ClaimKeeps, UpsertKeeps
<1>5. CASE Segment \/ Flush \/ Recover \/ EndStream
  BY <1>5, StreamKeeps
<1>6. CASE Deliver \/ Land
  BY <1>6, DeliverKeeps, LandKeeps
<1>7. CASE Supervise \/ FlushAll \/ Finish \/ Release
  BY <1>7, SuperviseKeeps, FlushAllKeeps, FinishKeeps, ReleaseKeeps
<1>8. CASE CancelForDelete \/ Remove
  BY <1>8, CancelForDeleteKeeps, RemoveKeeps
<1>9. CASE Close \/ EndClose \/ Crash
  BY <1>9, CloseKeeps, DieKeeps
<1>10. CASE OpenStore \/ Retire
  BY <1>10, OpenStoreKeeps, RetireKeeps
<1>11. CASE UNCHANGED vars
  BY <1>11, ChatStutters
<1> QED
  BY <1>1, <1>2, <1>3, <1>4, <1>5, <1>6, <1>7, <1>8, <1>9, <1>10, <1>11
     DEF Next, Work, Settlement, Deletion

(* The invariant of every state, from which the rest follows.              *)
THEOREM ChatCorrect == Spec => []ChatInv
<1> QED
  BY ChatInit, ChatStep, PTL DEF Spec

-----------------------------------------------------------------------------
(* What every state of the chat satisfies.                                 *)

(* While the service accepts commands, an answer that the store calls       *)
(* running is being written by the operation that runs, or belongs to one  *)
(* cancelled while nobody could tell whether it had begun.                 *)
THEOREM RunningIsOwned == Spec => []OwnedWhileRunning
<1>1. ChatInv => OwnedWhileRunning
  BY DEF ChatInv, WritingInv, OwnedWhileRunning
<1> QED
  BY <1>1, ChatCorrect, PTL

(* The event that ends an operation says what the store holds.             *)
THEOREM EventsAreTrue == Spec => []TerminalIsTrue
<1>1. ASSUME ChatInv, op # NoOp, op.pc = "release" PROVE TerminalIsTrue
  <2>1. SettlementInv /\ op.want \in Terminal \union {"none", "discarded"}
    BY <1>1, Working, FieldTypes
  <2>2. op.terminal = "completed" => op.id \notin obeyed
    BY <1>1, <2>1 DEF ChatInv, ClaimInv, SettlementInv
  <2>3. op.gen # 0 /\ op.terminal \in {"completed", "failed"} =>
          /\ db.answer.id = op.gen /\ db.answer.status = op.terminal
          /\ db.answer.text = Text(op) \/ db.answer.text.by # op.id
    BY <1>1, <2>1 DEF SettlementInv, Done, TextOf
  <2>4. op.gen # 0 /\ op.terminal = "stopped" =>
          IF op.kind = "regenerate"
          THEN db.staged = NoAnswer /\ db.answer.status = "completed"
          ELSE db.answer.id = op.gen /\ db.answer.status \in {"stopped", "interrupted"}
    BY <1>1, <2>1 DEF SettlementInv, Done
  <2> QED
    BY <1>1, <2>1, <2>2, <2>3, <2>4 DEF TerminalIsTrue, SettlementInv
<1>2. ChatInv => TerminalIsTrue
  BY <1>1 DEF TerminalIsTrue
<1> QED
  BY <1>2, ChatCorrect, PTL

(* The row an operation settles is there and its own, and nobody has        *)
(* changed the revision a deletion has read.                               *)
THEOREM SettlementsLand == Spec => []WritesAreNotRefused
<1>1. ASSUME ChatInv, op # NoOp, op.gen # 0
      PROVE  /\ db.exists
             /\ op.gen \in {db.answer.id, db.staged.id} \/ op.want = "discarded"
  <2>1. /\ PlaceInv /\ SettlementInv
        /\ op.pc \in Running \union {"raised", "cancelled", "upsert", "flush", "finish", "release"}
    BY <1>1, Working
  <2>2. OwnsAs(op.gen) \/ Done
    BY <1>1, <2>1 DEF PlaceInv, Owned, Unbegun, Running
  <2>3. OwnsAs(op.gen) => op.gen \in {db.answer.id, db.staged.id}
    BY DEF OwnsAs
  <2>4. Done => op.gen = db.answer.id \/ op.want = "discarded"
    BY DEF Done
  <2> QED
    BY <1>1, <2>1, <2>2, <2>3, <2>4 DEF SettlementInv
<1>2. ChatInv => WritesAreNotRefused
  BY <1>1 DEF WritesAreNotRefused, ChatInv, DeleteInv
<1> QED
  BY <1>2, ChatCorrect, PTL

-----------------------------------------------------------------------------
(* The chat keeps the promise of ChatAnswers.                              *)

Newest == IF db.exists
          THEN [turn |-> db.answer.turn, by |-> db.answer.by, status |-> db.answer.status]
          ELSE [turn |-> 0, by |-> 0, status |-> "deleted"]

AnswersNext == [Answers!Next]_Newest

LEMMA AnswersKept ==
  ASSUME db'.exists = db.exists, SameRow(db'.answer, db.answer)
  PROVE  AnswersNext
  BY DEF AnswersNext, Newest, SameRow

(* An answer of a chat that exists is not deleted.                         *)
LEMMA NewestExists ==
  ASSUME TypeOK, db.exists
  PROVE  /\ Newest.turn = db.answer.turn /\ Newest.by = db.answer.by
         /\ Newest.status = db.answer.status /\ Newest # Answers!Gone
         /\ db.answer.turn \in 0..MaxOps /\ db.answer.by \in 0..MaxOps /\ MaxOps \in Nat
<1>1. /\ db.answer.status # "deleted" /\ db.answer.turn \in 0..MaxOps
      /\ db.answer.by \in 0..MaxOps
  BY TypeOKis, RowTypes DEF Terminal
<1>2. Newest = [turn |-> db.answer.turn, by |-> db.answer.by, status |-> db.answer.status]
  BY DEF Newest
<1>3. Answers!Gone.status = "deleted"
  BY DEF Answers!Gone
<1> QED
  BY <1>1, <1>2, <1>3, Constants

(* The newest answer changes when one is begun, settled, removed or        *)
(* repaired, and by nothing else.                                          *)
LEMMA OthersKeepAnswers ==
  ASSUME ChatInv, [Next]_vars, ~Begin, ~Finish, ~Remove, ~OpenStore
  PROVE  AnswersNext
<1>1. db \in DbRecords
  BY TypeOKis DEF ChatInv
<1>2. \/ db' = db
      \/ db' = [db EXCEPT !.rev = @ + 1]
      \/ \E summary : db' = Compacted(db, summary)
      \/ Flush \/ FlushAll \/ Land
  BY DEF Next, Work, Settlement, Deletion, vars, server, Start, Stop, Delete, BeginUpdate, EndUpdate,
         Segment, Recover, Prepare, Checkpoint, Reread, Reconcile, EndStream, Claim, Upsert,
         Deliver, Supervise, Release, CheckDelete, CancelForDelete, RereadForDelete,
         Close, EndClose, Crash, Die, Retire, WorkOnly, Attempt
<1>3. CASE db' = db \/ db' = [db EXCEPT !.rev = @ + 1]
  <2>1. db'.exists = db.exists /\ db'.answer = db.answer
    BY <1>1, <1>3 DEF DbRecords
  <2> QED
    BY <2>1, AnswersKept DEF SameRow
<1>4. ASSUME NEW summary, db' = Compacted(db, summary) PROVE AnswersNext
  <2>1. db'.exists = db.exists /\ db'.answer = db.answer
    BY <1>1, <1>4 DEF DbRecords, Compacted
  <2> QED
    BY <2>1, AnswersKept DEF SameRow
<1>5. ASSUME NEW gen \in 0..MaxOps, gen # 0, NEW text \in Texts,
             db' \in {db, WithText(db, gen, text)}
      PROVE  AnswersNext
  <2>1. db'.exists = db.exists /\ SameRow(db'.answer, db.answer)
    BY <1>1, <1>5, WithTextIs DEF SameRow
  <2> QED
    BY <2>1, AnswersKept
<1>6. CASE Flush \/ FlushAll
  <2>1. op # NoOp /\ op.pc \in {"stream", "flush"}
        /\ db' \in {db, WithText(db, op.gen, Text(op))}
    BY <1>6 DEF Flush, FlushAll, Works, Attempt
  <2>2. op.gen # 0 /\ op.gen \in 0..MaxOps /\ Text(op) \in Texts
    BY <2>1, Working, FieldTypes DEF PlaceInv, Owned
  <2> QED
    BY <1>5, <2>1, <2>2
<1>7. CASE Land
  <2>1. late.gen # 0 /\ late.gen \in 0..MaxOps /\ late.text \in Texts
        /\ db' = WithText(db, late.gen, late.text)
    BY <1>7, TypeOKis DEF ChatInv, Land, NumbersInv, LateRecords
  <2> QED
    BY <1>5, <2>1
<1> QED
  BY <1>2, <1>3, <1>4, <1>6, <1>7

NewestRecords ==
  [turn : 0..MaxOps, by : 0..MaxOps,
   status : Terminal \union {"none", "running", "deleted"}]

(* The newest answer is written by another operation.                      *)
LEMMA Rewritten ==
  ASSUME Newest \in NewestRecords, Newest' \in NewestRecords,
         NEW by \in 0..MaxOps, NEW status \in Terminal \union {"running"},
         Newest'.turn = Newest.turn, Newest'.by = by, Newest'.status = status
  PROVE  Newest' = [Newest EXCEPT !.by = by, !.status = status]
<1> DEFINE rewritten == [Newest EXCEPT !.by = by, !.status = status]
<1>1. /\ rewritten \in NewestRecords /\ rewritten.turn = Newest.turn
      /\ rewritten.by = by /\ rewritten.status = status
  BY DEF NewestRecords
<1> HIDE DEF rewritten
<1>2. Newest' = rewritten
  BY <1>1 DEF NewestRecords
<1> QED
  BY <1>2 DEF rewritten

LEMMA NewestType == ASSUME db \in DbRecords PROVE Newest \in NewestRecords
<1>1. db.exists \in BOOLEAN /\ 0 \in 0..MaxOps
  BY RowTypes, Constants
<1> QED
  BY <1>1, RowTypes DEF Newest, NewestRecords

LEMMA NewestTypeNext == ASSUME db' \in DbRecords PROVE Newest' \in NewestRecords
<1>1. db'.exists \in BOOLEAN /\ 0 \in 0..MaxOps
  BY RowTypes, Constants
<1> QED
  BY <1>1, RowTypes DEF Newest, NewestRecords

LEMMA BeginAsks == ASSUME ChatInv, Begin PROVE AnswersNext
<1>1. op # NoOp /\ op.pc = "begin" /\ TypeOK
  BY DEF Begin, ChatInv
<1>2. /\ op \in OpRecords /\ db \in DbRecords /\ op.id \in 1..MaxOps /\ NotBegun /\ Ready
      /\ RowInv(db.answer)
  BY <1>1, Working DEF PlaceInv, Unbegun, ChatInv, NumbersInv
<1>3. CASE db' = db
  BY <1>3, AnswersKept DEF SameRow
<1>4. CASE MayBegin(db, op) /\ db' = Begun(db, op)
  <2>1. /\ db' \in DbRecords /\ db'.exists = db.exists /\ db.exists
        /\ Row(db, op).by = op.id /\ Row(db, op).status = "running"
        /\ Row(db, op).turn = db.answer.turn + (IF op.kind = "send" THEN 1 ELSE 0)
        /\ op.kind = "regenerate" => db'.answer = db.answer
        /\ op.kind # "regenerate" => db'.answer = Row(db, op)
    BY <1>2, <1>4, BegunIs DEF RowInv, NotBegun, MayBegin
  <2>2. /\ Newest.turn = db.answer.turn /\ Newest.by = db.answer.by
        /\ Newest.status = db.answer.status /\ Newest # Answers!Gone
        /\ db.answer.turn \in Nat /\ db.answer.by \in Nat
    BY <1>1, <2>1, NewestExists
  <2>3. op.id \in Answers!Newer
    BY <1>2, <2>2 DEF Answers!Newer, NotBegun, Newest
  <2>4. CASE op.kind = "regenerate"
    BY <2>1, <2>4, AnswersKept DEF SameRow
  <2>5. CASE op.kind = "send"
    <3>1. Newest' = [turn |-> Newest.turn + 1, by |-> op.id, status |-> "running"]
      BY <2>1, <2>2, <2>5 DEF Newest
    <3>2. Answers!Ask
      BY <2>2, <2>3, <3>1 DEF Answers!Ask, Newest
    <3> QED
      BY <3>2 DEF AnswersNext, Answers!Next
  <2>6. CASE op.kind = "retry"
    <3>1. Newest'.turn = Newest.turn /\ Newest'.by = op.id /\ Newest'.status = "running"
      BY <2>1, <2>2, <2>6 DEF Newest
    <3>2. Newest \in NewestRecords /\ Newest' \in NewestRecords
      BY <1>2, <2>1, NewestType, NewestTypeNext
    <3>3. Newest' = [Newest EXCEPT !.by = op.id, !.status = "running"]
      <4>1. op.id \in 0..MaxOps
        BY <1>2, Constants
      <4> QED
        BY <3>1, <3>2, <4>1, Rewritten
    <3>4. Newest.status \in Answers!Unfinished
      BY <1>4, <2>2, <2>6 DEF MayBegin, Unfinished, Terminal, Answers!Unfinished
    <3>5. Answers!Retry
      BY <2>3, <3>3, <3>4 DEF Answers!Retry, Newest
    <3> QED
      BY <3>5 DEF AnswersNext, Answers!Next
  <2> QED
    BY <1>2, <2>4, <2>5, <2>6, FieldTypes DEF Ready, Kinds
<1> QED
  BY <1>3, <1>4 DEF Begin

(* A running answer is finished.                                           *)
LEMMA FinishedAnswers ==
  ASSUME TypeOK, db.exists, db'.exists = db.exists, NEW status \in Terminal,
         db.answer.status = "running", db'.answer.status = status,
         db'.answer.turn = db.answer.turn, db'.answer.by = db.answer.by
  PROVE  AnswersNext
<1>1. Newest = [turn |-> db.answer.turn, by |-> db.answer.by, status |-> "running"]
  BY DEF Newest
<1>2. Newest' = [turn |-> db.answer.turn, by |-> db.answer.by, status |-> status]
  BY DEF Newest
<1>3. Newest' = [Newest EXCEPT !.status = status]
  BY <1>1, <1>2
<1>4. Newest.status = "running" /\ status \in Answers!Unfinished \union {"completed"}
  BY <1>1 DEF Terminal, Answers!Unfinished
<1>5. Answers!Finish
  BY <1>3, <1>4 DEF Answers!Finish, Newest
<1> QED
  BY <1>5 DEF AnswersNext, Answers!Next

LEMMA FinishAnswers == ASSUME ChatInv, Finish PROVE AnswersNext
<1>1. op # NoOp /\ op.pc = "finish" /\ TypeOK /\ db' \in {db, Settled}
  BY DEF Finish, ChatInv, Attempt
<1>2. /\ op \in OpRecords /\ db \in DbRecords /\ op.id \in 1..MaxOps
      /\ op.gen # 0 /\ op.want # "none" /\ (OwnsAs(op.gen) \/ Done) /\ SettlementInv
      /\ db.exists
  BY <1>1, Working DEF PlaceInv, SettlementInv
<1>3. op.want \in Terminal \union {"discarded"}
  BY <1>2, FieldTypes
<1>4. CASE db' = db
  BY <1>4, AnswersKept DEF SameRow
<1>5. CASE op.want = "discarded" /\ db' = Settled
  <2>1. db'.exists = db.exists /\ db'.answer = db.answer
    BY <1>2, <1>5, DiscardedIs DEF Settled
  <2> QED
    BY <2>1, AnswersKept DEF SameRow
<1>6. CASE op.want # "discarded" /\ op.kind = "regenerate" /\ db' = Settled
  <2>1. op.want \in {"completed", "failed"} /\ op.want \in Terminal /\ db' = Swapped(db, op.want)
    BY <1>2, <1>3, <1>6 DEF Settled, SettlementInv, Terminal
  <2>2. CASE db.staged = NoAnswer
    BY <2>1, <2>2, AnswersKept DEF Swapped, SameRow
  <2>3. CASE db.staged # NoAnswer
    <3>1. /\ db' \in DbRecords /\ db'.exists = db.exists /\ db'.answer.turn = db.staged.turn
          /\ db'.answer.by = db.staged.by /\ db'.answer.status = op.want
      BY <1>2, <2>1, <2>3, SwappedIs
    <3>2. /\ db.staged.turn = db.answer.turn /\ db.staged.by = op.id
          /\ db.answer.status = "completed" /\ db.answer.by < op.id
      BY <1>2, <1>6, <2>3 DEF OwnsAs, Done
    <3>3. Newest = [turn |-> db.answer.turn, by |-> db.answer.by, status |-> "completed"]
      BY <1>2, <3>2 DEF Newest
    <3>4. Newest'.turn = Newest.turn /\ Newest'.by = op.id /\ Newest'.status = op.want
      BY <1>2, <3>1, <3>2 DEF Newest
    <3>5. Newest' = [Newest EXCEPT !.by = op.id, !.status = op.want]
      <4>1. op.id \in 0..MaxOps /\ Newest \in NewestRecords /\ Newest' \in NewestRecords
        BY <1>2, <3>1, Constants, NewestType, NewestTypeNext
      <4> QED
        BY <2>1, <3>4, <4>1, Rewritten
    <3>6. op.id \in Answers!Newer /\ Newest.status = "completed"
      BY <1>2, <3>2, <3>3 DEF Answers!Newer, Newest
    <3>7. Answers!Replace
      BY <2>1, <3>5, <3>6 DEF Answers!Replace, Newest
    <3> QED
      BY <3>7 DEF AnswersNext, Answers!Next
  <2> QED
    BY <2>2, <2>3
<1>7. CASE op.want # "discarded" /\ op.kind # "regenerate" /\ db' = Settled
  <2>1. op.want \in Terminal /\ db' = Finished(db, op.want)
    BY <1>3, <1>7 DEF Settled
  <2>2. /\ db'.exists = db.exists /\ db'.answer.turn = db.answer.turn
        /\ db'.answer.by = db.answer.by
        /\ db'.answer.status =
             IF db.answer.status = "running" THEN op.want ELSE db.answer.status
    BY <1>2, <2>1, FinishedIs
  <2>3. CASE db.answer.status = "running"
    BY <1>1, <1>2, <2>1, <2>2, <2>3, FinishedAnswers
  <2>4. CASE db.answer.status # "running"
    BY <2>1, <2>4, AnswersKept DEF Finished, SameRow
  <2> QED
    BY <2>3, <2>4
<1> QED
  BY <1>1, <1>4, <1>5, <1>6, <1>7

LEMMA RemoveDeletes == ASSUME ChatInv, Remove PROVE AnswersNext
<1>1. db.exists /\ TypeOK /\ db \in DbRecords /\ db' \in {db, Removed(db)}
  BY TypeOKis DEF Remove, ChatInv
<1>2. CASE db' = db
  BY <1>2, AnswersKept DEF SameRow
<1>3. CASE db' = Removed(db)
  <2>1. ~db'.exists
    BY <1>1, <1>3 DEF Removed, DbRecords
  <2>2. Newest' = Answers!Gone
    BY <2>1 DEF Newest, Answers!Gone
  <2>3. Newest # Answers!Gone
    BY <1>1, NewestExists
  <2>4. Answers!Delete
    BY <2>2, <2>3 DEF Answers!Delete, Newest
  <2> QED
    BY <2>4 DEF AnswersNext, Answers!Next
<1> QED
  BY <1>1, <1>2, <1>3

LEMMA OpenStoreRepairs == ASSUME ChatInv, OpenStore PROVE AnswersNext
<1>1. TypeOK /\ db \in DbRecords /\ db' = Repaired(db)
  BY TypeOKis DEF OpenStore, ChatInv
<1>2. /\ db'.exists = db.exists /\ db'.answer.turn = db.answer.turn
      /\ db'.answer.by = db.answer.by /\ db'.answer.id = db.answer.id
      /\ db'.answer.status =
           IF db.answer.status = "running" THEN "interrupted" ELSE db.answer.status
  BY <1>1, RepairedIs
<1>3. CASE db.answer.status # "running"
  BY <1>2, <1>3, AnswersKept DEF SameRow
<1>4. CASE ~db.exists
  <2>1. db.exists \in BOOLEAN /\ db'.exists = FALSE
    BY <1>1, <1>2, <1>4, RowTypes
  <2> QED
    BY <1>4, <2>1 DEF AnswersNext, Newest
<1>5. CASE db.exists /\ db.answer.status = "running"
  BY <1>1, <1>2, <1>5, FinishedAnswers DEF Terminal
<1> QED
  BY <1>3, <1>4, <1>5

(* The newest answer is asked for, retried, finished, replaced and deleted *)
(* as ChatAnswers has it, whatever fails.                                  *)
THEOREM ChatImplementsAnswers == Spec => ImplementsAnswers
<1>1. Init => Newest = Answers!Nothing
  BY DEF Init, Newest, Answers!Nothing, NoAnswer
<1>2. ChatInv /\ [Next]_vars => AnswersNext
  BY BeginAsks, FinishAnswers, RemoveDeletes, OpenStoreRepairs, OthersKeepAnswers
<1> QED
  BY <1>1, <1>2, ChatCorrect, PTL
     DEF Spec, ImplementsAnswers, Answers!Spec, AnswersNext, Newest
=============================================================================
