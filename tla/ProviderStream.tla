--------------------------- MODULE ProviderStream ---------------------------
(* One answer of an OpenAI-chat provider (_OpenAIChatStreamRunner of        *)
(* providers/openai_chat/provider.py with providers/stream_recovery.py):    *)
(* what it writes is held back for a moment, so that a failure may be tried *)
(* again without the client seeing it; a failure after that is mended, by   *)
(* asking the model to go on or to complete the arguments of a call; and    *)
(* all of it within the attempts of one provider execution.                *)
(*                                                                         *)
(* A step handles one chunk of the upstream's stream, its end, or a failure. *)
EXTENDS ChatOutput

CONSTANTS
  MaxAttempts,   (* attempts of one execution                              *)
  MaxChunks,     (* bound: chunks of one attempt                           *)
  Mixed,         (* may one answer hold a call written as text and a       *)
                 (* native one?                                            *)
  Meant          (* what the model means to say, in letters                *)

Kinds == {"text", "reasoning"}

ASSUME StreamAssumption ==
  /\ MaxAttempts \in Nat \ {0}
  /\ MaxChunks \in Nat
  /\ Mixed \in BOOLEAN
  /\ Meant \in [Kinds -> Seq(Nat)]

VARIABLES
  pc,         (* of the runner                                             *)
  attempts,   (* attempts started                                          *)
  open,       (* attempts whose stream is not closed                       *)
  out,        (* the output of the current epoch, assembler.output         *)
  held,       (* RecoveryHoldbackBuffer: the events held back              *)
  committed,  (* ... and whether anything has been let through             *)
  up,         (* what the upstream has sent in this attempt                *)
  mend,       (* the repair under way: the error, and the call it is at    *)
  refreshed,  (* RequestEndpoint: credentials were refreshed               *)
  astray,     (* history: what a continuation was not to be joined to      *)
  client      (* what the client has received                              *)

vars == <<pc, attempts, open, out, held, committed, up, mend, refreshed, astray, client>>

Silence == [chunks |-> 0, finish |-> FALSE, sent |-> [t \in Tools |-> 0],
            named |-> {}, texttools |-> 0]

NoMend == [error |-> "none", call |-> 0]

Init ==
  /\ pc = "create" /\ attempts = 0 /\ open = 0
  /\ out = Fresh /\ held = <<>> /\ committed = FALSE
  /\ up = Silence /\ mend = NoMend /\ refreshed = FALSE
  /\ astray = {} /\ client = Nobody

Left == MaxAttempts - attempts

Told(events) == Through(Received, client, events)

-----------------------------------------------------------------------------
(* RecoveryHoldbackBuffer.push for the events of a step, which may be let   *)
(* through once the first of them is old enough or there are too many.     *)
Push(w) ==
  /\ out' = w.out
  /\ \/ committed /\ client' = Told(w.events) /\ UNCHANGED <<held, committed>>
     \/ ~committed /\ held' = held \o w.events /\ UNCHANGED <<committed, client>>
     \/ /\ ~committed /\ w.events # <<>> /\ Len(held \o w.events) > 1
        /\ committed' = TRUE /\ held' = <<>>
        /\ client' = Told(held \o w.events)

(* Everything is let through: flush, or the events of a final resolution.   *)
LetThrough(w) ==
  /\ out' = w.out
  /\ committed' = TRUE /\ held' = <<>>
  /\ client' = Told(held \o w.events)

-----------------------------------------------------------------------------
(* Opening an attempt: _create_stream.                                     *)

Create ==
  /\ pc = "create"
  /\ attempts' = attempts + 1 /\ open' = open + 1
  /\ pc' = "stream" /\ up' = Silence
  /\ UNCHANGED <<out, held, committed, mend, refreshed, astray, client>>

(* The request is refused: with other credentials or another body, or       *)
(* after a pause, it is made again while there are attempts.               *)
CreateFails ==
  /\ pc = "create"
  /\ attempts' = attempts + 1
  /\ \/ Left > 1 /\ UNCHANGED <<pc, refreshed>>
     \/ Left > 1 /\ ~refreshed /\ refreshed' = TRUE /\ UNCHANGED pc
     \/ pc' = "failed" /\ UNCHANGED refreshed
  /\ UNCHANGED <<open, out, held, committed, up, mend, astray, client>>

-----------------------------------------------------------------------------
(* Chunks.                                                                 *)

(* A native call names itself before or with its arguments, or after them.  *)
Native(t, name, piece) ==
  /\ name \/ piece
  /\ name => t \notin up.named
  /\ piece => up.sent[t] < Len(Whole)
  /\ Mixed \/ up.texttools = 0
  /\ up' = [up EXCEPT !.chunks = @ + 1,
                      !.named = IF name THEN @ \union {t} ELSE @,
                      !.sent[t] = IF piece THEN @ + 1 ELSE @]
  /\ Push(NativeCall(CloseContent(Began(Nothing(out))), t, name,
                     IF piece THEN <<up.sent[t] + 1>> ELSE <<>>))

TextTool ==
  /\ TextIndex(out) \in Tools
  /\ Mixed \/ \A t \in Tools : t \notin up.named /\ up.sent[t] = 0
  /\ up' = [up EXCEPT !.chunks = @ + 1, !.texttools = @ + 1]
  /\ Push(TextCall(Began(Nothing(out))))

(* What the model has not said yet; it says it letter by letter.            *)
Unsaid(kind) ==
  SubSeq(Meant[kind], Len(Spoken(out.blocks, kind)) + 1, Len(Meant[kind]))

Text ==
  /\ Unsaid("text") # <<>>
  /\ up' = [up EXCEPT !.chunks = @ + 1]
  /\ Push(Say(EnsureText(Began(Nothing(out))), "text", <<Head(Unsaid("text"))>>))

Reasoning ==
  /\ Unsaid("reasoning") # <<>>
  /\ up' = [up EXCEPT !.chunks = @ + 1]
  /\ Push(Say(EnsureReasoning(Began(Nothing(out))), "reasoning",
              <<Head(Unsaid("reasoning"))>>))

(* The chunk with the finish_reason, on its own.                           *)
FinishReason ==
  /\ up' = [up EXCEPT !.finish = TRUE]
  /\ Push(Began(Nothing(out)))

Chunk ==
  /\ pc = "stream" /\ ~up.finish
  /\ \/ /\ up.chunks < MaxChunks
        /\ \/ Text \/ Reasoning \/ TextTool
           \/ \E t \in Tools, name, piece \in BOOLEAN : Native(t, name, piece)
     \/ FinishReason
  /\ UNCHANGED <<pc, attempts, open, mend, refreshed, astray>>

(* The stream ends after its finish_reason: finish_upstream,                *)
(* prepare_completion, terminal_events and the flush.                      *)
EndUpstream ==
  /\ pc = "stream" /\ up.finish
  /\ LetThrough(FinishSuccess(Completed(Nothing(out))))
  /\ open' = open - 1
  /\ pc' = "done"
  /\ UNCHANGED <<attempts, up, mend, refreshed, astray>>

-----------------------------------------------------------------------------
(* Failures: _resolve_attempt_failure.                                     *)

(* A failure that ends the answer: what is shown is closed; what is not is  *)
(* dropped, but for calls that are whole.                                  *)
FinalError(salvageable) ==
  /\ pc' = "failed"
  /\ IF committed \/ salvageable
     THEN LetThrough(CloseUnclosed(Nothing(out)))
     ELSE held' = <<>> /\ UNCHANGED <<out, committed, client>>

(* RecoveryController.advance_failure                                      *)
MayRetry ==
  /\ Left > 0
  /\ ~committed
  /\ ~Salvageable(out)
  /\ ~(HasOutput(out) /\ Left = 1)

MayMend == HasOutput(out) /\ (Left > 0 \/ Salvageable(out))

(* A new epoch: what was held back is discarded.                           *)
Restart ==
  /\ pc' = "create" /\ out' = Fresh /\ held' = <<>>
  /\ UNCHANGED <<committed, client>>

RetryEarly == MayRetry /\ Restart /\ UNCHANGED <<mend, refreshed>>

(* RequestEndpoint.retry_authentication, once and before anything is shown. *)
RetryAuthentication ==
  /\ ~refreshed /\ ~committed /\ Left > 0
  /\ refreshed' = TRUE
  /\ Restart
  /\ UNCHANGED mend

BeginMend(error) ==
  /\ ~MayRetry /\ MayMend
  /\ pc' = "mend"
  /\ mend' = [error |-> error, call |-> 0]
  /\ UNCHANGED <<out, held, committed, client, refreshed>>

(* Mutant of CloseScope: the stream that has failed is closed at the end.   *)
MutantCloseScope == UNCHANGED open

(* The scope of the attempt is closed before a retry and before a mend.     *)
CloseScope == open' = open - 1

(* The stream breaks, ends without a finish_reason, or does not parse; a    *)
(* malformed native call is reported by an adapter that has let none begin. *)
StreamFails ==
  /\ pc = "stream"
  /\ CloseScope
  /\ \/ \E error \in {"transient", "protocol"} :
          /\ error = "protocol" => ~\E t \in Tools : out.tools[t].known
          /\ \/ RetryEarly
             \/ BeginMend(error)
             \/ ~MayRetry /\ ~MayMend /\ FinalError(Salvageable(out))
                /\ UNCHANGED <<mend, refreshed>>
     \/ FinalError(Salvageable(out)) /\ UNCHANGED <<mend, refreshed>>
     \/ RetryAuthentication
  /\ UNCHANGED <<attempts, up, astray>>

-----------------------------------------------------------------------------
(* Mending: _recovery_events.                                              *)

Mend(w) ==
  /\ LetThrough(FinishSuccess(w))
  /\ pc' = "done"
  /\ UNCHANGED <<mend, refreshed>>

GiveUp == FinalError(FALSE) /\ UNCHANGED <<mend, refreshed>>

(* The calls are whole: the answer ends as if the model had ended it.       *)
Salvage ==
  /\ pc = "mend" /\ Salvageable(out)
  /\ Mend(Nothing(out))
  /\ UNCHANGED <<attempts, open, up, astray>>

(* What _repair_tool_args starts from: the arguments written, or those held. *)
RepairPrefix(t) == IF out.tools[t].args # <<>> THEN out.tools[t].args ELSE out.tools[t].held

Broken == {t \in Started(out) : RepairPrefix(t) # Whole}

(* Nothing can be asked: no text, no reasoning and no call, or no attempts. *)
Hopeless ==
  /\ pc = "mend" /\ ~Salvageable(out)
  /\ \/ Left = 0
     \/ /\ ~HasTool(out)
        /\ Spoken(out.blocks, "text") = <<>> /\ Spoken(out.blocks, "reasoning") = <<>>
  /\ GiveUp
  /\ UNCHANGED <<attempts, open, up, astray>>

(* Mutant of Ask: the attempts of a repair are not counted.                *)
MutantAsk ==
  /\ pc = "mend" /\ ~Salvageable(out) /\ Left > 0
  /\ HasTool(out) \/ Spoken(out.blocks, "text") # <<>> \/ Spoken(out.blocks, "reasoning") # <<>>
  /\ open' = open + 1
  /\ pc' = "asking"
  /\ UNCHANGED <<attempts, out, held, committed, up, mend, refreshed, astray, client>>

(* A continuation or a repair is asked for.                                *)
Ask ==
  /\ pc = "mend" /\ ~Salvageable(out) /\ Left > 0
  /\ HasTool(out) \/ Spoken(out.blocks, "text") # <<>> \/ Spoken(out.blocks, "reasoning") # <<>>
  /\ attempts' = attempts + 1 /\ open' = open + 1
  /\ pc' = "asking"
  /\ UNCHANGED <<out, held, committed, up, mend, refreshed, astray, client>>

(* _collect_recovery_output fails: it is made again while it may be.        *)
AnswerFails ==
  /\ pc = "asking"
  /\ open' = open - 1
  /\ \/ Left > 0 /\ pc' = "mend"
        /\ UNCHANGED <<out, held, committed, mend, refreshed, client>>
     \/ GiveUp
  /\ UNCHANGED <<attempts, up, astray>>

(* Mutant of JoinRepair: the whole arguments are written after the prefix.  *)
MutantJoinRepair(w, t) == ToolDelta(w, t, Whole)

(* accept_tool_json_repair and the delta that completes the arguments.      *)
JoinRepair(w, t) ==
  ToolDelta(w, t, SubSeq(Whole, Len(w.out.tools[t].args) + 1, Len(Whole)))

(* One call after the other is repaired; the events are kept until all are. *)
RepairTool(w, t) ==
  IF w.out.tools[t].started /\ w.out.tools[t].args # Whole THEN JoinRepair(w, t) ELSE w

Repaired(w) == Through(RepairTool, w, InOrder)

(* A repair is refused when it does not complete the call.  The last one    *)
(* that is accepted completes the answer.                                  *)
AnswerRepair ==
  /\ pc = "asking" /\ HasTool(out)
  /\ open' = open - 1
  /\ \/ mend.call + 1 < Cardinality(Broken) /\ pc' = "mend"
        /\ mend' = [mend EXCEPT !.call = @ + 1]
        /\ UNCHANGED <<out, held, committed, refreshed, client>>
     \/ mend.call + 1 >= Cardinality(Broken) /\ Mend(Repaired(Nothing(out)))
     \/ Left > 0 /\ pc' = "mend"
        /\ UNCHANGED <<out, held, committed, mend, refreshed, client>>
     \/ Left = 0 /\ GiveUp
  /\ UNCHANGED <<attempts, up, astray>>

(* What a model that was asked to go on may say, of what it means to say:   *)
(* from anywhere in what was said, or the end of it, to anywhere, or nothing. *)
Continuations(kind) ==
  {c \in [from : 0..Len(Spoken(out.blocks, kind)), to : 0..Len(Meant[kind])] : c.from <= c.to}

Passage(kind, c) == SubSeq(Meant[kind], c.from + 1, c.to)

(* Nothing tells where a continuation belongs but its letters: it breaks    *)
(* off within what was said, or also fits where it was not meant to.       *)
Misleads(kind, c) ==
  /\ c.from < c.to
  /\ \/ c.to < Len(Spoken(out.blocks, kind))
     \/ \E n \in Overlaps(Spoken(out.blocks, kind), Passage(kind, c)) :
          c.from + n > Len(Spoken(out.blocks, kind))

(* Mutant of Joined: what the model says is added as it is.                *)
MutantJoined(kind, more, short) == more

Joined(kind, more, short) == Suffix(Spoken(out.blocks, kind), more, short)

(* The text and the reasoning that is new is written, then the calls, which *)
(* only a request that kept its tools may bring.                           *)
Continued(w, reasoning, text, call) ==
  LET thought == IF reasoning = <<>> THEN w
                 ELSE Say(EnsureReasoning(w), "reasoning", reasoning)
      spoken == IF text = <<>> THEN thought ELSE Say(EnsureText(thought), "text", text)
  IN IF call THEN NativeCall(CloseContent(spoken), 0, TRUE, Whole) ELSE spoken

AnswerContinues ==
  /\ pc = "asking" /\ ~HasTool(out)
  /\ open' = open - 1
  /\ \E c \in [text : Continuations("text"), reasoning : Continuations("reasoning")],
        short \in SUBSET Kinds, call \in BOOLEAN :
       LET Suffixed(kind) == Joined(kind, Passage(kind, c[kind]), kind \in short)
           more == Continued(Nothing(out), Suffixed("reasoning"), Suffixed("text"), call)
       IN /\ call => mend.error = "protocol"
          /\ astray' = {kind \in Kinds : Misleads(kind, c[kind])}
          /\ IF more.events = <<>> THEN GiveUp ELSE Mend(more)
  /\ UNCHANGED <<attempts, up>>

-----------------------------------------------------------------------------
(* The consumer goes away, at any yield or await: what is open is closed.   *)
Close ==
  /\ pc \notin {"done", "failed", "closed"}
  /\ pc' = "closed" /\ open' = 0
  /\ UNCHANGED <<attempts, out, held, committed, up, mend, refreshed, astray, client>>

Work ==
  \/ Create \/ CreateFails
  \/ Chunk \/ EndUpstream \/ StreamFails
  \/ Salvage \/ Hopeless \/ Ask \/ AnswerFails \/ AnswerRepair \/ AnswerContinues

Next == Work \/ Close

Spec == Init /\ [][Next]_vars

-----------------------------------------------------------------------------
Ended == {"done", "failed", "closed"}

(* The client gets a stream that keeps the contract of stream_contracts.py: *)
(* one beginning, pieces in open blocks only, and no block left open by an  *)
(* answer that has ended, however it was retried and mended.               *)
Contract ==
  /\ client.ok
  /\ pc \in {"done", "failed"} => \A b \in DOMAIN client.blocks : ~client.blocks[b].open
  /\ pc = "done" <=> client.ended

(* Across interruptions, retries and continuations the client reads what    *)
(* the model means to say, nothing of it twice and nothing in between left *)
(* out; only where the letters of a continuation mislead is that not sure. *)
SaidOnce ==
  \A kind \in Kinds \ astray : IsPrefix(Spoken(client.blocks, kind), Meant[kind])

(* An answer that was mended ends with whole calls only: the client runs    *)
(* them.                                                                   *)
MendedCallsAreWhole ==
  pc = "done" /\ mend.error # "none" =>
    \A b \in DOMAIN client.blocks :
      client.blocks[b].kind = "tool" => client.blocks[b].data = Whole

(* An attempt is over before the next is opened, or the execution would wait *)
(* for a slot of the admission that it holds itself.                       *)
OneAttemptAtATime == open <= 1 /\ (pc \in Ended \union {"create", "mend"} => open = 0)

(* What is left to do: the attempts, and the steps of the one under way.   *)
Remaining ==
  (MaxChunks + 4) * Left +
  CASE pc = "stream" -> 2 + (MaxChunks - up.chunks) + (IF up.finish THEN 0 ELSE 1)
    [] pc = "asking" -> 2
    [] pc \in {"create", "mend"} -> 1
    [] OTHER -> 0

(* However failures, retries, continuations and repairs follow each other,  *)
(* every step uses something up: no answer is tried for ever.              *)
NeverLoops == [][Remaining' < Remaining]_vars
=============================================================================
