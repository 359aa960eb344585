----------------------------- MODULE ChatOutput -----------------------------
(* What one attempt of an OpenAI-chat provider writes for its client: the   *)
(* block ledger (core/anthropic/streaming/ledger.py), the writer above it   *)
(* (providers/openai_chat/stream_output.py) and the assembly of tool calls  *)
(* (tool_calls.py), as operators on an output and the events it has written. *)
(*                                                                         *)
(* Text and reasoning are sequences of letters; the arguments of a          *)
(* tool call are two pieces, and whole when both are there in order.        *)
EXTENDS Naturals, Sequences, FiniteSets, SequencesExt

CONSTANTS
  MaxTools,    (* bound: tool calls of one answer                          *)
  Held         (* calls whose arguments are held back until they are whole, *)
               (* because names in them are aliases to be restored         *)

Tools == 0..(MaxTools - 1)

ASSUME OutputAssumption == MaxTools \in Nat \ {0} /\ Held \subseteq Tools

Whole == <<1, 2>>

(* The events of the stream, and a block as they tell of it.               *)
Event(type, block, kind, data) ==
  [type |-> type, block |-> block, kind |-> kind, data |-> data]

(* _record_block_start, _record_block_delta, _record_block_stop: the ledger *)
(* checks nothing.                                                         *)
Recorded(blocks, ev) ==
  CASE ev.type = "open" -> Append(blocks, [kind |-> ev.kind, open |-> TRUE, data |-> <<>>])
    [] ev.type = "delta" -> [blocks EXCEPT ![ev.block].data = @ \o ev.data]
    [] ev.type = "close" -> [blocks EXCEPT ![ev.block].open = FALSE]
    [] OTHER -> blocks

(* A sequence folded from the left: FoldLeft of SequencesExt, without the   *)
(* sets of indices that make it slow here.                                 *)
Through(op(_, _), base, seq) ==
  LET after[i \in 0..Len(seq)] == IF i = 0 THEN base ELSE op(after[i - 1], seq[i])
  IN after[Len(seq)]

-----------------------------------------------------------------------------
(* The client, which checks what assert_anthropic_stream_contract checks.  *)

Nobody == [started |-> FALSE, blocks |-> <<>>, ended |-> FALSE, ok |-> TRUE]

IsOpen(blocks, b) == b \in DOMAIN blocks /\ blocks[b].open

Expected(client, ev) ==
  /\ ~client.ended
  /\ (ev.type = "start") # client.started
  /\ ev.type = "open" => ev.block = Len(client.blocks) + 1
  /\ ev.type \in {"delta", "close"} => IsOpen(client.blocks, ev.block)
  /\ ev.type = "delta" => ev.kind = client.blocks[ev.block].kind
  /\ ev.type = "end" => \A b \in DOMAIN client.blocks : ~client.blocks[b].open

Received(client, ev) ==
  IF ~client.ok \/ ~Expected(client, ev)
  THEN [client EXCEPT !.ok = FALSE]
  ELSE [started |-> TRUE, blocks |-> Recorded(client.blocks, ev),
        ended |-> ev.type = "end", ok |-> TRUE]

-----------------------------------------------------------------------------
NoTool == [known |-> FALSE, named |-> FALSE, started |-> FALSE, open |-> FALSE,
           block |-> 0, args |-> <<>>, held |-> <<>>, early |-> <<>>]

(* ChatStreamOutput.__init__: text and reasoning are the block each writes  *)
(* to, 0 for none.                                                         *)
Fresh == [began |-> FALSE, blocks |-> <<>>, text |-> 0, reasoning |-> 0,
          tools |-> [t \in Tools |-> NoTool]]

(* What is written so far: an output and its events.                       *)
Nothing(out) == [out |-> out, events |-> <<>>]

Write(w, ev) == [out |-> [w.out EXCEPT !.blocks = Recorded(@, ev)],
                 events |-> Append(w.events, ev)]

NextBlock(w) == Len(w.out.blocks) + 1

Say(w, kind, data) ==
  Write(w, Event("delta", IF kind = "text" THEN w.out.text ELSE w.out.reasoning, kind, data))

(* start_events                                                            *)
Began(w) ==
  IF w.out.began THEN w
  ELSE [Write(w, Event("start", 0, "none", <<>>)) EXCEPT !.out.began = TRUE]

StopText(w) ==
  IF w.out.text = 0 THEN w
  ELSE [Write(w, Event("close", w.out.text, "text", <<>>)) EXCEPT !.out.text = 0]

StopReasoning(w) ==
  IF w.out.reasoning = 0 THEN w
  ELSE [Write(w, Event("close", w.out.reasoning, "reasoning", <<>>))
          EXCEPT !.out.reasoning = 0]

(* Mutant of EnsureText: the block of the reasoning stays open.            *)
MutantEnsureText(w) ==
  IF w.out.text # 0 THEN w
  ELSE [Write(w, Event("open", NextBlock(w), "text", <<>>))
          EXCEPT !.out.text = NextBlock(w), !.out.reasoning = 0]

(* ensure_text_block, ensure_reasoning_block                               *)
EnsureText(w) ==
  LET v == StopReasoning(w) IN
  IF v.out.text # 0 THEN v
  ELSE [Write(v, Event("open", NextBlock(v), "text", <<>>)) EXCEPT !.out.text = NextBlock(v)]

EnsureReasoning(w) ==
  LET v == StopText(w) IN
  IF v.out.reasoning # 0 THEN v
  ELSE [Write(v, Event("open", NextBlock(v), "reasoning", <<>>))
          EXCEPT !.out.reasoning = NextBlock(v)]

CloseContent(w) == StopText(StopReasoning(w))

StartTool(w, t) ==
  [Write(w, Event("open", NextBlock(w), "tool", <<>>))
     EXCEPT !.out.tools[t] = [@ EXCEPT !.known = TRUE, !.named = TRUE, !.started = TRUE,
                                       !.open = TRUE, !.block = NextBlock(w)]]

ToolDelta(w, t, data) ==
  [Write(w, Event("delta", w.out.tools[t].block, "tool", data))
     EXCEPT !.out.tools[t].args = @ \o data]

StopTool(w, t) ==
  IF ~w.out.tools[t].open THEN w
  ELSE [Write(w, Event("close", w.out.tools[t].block, "tool", <<>>))
          EXCEPT !.out.tools[t].open = FALSE]

InOrder == [i \in 1..MaxTools |-> i - 1]

(* close_all_blocks                                                        *)
CloseAll(w) == Through(StopTool, CloseContent(w), InOrder)

(* close_unclosed_blocks closes what the ledger has open, the last first.  *)
CloseBlock(w, b) ==
  IF ~w.out.blocks[b].open THEN w
  ELSE Write(w, Event("close", b, w.out.blocks[b].kind, <<>>))

CloseUnclosed(w) ==
  [Through(CloseBlock, w, Reverse([i \in 1..Len(w.out.blocks) |-> i]))
     EXCEPT !.out.text = 0, !.out.reasoning = 0,
               !.out.tools = [t \in Tools |-> [@[t] EXCEPT !.open = FALSE]]]

(* finish_success                                                          *)
FinishSuccess(w) == Write(CloseAll(w), Event("end", 0, "none", <<>>))

Started(out) == {t \in Tools : out.tools[t].started}

(* generated_output, has_emitted_tool_block, can_salvage_tool_use          *)
HasOutput(out) == out.blocks # <<>>
HasTool(out) == Started(out) # {}
Salvageable(out) == HasTool(out) /\ \A t \in Started(out) : out.tools[t].args = Whole

(* accumulated_text, accumulated_reasoning                                 *)
Spoken(blocks, kind) ==
  FlattenSeq([b \in DOMAIN blocks |-> IF blocks[b].kind = kind THEN blocks[b].data ELSE <<>>])

-----------------------------------------------------------------------------
(* _emit_tool_arg_delta                                                    *)
ToolArgs(w, t, data) ==
  LET held == w.out.tools[t].held \o data IN
  CASE data = <<>> -> w
    [] data # <<>> /\ t \in Held /\ held = Whole ->
         [ToolDelta(w, t, held) EXCEPT !.out.tools[t].held = <<>>]
    [] data # <<>> /\ t \in Held /\ held # Whole -> [w EXCEPT !.out.tools[t].held = held]
    [] OTHER -> ToolDelta(w, t, data)

(* process_tool_call: a call is noted, with its name when it has come; it    *)
(* opens its block when its name is known, and what came before is written  *)
(* then.                                                                   *)
Noted(w, t, name) ==
  [w EXCEPT !.out.tools[t] = [@ EXCEPT !.known = TRUE,
                                       !.named = w.out.tools[t].named \/ name]]

OpenedCall(w, t) == [StartTool(w, t) EXCEPT !.out.tools[t].early = <<>>]

NativeCall(w, t, name, data) ==
  LET noted == Noted(w, t, name)
      tool == noted.out.tools[t]
  IN CASE tool.started -> ToolArgs(noted, t, data)
       [] ~tool.started /\ tool.named ->
            ToolArgs(ToolArgs(OpenedCall(noted, t), t, tool.early), t, data)
       [] OTHER -> [noted EXCEPT !.out.tools[t].early = @ \o data]

(* iter_heuristic_tool_use_events: a call the model has written as text     *)
(* takes the number of calls so far for its index.                         *)
TextIndex(out) == Cardinality({t \in Tools : out.tools[t].known})

TextCall(w) ==
  LET t == TextIndex(w.out) IN
  StopTool(ToolDelta(StartTool(CloseContent(w), t), t, Whole), t)

(* flush_tool_argument_alias_buffers: what is held back is written as it is. *)
FlushTool(w, t) ==
  IF w.out.tools[t].held = <<>> THEN w
  ELSE [ToolDelta(w, t, w.out.tools[t].held) EXCEPT !.out.tools[t].held = <<>>]

(* prepare_completion: an answer of reasoning alone gets an empty text.     *)
Completed(w) ==
  LET silent == \/ w.out.blocks = <<>>
                \/ ~HasTool(w.out) /\ Spoken(w.out.blocks, "text") = <<>>
                                   /\ Spoken(w.out.blocks, "reasoning") # <<>>
      spoken == IF silent THEN Say(EnsureText(w), "text", <<>>) ELSE w
  IN CloseAll(Through(FlushTool, spoken, InOrder))

(* continuation_suffix: nothing when the two cannot be joined.             *)
Overlaps(said, more) ==
  {n \in 1..Len(more) : n <= Len(said)
                        /\ SubSeq(more, 1, n) = SubSeq(said, Len(said) - n + 1, Len(said))}

Suffix(said, more, short) ==
  CASE more = <<>> -> <<>>
    [] more # <<>> /\ IsPrefix(said, more) -> SubSeq(more, Len(said) + 1, Len(more))
    [] more # <<>> /\ ~IsPrefix(said, more) /\ Overlaps(said, more) # {} ->
         LET n == CHOOSE n \in Overlaps(said, more) : \A m \in Overlaps(said, more) : m <= n
         IN SubSeq(more, n + 1, Len(more))
    [] OTHER -> IF short THEN more ELSE <<>>
=============================================================================
