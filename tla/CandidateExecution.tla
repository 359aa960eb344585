------------------------- MODULE CandidateExecution -------------------------
(* One inference request from its arrival to the end of its response: the   *)
(* route that leases the configuration (api/routes.py), the executor that   *)
(* tries one model after the other (application/execution.py), and the      *)
(* response that owns what they have opened (api/response_streams.py), for  *)
(* a client that may go away (api/request_lifetime.py).                     *)
(*                                                                         *)
(* The executor is an asynchronous generator, body, which runs when the     *)
(* application task, app, asks it for a chunk; a cancellation is delivered   *)
(* where either of them awaits.  What an upstream does is free.             *)
EXTENDS Integers, Sequences

CONSTANTS
  MaxCandidates,   (* the route: its primary model and its fallbacks       *)
  Timeout,         (* progress_timeout_seconds, in ticks                   *)
  MaxDelay,        (* bound: ticks that are awaited beyond the timeout     *)
  MaxChunks        (* bound: chunks of one response                        *)

ASSUME ExecutionAssumption ==
  /\ MaxCandidates \in Nat \ {0}
  /\ Timeout \in Nat \ {0}
  /\ MaxDelay \in Nat
  /\ MaxChunks \in Nat

Candidates == 1..MaxCandidates

VARIABLES
  kind,      (* what the client has asked for: a stream or one JSON message *)
  client,    (* there, leaving (its task is cancelled), gone (it has heard) *)
  app,       (* the application task                                       *)
  answer,    (* the response it has settled on, if it is not a stream      *)
  body,      (* provider_body: its point, candidate_committed, how it ends *)
  open,      (* candidates whose provider stream is open                   *)
  left,      (* ticks to progress_deadline, none once it has passed        *)
  silence,   (* history: ticks awaited since the request made progress     *)
  lease,     (* of the configuration                                       *)
  sent       (* what the client is sent, or a message is put together from *)

vars == <<kind, client, app, answer, body, open, left, silence, lease, sent>>

Piece(by, what) == [by |-> by, what |-> what]

Mark(what) == Piece(0, what)

NotStarted == [pc |-> "new", index |-> 1, committed |-> FALSE, error |-> "none"]

Init ==
  /\ kind \in {"stream", "json"}
  /\ client = "there" /\ app = "acquire" /\ answer = "none"
  /\ body = NotStarted /\ open = {} /\ left = Timeout /\ silence = 0
  /\ lease = "none" /\ sent = <<>>

-----------------------------------------------------------------------------
(* The executor.                                                           *)

BodyOnly == UNCHANGED <<kind, app, answer, lease, sent>>

(* The generator's finally: the stream of the candidate is closed.         *)
Closing(error) == body' = [body EXCEPT !.pc = "closing", !.error = error]

Raises(error) == body' = [body EXCEPT !.pc = "over", !.error = error]

(* Mutant of MayFallBack: what the client has been sent does not matter.   *)
MutantMayFallBack == body.index < MaxCandidates

MayFallBack == ~body.committed /\ body.index < MaxCandidates

(* Mutant of Judge: the next candidate gets a deadline of its own.         *)
MutantJudge(failed) ==
  CASE ~failed -> Raises("none") /\ UNCHANGED left
    [] failed /\ MayFallBack ->
         body' = [body EXCEPT !.pc = "open", !.index = @ + 1, !.error = "none"]
         /\ left' = Timeout
    [] OTHER -> Raises("failure") /\ UNCHANGED left

(* What follows the closing: the next candidate, under the same deadline.   *)
Judge(failed) ==
  /\ CASE ~failed -> Raises("none")
       [] failed /\ MayFallBack ->
            body' = [body EXCEPT !.pc = "open", !.index = @ + 1, !.error = "none"]
       [] OTHER -> Raises("failure")
  /\ UNCHANGED left

(* open_candidate: a preflight may refuse the request, or the provider may  *)
(* be unknown.                                                             *)
Open ==
  /\ body.pc = "open"
  /\ \/ body' = [body EXCEPT !.pc = "loop"] /\ open' = open \union {body.index}
        /\ UNCHANGED left
     \/ Judge(TRUE) /\ UNCHANGED open
     \/ Raises("raise") /\ UNCHANGED <<open, left>>
  /\ BodyOnly /\ UNCHANGED <<client, silence>>

(* Mutant of Loop: the deadline is left to the timer.                      *)
MutantLoop ==
  /\ body.pc = "loop"
  /\ body' = [body EXCEPT !.pc = "read"]
  /\ BodyOnly /\ UNCHANGED <<client, open, left, silence>>

(* The head of the loop looks at the clock before it reads.                *)
Loop ==
  /\ body.pc = "loop"
  /\ IF left = 0 THEN Closing("raise") ELSE body' = [body EXCEPT !.pc = "read"]
  /\ BodyOnly /\ UNCHANGED <<client, open, left, silence>>

(* anext(provider_stream): a chunk, an empty one, the end, a failure that   *)
(* the next candidate may make good, or any other error.                   *)
Read ==
  /\ body.pc = "read"
  /\ \/ /\ Len(sent) < MaxChunks
        /\ body' = [body EXCEPT !.pc = "yield", !.committed = TRUE]
     \/ body' = [body EXCEPT !.pc = "loop"]
     \/ Closing("none")
     \/ Closing("failure")
     \/ Closing("raise")
  /\ BodyOnly /\ UNCHANGED <<client, open, left, silence>>

(* The timer of asyncio.timeout_at, whatever the stream makes of it.       *)
Expire ==
  /\ body.pc = "read" /\ left = 0
  /\ Closing("raise")
  /\ BodyOnly /\ UNCHANGED <<client, open, left, silence>>

CloseEnds ==
  /\ body.pc = "closing"
  /\ open' = open \ {body.index}
  /\ IF body.error \in {"none", "failure"}
     THEN Judge(body.error = "failure")
     ELSE Raises(body.error) /\ UNCHANGED left
  /\ BodyOnly /\ UNCHANGED <<client, silence>>

(* cleanup_timeout, which is set only where the loop was left without an    *)
(* error: the closing is cancelled, and nobody is tried after it.          *)
CloseExpires ==
  /\ body.pc = "closing" /\ body.error \in {"none", "failure"} /\ left = 0
  /\ Closing("raise")
  /\ BodyOnly /\ UNCHANGED <<client, open, left, silence>>

(* The cancellation of the application task, where the executor awaits.  A  *)
(* body that is closed by the cleanup runs in a task of its own.           *)
Cancel ==
  /\ client = "leaving"
  /\ \/ body.pc = "read" /\ Closing("cancel") /\ UNCHANGED open
     \/ /\ body.pc = "closing" /\ body.error # "exit"
        /\ Raises("cancel") /\ open' = open \ {body.index}
  /\ client' = "gone"
  /\ BodyOnly /\ UNCHANGED <<left, silence>>

(* The executor awaits the loop, an upstream, or a closing.  Time does not  *)
(* stop at the deadline: a timer is late, what it cancels takes its time,   *)
(* and a closing under an error has no timer at all.                       *)
Awaits == body.pc \in {"loop", "read", "closing"}

Tick ==
  /\ Awaits /\ silence < Timeout + MaxDelay
  /\ left' = IF left = 0 THEN 0 ELSE left - 1
  /\ silence' = silence + 1
  /\ BodyOnly /\ UNCHANGED <<client, body, open>>

-----------------------------------------------------------------------------
(* The application task.                                                   *)

(* The lease, the checks of the request, and the executor's own preflight.  *)
Acquire ==
  /\ app = "acquire"
  /\ \/ /\ client = "leaving" /\ client' = "gone"
        /\ app' = "done" /\ UNCHANGED <<answer, body, lease>>
     \/ /\ client # "leaving" /\ app' = "refuse" /\ answer' = "refused"
        /\ UNCHANGED <<client, body, lease>>
     \/ /\ client # "leaving" /\ app' = "release" /\ answer' = "refused"
        /\ lease' = "held"
        /\ UNCHANGED <<client, body>>
     \/ /\ client # "leaving" /\ app' = IF kind = "json" THEN "collect" ELSE "first"
        /\ lease' = "held"
        /\ body' = [body EXCEPT !.pc = "open"]
        /\ UNCHANGED <<client, answer>>
  /\ UNCHANGED <<kind, open, left, silence, sent>>

(* The consumer takes the chunk: the deadline is renewed when it is back.   *)
Resume ==
  /\ body' = [body EXCEPT !.pc = "loop"]
  /\ left' = Timeout /\ silence' = 0

AppOnly == UNCHANGED <<kind, open, lease>>

(* aggregate_anthropic_sse_to_message                                      *)
Collect ==
  /\ app = "collect"
  /\ \/ /\ body.pc = "yield" /\ Resume
        /\ sent' = Append(sent, Piece(body.index, "chunk"))
        /\ UNCHANGED <<client, app, answer>>
     \/ /\ body.pc = "over"
        /\ app' = "release"
        /\ answer' \in CASE body.error = "cancel" -> {"none"}
                         [] body.error = "none" -> {"message", "refused"}
                         [] OTHER -> {"refused"}
        /\ UNCHANGED <<client, body, left, silence, sent>>
  /\ AppOnly

(* _first_chunk_streaming_response: what fails before the first chunk is    *)
(* refused with a status of its own, and so is an empty stream.            *)
First ==
  /\ app = "first"
  /\ \/ body.pc = "yield" /\ app' = "send" /\ UNCHANGED answer
     \/ /\ body.pc = "over"
        /\ app' = "release"
        /\ answer' = IF body.error = "cancel" THEN "none" ELSE "refused"
  /\ AppOnly /\ UNCHANGED <<client, body, left, silence, sent>>

(* Mutant of EndStream: a failure ends the response without a frame.       *)
MutantEndStream ==
  /\ app = "send" /\ body.pc = "over"
  /\ app' = "close"
  /\ sent' = IF body.error = "none" THEN Append(sent, Mark("end")) ELSE sent
  /\ AppOnly /\ UNCHANGED <<client, answer, body, left, silence>>

(* The end of the body, or the terminal frame of what it has raised.       *)
EndStream ==
  /\ app = "send" /\ body.pc = "over"
  /\ app' = "close"
  /\ sent' = CASE body.error = "none" -> Append(sent, Mark("end"))
               [] body.error \in {"failure", "raise"} -> Append(sent, Mark("error"))
               [] OTHER -> sent
  /\ AppOnly /\ UNCHANGED <<client, answer, body, left, silence>>

(* StreamingResponse sends a chunk, or is cancelled while it sends.        *)
Send ==
  /\ app = "send" /\ body.pc = "yield"
  /\ \/ /\ sent' = Append(sent, Piece(body.index, "chunk")) /\ Resume
        /\ UNCHANGED <<client, app>>
     \/ /\ client = "leaving" /\ client' = "gone"
        /\ app' = "close"
        /\ UNCHANGED <<body, left, silence, sent>>
  /\ AppOnly /\ UNCHANGED answer

(* Mutant of Close: the lease is released before the body is closed.       *)
MutantClose ==
  /\ app = "close" /\ body.pc \in {"yield", "over"}
  /\ app' = "release"
  /\ IF body.pc = "yield" THEN Closing("exit") ELSE UNCHANGED body
  /\ AppOnly /\ UNCHANGED <<client, answer, left, silence, sent>>

(* ManagedStreamingResponse._cleanup closes the body, then releases.       *)
Close ==
  /\ app = "close" /\ body.pc \in {"yield", "over"}
  /\ IF body.pc = "yield"
     THEN Closing("exit") /\ UNCHANGED app
     ELSE app' = "release" /\ UNCHANGED body
  /\ AppOnly /\ UNCHANGED <<client, answer, left, silence, sent>>

Release ==
  /\ app = "release"
  /\ lease' = "released"
  /\ app' = IF answer = "none" THEN "done" ELSE "refuse"
  /\ UNCHANGED <<kind, client, answer, body, open, left, silence, sent>>

(* The response that is not a stream is sent.                              *)
Respond ==
  /\ app = "refuse"
  /\ sent' = IF client = "there" THEN Append(sent, Mark(answer)) ELSE sent
  /\ app' = "done"
  /\ UNCHANGED <<kind, client, answer, body, open, left, silence, lease>>

(* The client disconnects: its application task is cancelled.              *)
Disconnect ==
  /\ client = "there" /\ app # "done"
  /\ client' = "leaving"
  /\ UNCHANGED <<kind, app, answer, body, open, left, silence, lease, sent>>

-----------------------------------------------------------------------------
Execution == Open \/ Loop \/ Expire \/ CloseEnds \/ CloseExpires \/ Cancel

Application == Acquire \/ Collect \/ First \/ Send \/ EndStream \/ Close \/ Release \/ Respond

Next == Execution \/ Read \/ Tick \/ Application \/ Disconnect

Spec == Init /\ [][Next]_vars

(* The tasks run, time passes, a transport that is closed ends, and a      *)
(* client takes what it is sent or goes away.  An upstream owes nothing.   *)
Fairness == WF_vars(Execution) /\ WF_vars(Tick) /\ WF_vars(Application)

FairSpec == Spec /\ Fairness

-----------------------------------------------------------------------------
TypeOK ==
  /\ kind \in {"stream", "json"}
  /\ client \in {"there", "leaving", "gone"}
  /\ app \in {"acquire", "first", "collect", "send", "close", "release", "refuse", "done"}
  /\ answer \in {"none", "refused", "message"}
  /\ body \in [pc : {"new", "open", "loop", "read", "yield", "closing", "over"},
               index : Candidates, committed : BOOLEAN,
               error : {"none", "failure", "raise", "cancel", "exit"}]
  /\ open \subseteq Candidates
  /\ left \in 0..Timeout /\ silence \in 0..(Timeout + MaxDelay)
  /\ lease \in {"none", "held", "released"}
  /\ sent \in Seq([by : {0} \union Candidates,
                 what : {"chunk", "end", "error", "refused", "message"}])

(* A response is the words of one model: once a candidate's chunk is on its *)
(* way, no other candidate is ever asked.                                  *)
OneVoice ==
  \A i \in DOMAIN sent : sent[i].what = "chunk" => sent[i].by = body.index

(* A candidate is asked when the stream of the one before is closed, and a  *)
(* stream is open only while the request holds the configuration whose     *)
(* providers it uses; whatever ends the request, nothing stays open or held. *)
StreamsHaveLease ==
  /\ open \subseteq {body.index}
  /\ open # {} => lease = "held"
  /\ app = "done" => open = {} /\ lease # "held"

(* A client that stays is answered once: refused as a whole, or sent one    *)
(* message, or sent a stream that says how it ended.                       *)
AnsweredOnce ==
  /\ \A i \in DOMAIN sent : sent[i].what # "chunk" => i = Len(sent)
  /\ kind = "stream" => \A i \in DOMAIN sent : sent[i].what = "refused" => i = 1
  /\ app = "done" /\ client = "there" =>
       sent # <<>> /\ sent[Len(sent)].what # "chunk"

(* However many candidates fail, send nothing but empty chunks, or take     *)
(* their time to be closed: no upstream is asked for more once one progress *)
(* timeout has been awaited since the last piece of the answer.            *)
OneTimeout ==
  [][body.pc # "read" /\ body'.pc = "read" => silence < Timeout]_vars

(* Whatever the upstreams do, a request comes to its end.                  *)
RequestEnds == <>(app = "done")
=============================================================================
