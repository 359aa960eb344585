---------------------- MODULE CandidateExecutionProofs ----------------------
(* Proofs about CandidateExecution, for routes and timeouts of any length. *)
EXTENDS CandidateExecution, TLAPS

-----------------------------------------------------------------------------
(* The inductive invariant, in four parts.                                 *)

(* The deadline is one timeout after the last piece, whichever candidate is *)
(* at work and however long it is waited for afterwards.                   *)
Clock == left = IF silence < Timeout THEN Timeout - silence ELSE 0

(* Only a committed candidate has been heard, and it is the current one.    *)
Voice ==
  /\ body.pc = "yield" => body.committed
  /\ \A i \in DOMAIN sent :
       sent[i].what = "chunk" => body.committed /\ sent[i].by = body.index

(* Where the body is while the application is where it is: a body that runs *)
(* has the lease, and a body that is over has closed its stream.           *)
Phases ==
  /\ open \subseteq {body.index}
  /\ body.pc \in {"new", "open", "over"} => open = {}
  /\ app = "acquire" => body.pc = "new" /\ sent = <<>> /\ lease = "none"
  /\ app \in {"first", "collect", "send", "close"} => body.pc # "new" /\ lease = "held"
  /\ app \in {"release", "refuse", "done"} => body.pc \in {"new", "over"}
  /\ app \in {"refuse", "done"} => lease # "held"

OnlyChunks == \A i \in DOMAIN sent : sent[i].what = "chunk"

Told == sent # <<>> /\ sent[Len(sent)].what # "chunk"

(* What is sent, by the way the request takes: nothing follows a mark, and  *)
(* whoever is still there when it ends has one.                            *)
Answering ==
  /\ \A i \in DOMAIN sent : sent[i].what # "chunk" => i = Len(sent)
  /\ kind = "stream" => \A i \in DOMAIN sent : sent[i].what = "refused" => i = 1
  /\ kind = "stream" => app # "collect" /\ answer # "message"
  /\ kind = "json" => app \notin {"first", "send", "close"}
  /\ app \in {"acquire", "first", "collect", "send", "close"} => answer = "none"
  /\ app = "refuse" => answer # "none"
  /\ app \in {"first", "collect", "send"} => OnlyChunks
  /\ app \in {"release", "refuse"} /\ answer # "none" => OnlyChunks
  /\ kind = "stream" /\ app = "first" => sent = <<>>
  /\ kind = "stream" /\ app \in {"release", "refuse"} /\ answer # "none" => sent = <<>>
  /\ body.error = "cancel" => client = "gone"
  /\ body.error = "exit" => app \in {"close", "release", "done"} /\ answer = "none"
  /\ app \in {"close", "release", "done"} /\ client # "gone" /\ answer = "none" => Told
  /\ app = "done" /\ client = "there" => Told

ExecutionInv == TypeOK /\ Clock /\ Voice /\ Phases /\ Answering

(* What the client is sent, and where the executor is.                     *)
Pieces ==
  [by : {0} \union Candidates, what : {"chunk", "end", "error", "refused", "message"}]

Bodies ==
  [pc : {"new", "open", "loop", "read", "yield", "closing", "over"},
   index : Candidates, committed : BOOLEAN,
   error : {"none", "failure", "raise", "cancel", "exit"}]

-----------------------------------------------------------------------------
(* Lemmas about what is sent and about the executor's bookkeeping.         *)

(* One more piece is sent: what was sent before stays where it was.        *)
LEMMA OneMore ==
  ASSUME NEW S, NEW s \in Seq(S), NEW p \in S
  PROVE  /\ Append(s, p) \in Seq(S) /\ Append(s, p) # <<>>
         /\ Len(Append(s, p)) = Len(s) + 1
         /\ Append(s, p)[Len(s) + 1] = p
         /\ \A i \in DOMAIN Append(s, p) :
              i = Len(s) + 1 \/ (i \in DOMAIN s /\ Append(s, p)[i] = s[i])
  OBVIOUS

(* Ending a body, or handing over to the next candidate, keeps its types.  *)
LEMMA JudgeKeepsTypes ==
  ASSUME body \in Bodies, NEW failed \in BOOLEAN, Judge(failed)
  PROVE  body' \in Bodies
<1> USE ExecutionAssumption DEF Judge, MayFallBack, Raises, Bodies, Candidates
<1>1. CASE ~failed
  BY <1>1
<1>2. CASE failed /\ ~body.committed /\ body.index < MaxCandidates
  <2>1. body' = [body EXCEPT !.pc = "open", !.index = @ + 1, !.error = "none"]
    BY <1>2
  <2>2. body.index + 1 \in Candidates
    BY <1>2
  <2> QED
    BY <2>1, <2>2
<1>3. CASE failed /\ ~(~body.committed /\ body.index < MaxCandidates)
  BY <1>3
<1> QED
  BY <1>1, <1>2, <1>3

-----------------------------------------------------------------------------
(* A candidate that cannot be opened hands over, and nobody has been heard. *)
LEMMA OpenInv ==
  ASSUME ExecutionInv, Open
  PROVE  ExecutionInv'
<1> USE ExecutionAssumption
    DEF ExecutionInv, Candidates, Open, BodyOnly, Judge, MayFallBack, Raises
<1>1. TypeOK'
  <2>1. body \in Bodies
    BY DEF TypeOK, Bodies
  <2>2. body' \in Bodies
    <3>1. CASE body' = [body EXCEPT !.pc = "loop"]
      BY <2>1, <3>1 DEF Bodies
    <3>2. CASE Judge(TRUE)
      BY <2>1, <3>2, JudgeKeepsTypes
    <3>3. CASE Raises("raise")
      BY <2>1, <3>3 DEF Bodies
    <3> QED
      BY <3>1, <3>2, <3>3
  <2>3. open' \subseteq Candidates /\ left' = left
    BY DEF TypeOK
  <2> QED
    BY <2>2, <2>3 DEF TypeOK, Bodies
<1>2. Clock'
  BY DEF TypeOK, Clock
<1>3. Voice'
  BY DEF TypeOK, Voice
<1>4. Phases'
  BY DEF TypeOK, Phases
<1>5. Answering'
  BY DEF TypeOK, Answering, Phases, Voice, OnlyChunks, Told
<1>6. QED
  BY <1>1, <1>2, <1>3, <1>4, <1>5

(* The deadline that has passed ends the attempt before it reads again.    *)
LEMMA LoopInv ==
  ASSUME ExecutionInv, Loop
  PROVE  ExecutionInv'
<1> USE ExecutionAssumption DEF ExecutionInv, Candidates, Loop, BodyOnly, Closing
<1>1. TypeOK'
  BY DEF TypeOK
<1>2. Clock'
  BY DEF TypeOK, Clock
<1>3. Voice'
  BY DEF TypeOK, Voice
<1>4. Phases'
  BY DEF TypeOK, Phases
<1>5. Answering'
  BY DEF TypeOK, Answering, Phases, Voice, OnlyChunks, Told
<1>6. QED
  BY <1>1, <1>2, <1>3, <1>4, <1>5

(* A chunk commits the candidate before it is passed on.                  *)
LEMMA ReadInv ==
  ASSUME ExecutionInv, Read
  PROVE  ExecutionInv'
<1> USE ExecutionAssumption DEF ExecutionInv, Candidates, Read, BodyOnly, Closing
<1>1. TypeOK'
  <2>1. body' \in Bodies
    <3>1. ASSUME NEW error \in {"none", "failure", "raise"}, Closing(error)
          PROVE  body' \in Bodies
      BY <3>1 DEF TypeOK, Bodies
    <3>2. CASE body' = [body EXCEPT !.pc = "yield", !.committed = TRUE]
      BY <3>2 DEF TypeOK, Bodies
    <3>3. CASE body' = [body EXCEPT !.pc = "loop"]
      BY <3>3 DEF TypeOK, Bodies
    <3> QED
      BY <3>1, <3>2, <3>3
  <2> QED
    BY <2>1 DEF TypeOK, Bodies
<1>2. Clock'
  BY DEF TypeOK, Clock
<1>3. Voice'
  BY DEF TypeOK, Voice
<1>4. Phases'
  BY DEF TypeOK, Phases
<1>5. Answering'
  BY DEF TypeOK, Answering, Phases, Voice, OnlyChunks, Told
<1>6. QED
  BY <1>1, <1>2, <1>3, <1>4, <1>5

(* The timer ends a read.                                                  *)
LEMMA ExpireInv ==
  ASSUME ExecutionInv, Expire
  PROVE  ExecutionInv'
<1> USE ExecutionAssumption DEF ExecutionInv, Candidates, Expire, BodyOnly, Closing
<1>1. TypeOK'
  BY DEF TypeOK
<1>2. Clock'
  BY DEF TypeOK, Clock
<1>3. Voice'
  BY DEF TypeOK, Voice
<1>4. Phases'
  BY DEF TypeOK, Phases
<1>5. Answering'
  BY DEF TypeOK, Answering, Phases, Voice, OnlyChunks, Told
<1>6. QED
  BY <1>1, <1>2, <1>3, <1>4, <1>5

(* Only a candidate that has not been heard hands over after its closing.  *)
LEMMA CloseEndsInv ==
  ASSUME ExecutionInv, CloseEnds
  PROVE  ExecutionInv'
<1> USE ExecutionAssumption
    DEF ExecutionInv, Candidates, CloseEnds, BodyOnly, Judge, MayFallBack, Raises
<1>1. TypeOK'
  <2>1. body \in Bodies
    BY DEF TypeOK, Bodies
  <2>2. body' \in Bodies
    <3>1. CASE body.error \in {"none", "failure"}
      BY <2>1, <3>1, JudgeKeepsTypes
    <3>2. CASE body.error \notin {"none", "failure"}
      BY <2>1, <3>2 DEF Bodies
    <3> QED
      BY <3>1, <3>2
  <2>3. open' \subseteq Candidates /\ left' = left
    BY DEF TypeOK
  <2> QED
    BY <2>2, <2>3 DEF TypeOK, Bodies
<1>2. Clock'
  BY DEF TypeOK, Clock
<1>3. Voice'
  BY DEF TypeOK, Voice
<1>4. Phases'
  BY DEF TypeOK, Phases
<1>5. Answering'
  BY DEF TypeOK, Answering, Phases, Voice, OnlyChunks, Told
<1>6. QED
  BY <1>1, <1>2, <1>3, <1>4, <1>5

(* A closing that takes too long is cancelled, and ends with an error.     *)
LEMMA CloseExpiresInv ==
  ASSUME ExecutionInv, CloseExpires
  PROVE  ExecutionInv'
<1> USE ExecutionAssumption DEF ExecutionInv, Candidates, CloseExpires, BodyOnly, Closing
<1>1. TypeOK'
  BY DEF TypeOK
<1>2. Clock'
  BY DEF TypeOK, Clock
<1>3. Voice'
  BY DEF TypeOK, Voice
<1>4. Phases'
  BY DEF TypeOK, Phases
<1>5. Answering'
  BY DEF TypeOK, Answering, Phases, Voice, OnlyChunks, Told
<1>6. QED
  BY <1>1, <1>2, <1>3, <1>4, <1>5

(* A cancelled executor belongs to a client that is gone.                  *)
LEMMA CancelInv ==
  ASSUME ExecutionInv, Cancel
  PROVE  ExecutionInv'
<1> USE ExecutionAssumption DEF ExecutionInv, Candidates, Cancel, BodyOnly, Closing, Raises
<1>1. TypeOK'
  BY DEF TypeOK
<1>2. Clock'
  BY DEF TypeOK, Clock
<1>3. Voice'
  BY DEF TypeOK, Voice
<1>4. Phases'
  BY DEF TypeOK, Phases
<1>5. Answering'
  BY DEF TypeOK, Answering, Phases, Voice, OnlyChunks, Told
<1>6. QED
  BY <1>1, <1>2, <1>3, <1>4, <1>5

(* What the deadline loses, the wait gains; past the deadline time goes on. *)
LEMMA TickInv ==
  ASSUME ExecutionInv, Tick
  PROVE  ExecutionInv'
<1> USE ExecutionAssumption DEF ExecutionInv, Candidates, Tick, BodyOnly
<1>1. TypeOK'
  BY DEF TypeOK
<1>2. Clock'
  BY DEF TypeOK, Clock
<1>3. Voice'
  BY DEF TypeOK, Voice
<1>4. Phases'
  BY DEF TypeOK, Phases
<1>5. Answering'
  BY DEF TypeOK, Answering, Phases, Voice, OnlyChunks, Told
<1>6. QED
  BY <1>1, <1>2, <1>3, <1>4, <1>5

(* A request starts with its lease, or is answered without one.            *)
LEMMA AcquireInv ==
  ASSUME ExecutionInv, Acquire
  PROVE  ExecutionInv'
<1> USE ExecutionAssumption DEF ExecutionInv, Candidates, Acquire
<1>1. TypeOK'
  BY DEF TypeOK
<1>2. Clock'
  BY DEF TypeOK, Clock
<1>3. Voice'
  BY DEF TypeOK, Voice
<1>4. Phases'
  BY DEF TypeOK, Phases
<1>5. Answering'
  BY DEF TypeOK, Answering, Phases, Voice, OnlyChunks, Told
<1>6. QED
  BY <1>1, <1>2, <1>3, <1>4, <1>5

(* The chunk joins the message, and the deadline is renewed.               *)
LEMMA CollectInv ==
  ASSUME ExecutionInv, Collect
  PROVE  ExecutionInv'
<1> USE ExecutionAssumption DEF ExecutionInv, Candidates, Collect, AppOnly, Resume, Piece
<1>piece. Piece(body.index, "chunk") \in Pieces /\ sent \in Seq(Pieces)
  BY DEF TypeOK, Pieces
<1>grown. ASSUME sent' = Append(sent, Piece(body.index, "chunk"))
      PROVE  /\ sent' \in Seq(Pieces) /\ sent' # <<>>
             /\ Len(sent') = Len(sent) + 1
             /\ sent'[Len(sent')] = Piece(body.index, "chunk")
             /\ \A i \in DOMAIN sent' :
                  i = Len(sent') \/ (i \in DOMAIN sent /\ sent'[i] = sent[i])
  BY <1>piece, <1>grown, OneMore
<1>1. TypeOK'
  <2>1. CASE sent' = Append(sent, Piece(body.index, "chunk")) /\ Resume /\ body.pc = "yield"
    <3>1. body' \in Bodies
      BY <2>1 DEF TypeOK, Bodies
    <3> QED
      BY <2>1, <1>grown, <3>1 DEF TypeOK, Pieces, Bodies
  <2>2. CASE body.pc = "over" /\ UNCHANGED <<client, body, left, silence, sent>>
    BY <2>2 DEF TypeOK, Pieces
  <2> QED
    BY <2>1, <2>2
<1>2. Clock'
  BY DEF TypeOK, Clock
<1>3. Voice'
  <2>1. CASE sent' = Append(sent, Piece(body.index, "chunk")) /\ Resume /\ body.pc = "yield"
    BY <2>1, <1>grown DEF TypeOK, Voice
  <2>2. CASE body.pc = "over" /\ UNCHANGED <<client, body, left, silence, sent>>
    BY <2>2 DEF TypeOK, Voice
  <2> QED
    BY <2>1, <2>2
<1>4. Phases'
  BY DEF TypeOK, Phases
<1>5. Answering'
  <2>1. CASE sent' = Append(sent, Piece(body.index, "chunk")) /\ Resume /\ body.pc = "yield"
    BY <2>1, <1>grown DEF TypeOK, Answering, Phases, Voice, OnlyChunks, Told
  <2>2. CASE body.pc = "over" /\ UNCHANGED <<client, body, left, silence, sent>>
    BY <2>2 DEF TypeOK, Answering, Phases, Voice, OnlyChunks, Told
  <2> QED
    BY <2>1, <2>2
<1>6. QED
  BY <1>1, <1>2, <1>3, <1>4, <1>5

(* The first chunk decides that the answer is a stream.                    *)
LEMMA FirstInv ==
  ASSUME ExecutionInv, First
  PROVE  ExecutionInv'
<1> USE ExecutionAssumption DEF ExecutionInv, Candidates, First, AppOnly
<1>1. TypeOK'
  BY DEF TypeOK
<1>2. Clock'
  BY DEF TypeOK, Clock
<1>3. Voice'
  BY DEF TypeOK, Voice
<1>4. Phases'
  BY DEF TypeOK, Phases
<1>5. Answering'
  BY DEF TypeOK, Answering, Phases, Voice, OnlyChunks, Told
<1>6. QED
  BY <1>1, <1>2, <1>3, <1>4, <1>5

(* A chunk that is sent is the current candidate's.                        *)
LEMMA SendInv ==
  ASSUME ExecutionInv, Send
  PROVE  ExecutionInv'
<1> USE ExecutionAssumption DEF ExecutionInv, Candidates, Send, AppOnly, Resume, Piece
<1>piece. Piece(body.index, "chunk") \in Pieces /\ sent \in Seq(Pieces)
  BY DEF TypeOK, Pieces
<1>grown. ASSUME sent' = Append(sent, Piece(body.index, "chunk"))
      PROVE  /\ sent' \in Seq(Pieces) /\ sent' # <<>>
             /\ Len(sent') = Len(sent) + 1
             /\ sent'[Len(sent')] = Piece(body.index, "chunk")
             /\ \A i \in DOMAIN sent' :
                  i = Len(sent') \/ (i \in DOMAIN sent /\ sent'[i] = sent[i])
  BY <1>piece, <1>grown, OneMore
<1>1. TypeOK'
  <2>1. CASE sent' = Append(sent, Piece(body.index, "chunk")) /\ Resume /\ body.pc = "yield"
    <3>1. body' \in Bodies
      BY <2>1 DEF TypeOK, Bodies
    <3> QED
      BY <2>1, <1>grown, <3>1 DEF TypeOK, Pieces, Bodies
  <2>2. CASE UNCHANGED <<body, left, silence, sent>>
    BY <2>2 DEF TypeOK, Pieces
  <2> QED
    BY <2>1, <2>2
<1>2. Clock'
  BY DEF TypeOK, Clock
<1>3. Voice'
  <2>1. CASE sent' = Append(sent, Piece(body.index, "chunk")) /\ Resume /\ body.pc = "yield"
    BY <2>1, <1>grown DEF TypeOK, Voice
  <2>2. CASE UNCHANGED <<body, left, silence, sent>>
    BY <2>2 DEF TypeOK, Voice
  <2> QED
    BY <2>1, <2>2
<1>4. Phases'
  BY DEF TypeOK, Phases
<1>5. Answering'
  <2>1. CASE sent' = Append(sent, Piece(body.index, "chunk")) /\ Resume /\ body.pc = "yield"
    BY <2>1, <1>grown DEF TypeOK, Answering, Phases, Voice, OnlyChunks, Told
  <2>2. CASE UNCHANGED <<body, left, silence, sent>>
    BY <2>2 DEF TypeOK, Answering, Phases, Voice, OnlyChunks, Told
  <2> QED
    BY <2>1, <2>2
<1>6. QED
  BY <1>1, <1>2, <1>3, <1>4, <1>5

(* The frame that ends a stream is its last.                               *)
LEMMA EndStreamInv ==
  ASSUME ExecutionInv, EndStream
  PROVE  ExecutionInv'
<1> USE ExecutionAssumption DEF ExecutionInv, Candidates, EndStream, AppOnly, Mark, Piece
<1>1. TypeOK'
  <2>1. sent' \in Seq(Pieces)
    <3>1. ASSUME NEW what \in {"end", "error"} PROVE Append(sent, Mark(what)) \in Seq(Pieces)
      BY OneMore DEF TypeOK, Pieces
    <3> QED
      BY <3>1 DEF TypeOK, Pieces
  <2> QED
    BY <2>1 DEF TypeOK, Pieces
<1>2. Clock'
  BY DEF TypeOK, Clock
<1>3. Voice'
  BY DEF TypeOK, Voice
<1>4. Phases'
  BY DEF TypeOK, Phases
<1>5. Answering'
  <2>1. body.error \in {"none", "failure", "raise", "cancel"}
    BY DEF TypeOK, Answering
  <2>2. ASSUME NEW what \in {"end", "error"}, sent' = Append(sent, Mark(what))
        PROVE  Answering'
    <3>1. Mark(what) \in Pieces /\ sent \in Seq(Pieces)
      BY DEF TypeOK, Pieces
    <3>2. /\ sent' # <<>> /\ Len(sent') = Len(sent) + 1
          /\ sent'[Len(sent')] = Mark(what)
          /\ \A i \in DOMAIN sent' :
               i = Len(sent') \/ (i \in DOMAIN sent /\ sent'[i] = sent[i])
      BY <2>2, <3>1, OneMore
    <3>3. /\ app = "send" /\ app' = "close"
          /\ kind = "stream" /\ kind' = "stream" /\ answer = "none" /\ answer' = "none"
          /\ body' = body /\ client' = client /\ OnlyChunks
          /\ body.error = "cancel" => client = "gone"
      BY DEF TypeOK, Answering
    <3>4. /\ \A i \in DOMAIN sent' :
               i = Len(sent') \/ sent'[i].what = "chunk"
          /\ sent'[Len(sent')].what = what /\ what # "chunk" /\ what # "refused"
      BY <3>2, <3>3 DEF OnlyChunks
    <3>5. /\ \A i \in DOMAIN sent' : sent'[i].what # "chunk" => i = Len(sent')
          /\ \A i \in DOMAIN sent' : sent'[i].what # "refused"
      BY <3>4
    <3>6. Told'
      BY <3>2, <3>4 DEF Told
    <3>7. body.error # "exit"
      BY <2>1
    <3> HIDE DEF ExecutionInv, EndStream, AppOnly, Mark, Piece
    <3> QED
      BY <3>3, <3>5, <3>6, <3>7 DEF Answering
  <2>3. CASE body.error = "cancel" /\ sent' = sent
    BY <2>3 DEF TypeOK, Answering, Phases, OnlyChunks, Told
  <2>4. \/ sent' = Append(sent, Mark("end")) \/ sent' = Append(sent, Mark("error"))
        \/ body.error = "cancel" /\ sent' = sent
    BY <2>1
  <2> QED
    BY <2>2, <2>3, <2>4
<1>6. QED
  BY <1>1, <1>2, <1>3, <1>4, <1>5

(* A body is closed before its lease is given back.                        *)
LEMMA CloseInv ==
  ASSUME ExecutionInv, Close
  PROVE  ExecutionInv'
<1> USE ExecutionAssumption DEF ExecutionInv, Candidates, Close, AppOnly, Closing
<1>1. TypeOK'
  BY DEF TypeOK
<1>2. Clock'
  BY DEF TypeOK, Clock
<1>3. Voice'
  BY DEF TypeOK, Voice
<1>4. Phases'
  BY DEF TypeOK, Phases
<1>5. Answering'
  BY DEF TypeOK, Answering, Phases, Voice, OnlyChunks, Told
<1>6. QED
  BY <1>1, <1>2, <1>3, <1>4, <1>5

(* The lease goes when the body is over.                                   *)
LEMMA ReleaseInv ==
  ASSUME ExecutionInv, Release
  PROVE  ExecutionInv'
<1> USE ExecutionAssumption DEF ExecutionInv, Candidates, Release
<1>1. TypeOK'
  BY DEF TypeOK
<1>2. Clock'
  BY DEF TypeOK, Clock
<1>3. Voice'
  BY DEF TypeOK, Voice
<1>4. Phases'
  BY DEF TypeOK, Phases
<1>5. Answering'
  BY DEF TypeOK, Answering, Phases, Voice, OnlyChunks, Told
<1>6. QED
  BY <1>1, <1>2, <1>3, <1>4, <1>5

(* A response that is no stream is sent once.                              *)
LEMMA RespondInv ==
  ASSUME ExecutionInv, Respond
  PROVE  ExecutionInv'
<1> USE ExecutionAssumption DEF ExecutionInv, Candidates, Respond, Mark, Piece
<1>1. TypeOK'
  <2>1. sent' \in Seq(Pieces)
    <3>1. answer \in {"refused", "message"}
      BY DEF TypeOK, Answering
    <3>2. Mark(answer) \in Pieces
      BY <3>1 DEF Pieces
    <3> QED
      BY <3>2, OneMore DEF TypeOK, Pieces
  <2> QED
    BY <2>1 DEF TypeOK, Pieces
<1>2. Clock'
  BY DEF TypeOK, Clock
<1>3. Voice'
  BY DEF TypeOK, Voice
<1>4. Phases'
  BY DEF TypeOK, Phases
<1>5. Answering'
  BY DEF TypeOK, Answering, Phases, Voice, OnlyChunks, Told
<1>6. QED
  BY <1>1, <1>2, <1>3, <1>4, <1>5

(* A client that leaves changes nothing else.                              *)
LEMMA DisconnectInv ==
  ASSUME ExecutionInv, Disconnect
  PROVE  ExecutionInv'
<1> USE ExecutionAssumption DEF ExecutionInv, Candidates, Disconnect
<1>1. TypeOK'
  BY DEF TypeOK
<1>2. Clock'
  BY DEF TypeOK, Clock
<1>3. Voice'
  BY DEF TypeOK, Voice
<1>4. Phases'
  BY DEF TypeOK, Phases
<1>5. Answering'
  BY DEF TypeOK, Answering, Phases, Voice, OnlyChunks, Told
<1>6. QED
  BY <1>1, <1>2, <1>3, <1>4, <1>5

-----------------------------------------------------------------------------
(* The invariant, and the properties of the runs.                          *)

(* A request starts in the invariant.                                      *)
LEMMA InitInv ==
  Init => ExecutionInv
<1> SUFFICES ASSUME Init PROVE ExecutionInv
  OBVIOUS
<1> USE ExecutionAssumption DEF Init, NotStarted, Candidates
<1>1. TypeOK
  BY DEF TypeOK
<1>2. Clock
  BY DEF Clock
<1>3. Voice /\ Phases /\ Answering
  BY DEF Voice, Phases, Answering
<1> QED
  BY <1>1, <1>2, <1>3 DEF ExecutionInv

(* Every step of the request keeps it.                                     *)
LEMMA StepInv ==
  ExecutionInv /\ [Next]_vars => ExecutionInv'
<1> SUFFICES ASSUME ExecutionInv, [Next]_vars PROVE ExecutionInv'
  OBVIOUS
<1>1. CASE Execution
  BY <1>1, OpenInv, LoopInv, ExpireInv, CloseEndsInv, CloseExpiresInv, CancelInv
     DEF Execution
<1>2. CASE Application
  BY <1>2, AcquireInv, CollectInv, FirstInv, SendInv, EndStreamInv, CloseInv,
     ReleaseInv, RespondInv
     DEF Application
<1>3. CASE Read \/ Tick \/ Disconnect
  BY <1>3, ReadInv, TickInv, DisconnectInv
<1>4. CASE UNCHANGED vars
  BY <1>4 DEF vars, ExecutionInv, TypeOK, Clock, Voice, Phases, Answering, OnlyChunks, Told
<1> QED
  BY <1>1, <1>2, <1>3, <1>4 DEF Next

(* Types, clock, voice, phases and answers are what they are in every run. *)
THEOREM ExecutionCorrect == Spec => []ExecutionInv
<1> QED
  BY InitInv, StepInv, PTL DEF Spec

(* However many models the route has, a client hears one of them           *)
(* (application/execution.py, candidate_committed).                        *)
THEOREM OneVoiceHolds == Spec => []OneVoice
<1>1. ExecutionInv => OneVoice
  BY DEF ExecutionInv, Voice, OneVoice
<1> QED
  BY <1>1, ExecutionCorrect, PTL

(* A provider stream is open under the lease of its configuration only, and *)
(* a request that has ended leaves neither (api/response_streams.py).      *)
THEOREM StreamsHaveLeaseHolds == Spec => []StreamsHaveLease
<1>1. ASSUME ExecutionInv PROVE StreamsHaveLease
  <2>1. ASSUME open # {} PROVE app \in {"first", "collect", "send", "close"}
    BY <1>1, <2>1 DEF ExecutionInv, TypeOK, Phases
  <2>2. app = "done" => open = {} /\ lease # "held"
    BY <1>1 DEF ExecutionInv, Phases
  <2> QED
    BY <1>1, <2>1, <2>2 DEF ExecutionInv, Phases, StreamsHaveLease
<1> QED
  BY <1>1, ExecutionCorrect, PTL

(* A client that stays is answered once, whatever the route and its models  *)
(* do (api/response_streams.py, api/request_lifetime.py).                  *)
THEOREM AnsweredOnceHolds == Spec => []AnsweredOnce
<1>1. ExecutionInv => AnsweredOnce
  BY DEF ExecutionInv, Answering, Told, AnsweredOnce
<1> QED
  BY <1>1, ExecutionCorrect, PTL

(* Any number of candidates, each as slow as it likes to answer and to be   *)
(* closed, share one deadline: none is asked for more after it             *)
(* (application/execution.py, progress_deadline).                          *)
THEOREM OneTimeoutHolds == Spec => OneTimeout
<1>1. ASSUME ExecutionInv, Next, body.pc # "read", body'.pc = "read"
      PROVE  silence < Timeout
  <2>1. Loop
    <3> USE <1>1 DEF ExecutionInv, TypeOK
    <3>1. CASE Execution
      <4>1. ~Open
        BY DEF Open, Judge, Raises
      <4>2. ~Expire /\ ~CloseExpires
        BY DEF Expire, CloseExpires, Closing
      <4>3. ~CloseEnds
        BY DEF CloseEnds, Judge, Raises
      <4>4. ~Cancel
        BY DEF Cancel, Closing, Raises
      <4> QED
        BY <3>1, <4>1, <4>2, <4>3, <4>4 DEF Execution
    <3>2. ~Application
      BY DEF Application, Acquire, Collect, First, Send, EndStream, Close, Release, Respond,
             AppOnly, Resume, Closing
    <3>3. ~Read /\ ~Tick /\ ~Disconnect
      BY DEF Read, Tick, Disconnect, Closing
    <3> QED
      BY <3>1, <3>2, <3>3 DEF Next
  <2>2. left # 0
    BY <1>1, <2>1 DEF Loop, Closing, ExecutionInv, TypeOK
  <2> QED
    BY <1>1, <2>2, ExecutionAssumption DEF ExecutionInv, TypeOK, Clock
<1>2. ExecutionInv /\ [Next]_vars =>
        [body.pc # "read" /\ body'.pc = "read" => silence < Timeout]_vars
  BY <1>1
<1> QED
  BY <1>2, ExecutionCorrect, PTL DEF Spec, OneTimeout
=============================================================================
