------------------------ MODULE ProviderStreamProofs ------------------------
(* Proofs about ProviderStream, for any number of attempts, chunks and      *)
(* calls.                                                                  *)
EXTENDS ProviderStream, FiniteSetTheorems, SequenceTheorems, WellFoundedInduction, TLAPS

(* Induction and recursion up to a bound.                                  *)

(* A nonempty set of numbers has a least one.                              *)
LEMMA Least ==
  ASSUME NEW S \in SUBSET Nat, S # {}
  PROVE  \E n \in S : \A m \in S : n <= m
<1>1. PICK x \in S : \A y \in S : ~ (<<y, x>> \in OpToRel(<, Nat))
  BY NatLessThanWellFounded, WFMin
<1>2. \A y \in S : ~ (<<y, x>> \in {ss \in Nat \X Nat : ss[1] < ss[2]})
  BY <1>1 DEF OpToRel
<1>3. \A y \in S : ~(y < x)
  BY <1>2
<1>4. \A y \in S : x <= y
  BY <1>3
<1> QED
  BY <1>4

(* A set that has 0, and with each number below K the next, has all of them. *)
LEMMA UpTo ==
  ASSUME NEW K \in Nat, NEW Good, 0 \in Good,
         \A n \in 0..K : n \in Good /\ n < K => n + 1 \in Good
  PROVE  \A n \in 0..K : n \in Good
<1> SUFFICES ASSUME (0..K) \ Good # {} PROVE FALSE
  OBVIOUS
<1>0. (0..K) \ Good \in SUBSET Nat
  OBVIOUS
<1>1. PICK b \in (0..K) \ Good : \A m \in (0..K) \ Good : b <= m
  BY <1>0, Least
<1>2. b \in Nat /\ b # 0 /\ b - 1 \in 0..K /\ b - 1 < K /\ b - 1 + 1 = b
  BY <1>1
<1>3. b - 1 \in Good
  BY <1>1, <1>2
<1> QED
  BY <1>1, <1>2, <1>3

(* g iterates the steps F, from s.                                         *)
Iteration(g, K, S, s, F) ==
  g \in [0..K -> S] /\ g[0] = s /\ \A n \in 1..K : g[n] = F[n][g[n - 1]]

(* Such an iteration exists: what a recursive function over 0..K computes.   *)
LEMMA Recursion ==
  ASSUME NEW K \in Nat, NEW S, NEW s \in S, NEW F \in [1..K -> [S -> S]]
  PROVE  \E g : Iteration(g, K, S, s, F)
<1> DEFINE Good == {k \in 0..K : \E g \in [0..k -> S] :
                                   g[0] = s /\ \A n \in 1..k : g[n] = F[n][g[n-1]]}
<1>1. 0 \in Good
  <2>1. /\ [n \in 0..0 |-> s] \in [0..0 -> S] /\ [n \in 0..0 |-> s][0] = s
        /\ \A n \in 1..0 : [i \in 0..0 |-> s][n] = F[n][[i \in 0..0 |-> s][n-1]]
    OBVIOUS
  <2>2. 0 \in 0..K
    OBVIOUS
  <2>3. \E g \in [0..0 -> S] : g[0] = s /\ \A n \in 1..0 : g[n] = F[n][g[n-1]]
    BY <2>1
  <2> QED BY <2>2, <2>3
<1>2. ASSUME NEW k \in Good, k < K PROVE k+1 \in Good
  <2>1. PICK g \in [0..k -> S] : g[0] = s /\ \A n \in 1..k : g[n] = F[n][g[n-1]]
    OBVIOUS
  <2> DEFINE h == [n \in 0..k+1 |-> IF n = k+1 THEN F[k+1][g[k]] ELSE g[n]]
  <2>2. k \in Nat /\ k+1 \in 1..K /\ k+1 \in 0..K /\ k \in 0..k
    BY <1>2
  <2>3. F[k+1][g[k]] \in S
    BY <2>1, <2>2
  <2>4. h \in [0..k+1 -> S]
    BY <2>1, <2>2, <2>3
  <2>5. h[0] = s
    BY <2>1, <2>2
  <2>6. \A n \in 1..k+1 : h[n] = F[n][h[n-1]]
    BY <2>1, <2>2
  <2> QED BY <2>2, <2>4, <2>5, <2>6
<1>3. \A n \in 0..K : n \in Good
  <2> HIDE DEF Good
  <2> QED BY <1>1, <1>2, UpTo
<1>4. K \in Good
  BY <1>3
<1> QED
  BY <1>4 DEF Iteration


-----------------------------------------------------------------------------
(* Attempts: what holds of them for any answer.                            *)

(* The states in which the answer goes on; Ended has the others.           *)
Live == {"create", "stream", "mend", "asking"}

(* The counters and the control state of the runner.                       *)
Control ==
  /\ pc \in Live \union Ended
  /\ attempts \in 0..MaxAttempts
  /\ pc = "create" => attempts < MaxAttempts
  /\ open = IF pc \in {"stream", "asking"} THEN 1 ELSE 0
  /\ up \in [chunks : 0..MaxChunks, finish : BOOLEAN, sent : [Tools -> Nat],
             named : SUBSET Tools, texttools : Nat]

(* An answer starts with its control state in order.                       *)
LEMMA ControlInit == Init => Control
  BY StreamAssumption DEF Init, Control, Live, Ended, Silence

(* How a failure, a retry or a mend may leave the control state.           *)
LEMMA ControlResolved ==
  /\ RetryEarly => pc' = "create" /\ Left > 0
  /\ RetryAuthentication => pc' = "create" /\ Left > 0
  /\ \A error : BeginMend(error) => pc' = "mend"
  /\ \A s : FinalError(s) => pc' = "failed"
  /\ GiveUp => pc' = "failed"
  /\ \A w : Mend(w) => pc' = "done"
<1>1. RetryEarly => pc' = "create" /\ Left > 0
  BY DEF RetryEarly, Restart, MayRetry
<1>2. RetryAuthentication => pc' = "create" /\ Left > 0
  BY DEF RetryAuthentication, Restart
<1>3. \A error : BeginMend(error) => pc' = "mend"
  BY DEF BeginMend
<1>4. \A s : FinalError(s) => pc' = "failed"
  BY DEF FinalError
<1>5. GiveUp => pc' = "failed"
  BY <1>4 DEF GiveUp
<1>6. \A w : Mend(w) => pc' = "done"
  BY DEF Mend
<1> QED
  BY <1>1, <1>2, <1>3, <1>4, <1>5, <1>6

(* What an answer to a continuation or a repair does to it.                *)
LEMMA ControlAnswered ==
  ASSUME AnswerFails \/ AnswerRepair \/ AnswerContinues
  PROVE  /\ pc = "asking" /\ pc' \in {"mend", "done", "failed"} /\ open' = open - 1
         /\ UNCHANGED attempts /\ UNCHANGED up
<1>1. pc = "asking" /\ open' = open - 1 /\ UNCHANGED attempts /\ UNCHANGED up
  <2>1. AnswerFails => pc = "asking" /\ open' = open - 1 /\ UNCHANGED attempts /\ UNCHANGED up
    BY DEF AnswerFails
  <2>2. AnswerRepair => pc = "asking" /\ open' = open - 1 /\ UNCHANGED attempts /\ UNCHANGED up
    BY DEF AnswerRepair
  <2>3. AnswerContinues => pc = "asking" /\ open' = open - 1 /\ UNCHANGED attempts /\ UNCHANGED up
    BY DEF AnswerContinues
  <2> QED
    BY <2>1, <2>2, <2>3
<1>2. AnswerFails => pc' = "mend" \/ GiveUp
  BY DEF AnswerFails
<1>3. AnswerRepair => pc' = "mend" \/ GiveUp \/ \E w : Mend(w)
  BY DEF AnswerRepair
<1>4. AnswerContinues => GiveUp \/ \E w : Mend(w)
  BY DEF AnswerContinues
<1>5. pc' \in {"mend", "done", "failed"}
  BY <1>2, <1>3, <1>4, ControlResolved
<1> QED
  BY <1>1, <1>5

(* What a chunk does to the account of the attempt.                        *)
LEMMA ControlChunk ==
  ASSUME Control, Chunk
  PROVE  /\ up' \in [chunks : 0..MaxChunks, finish : BOOLEAN, sent : [Tools -> Nat],
                     named : SUBSET Tools, texttools : Nat]
         /\ ~up.finish
         /\ \/ up.chunks < MaxChunks /\ up'.chunks = up.chunks + 1 /\ ~up'.finish
            \/ up'.chunks = up.chunks /\ up'.finish
<1> DEFINE Ups == [chunks : 0..MaxChunks, finish : BOOLEAN, sent : [Tools -> Nat],
                   named : SUBSET Tools, texttools : Nat]
<1>1. up \in Ups /\ MaxChunks \in Nat /\ ~up.finish
  BY StreamAssumption DEF Control, Chunk
<1>2. ASSUME up.chunks < MaxChunks /\ (Text \/ Reasoning)
      PROVE  up' \in Ups /\ up'.chunks = up.chunks + 1 /\ ~up'.finish
  <2>1. up' = [up EXCEPT !.chunks = @ + 1]
    BY <1>2 DEF Text, Reasoning
  <2> QED
    BY <1>1, <1>2, <2>1
<1>3. ASSUME up.chunks < MaxChunks /\ TextTool
      PROVE  up' \in Ups /\ up'.chunks = up.chunks + 1 /\ ~up'.finish
  <2>1. up' = [up EXCEPT !.chunks = @ + 1, !.texttools = @ + 1]
    BY <1>3 DEF TextTool
  <2>2. up' = [chunks |-> up.chunks + 1, finish |-> up.finish, sent |-> up.sent,
               named |-> up.named, texttools |-> up.texttools + 1]
    BY <1>1, <2>1
  <2> QED
    BY <1>1, <1>3, <2>2
<1>4. ASSUME up.chunks < MaxChunks, NEW t \in Tools, NEW name \in BOOLEAN,
             NEW piece \in BOOLEAN, Native(t, name, piece)
      PROVE  up' \in Ups /\ up'.chunks = up.chunks + 1 /\ ~up'.finish
  <2>1. up' = [up EXCEPT !.chunks = @ + 1,
                         !.named = IF name THEN @ \union {t} ELSE @,
                         !.sent[t] = IF piece THEN @ + 1 ELSE @]
    BY <1>4 DEF Native
  <2>2. up' = [chunks |-> up.chunks + 1, finish |-> up.finish,
               sent |-> [up.sent EXCEPT ![t] = IF piece THEN @ + 1 ELSE @],
               named |-> IF name THEN up.named \union {t} ELSE up.named,
               texttools |-> up.texttools]
    BY <1>1, <2>1
  <2>3. /\ up.chunks + 1 \in 0..MaxChunks
        /\ [up.sent EXCEPT ![t] = IF piece THEN @ + 1 ELSE @] \in [Tools -> Nat]
        /\ (IF name THEN up.named \union {t} ELSE up.named) \in SUBSET Tools
    BY <1>1, <1>4
  <2> QED
    BY <1>1, <2>2, <2>3
<1>5. ASSUME FinishReason PROVE up' \in Ups /\ up'.chunks = up.chunks /\ up'.finish
  <2>1. up' = [up EXCEPT !.finish = TRUE]
    BY <1>5 DEF FinishReason
  <2> QED
    BY <1>1, <2>1
<1> DEFINE NativeChunk == \E t \in Tools, name, piece \in BOOLEAN : Native(t, name, piece)
<1>6. \/ up.chunks < MaxChunks /\ (Text \/ Reasoning)
      \/ up.chunks < MaxChunks /\ TextTool
      \/ up.chunks < MaxChunks /\ NativeChunk
      \/ FinishReason
  BY DEF Chunk
<1> HIDE DEF Ups
<1>9. ASSUME up.chunks < MaxChunks /\ NativeChunk
      PROVE  up' \in Ups /\ up'.chunks = up.chunks + 1 /\ ~up'.finish
  <2>1. PICK t \in Tools, name \in BOOLEAN, piece \in BOOLEAN : Native(t, name, piece)
    BY <1>9
  <2> QED
    BY <1>4, <1>9, <2>1, Zenon
<1> HIDE DEF NativeChunk
<1>7. \/ up.chunks < MaxChunks /\ up'.chunks = up.chunks + 1 /\ ~up'.finish
      \/ up'.chunks = up.chunks /\ up'.finish
  BY <1>2, <1>3, <1>5, <1>6, <1>9
<1>8. up' \in Ups
  BY <1>2, <1>3, <1>5, <1>6, <1>9
<1> QED
  BY <1>1, <1>7, <1>8 DEF Ups

(* Every step keeps the control state in order.                            *)
LEMMA ControlStep == Control /\ [Next]_vars => Control'
<1> SUFFICES ASSUME Control, [Next]_vars PROVE Control'
  OBVIOUS
<1> USE DEF Live, Ended
<1>0. /\ MaxAttempts \in Nat /\ MaxChunks \in Nat /\ attempts \in 0..MaxAttempts
      /\ Left = MaxAttempts - attempts
  BY StreamAssumption DEF Control, Left
<1>1. CASE Create
  <2>1. Silence \in [chunks : 0..MaxChunks, finish : BOOLEAN, sent : [Tools -> Nat],
                     named : SUBSET Tools, texttools : Nat]
    BY <1>0 DEF Silence
  <2> QED
    BY <1>0, <1>1, <2>1 DEF Create, Control
<1>2. CASE CreateFails
  BY <1>0, <1>2 DEF CreateFails, Control
<1>3. CASE Chunk
  <2>1. UNCHANGED <<pc, attempts, open>>
    BY <1>3 DEF Chunk
  <2> QED
    BY <1>3, <2>1, ControlChunk DEF Control
<1>4. CASE EndUpstream
  BY <1>0, <1>4 DEF EndUpstream, Control
<1>5. CASE StreamFails
  <2>1. pc = "stream" /\ open' = open - 1 /\ UNCHANGED <<attempts, up>>
    BY <1>5 DEF StreamFails, CloseScope
  <2>2. pc' \in {"create", "mend", "failed"} /\ (pc' = "create" => Left > 0)
    BY <1>5, ControlResolved DEF StreamFails
  <2> QED
    BY <1>0, <2>1, <2>2 DEF Control
<1>6. CASE Salvage \/ Hopeless
  <2>1. /\ pc = "mend" /\ pc' \in {"done", "failed"}
        /\ UNCHANGED <<attempts, open, up>>
    BY <1>6, ControlResolved DEF Salvage, Hopeless
  <2> QED
    BY <2>1 DEF Control
<1>7. CASE Ask
  BY <1>0, <1>7 DEF Ask, Control
<1>8. CASE AnswerFails \/ AnswerRepair \/ AnswerContinues
  <2>1. /\ pc = "asking" /\ pc' \in {"mend", "done", "failed"} /\ open' = open - 1
        /\ UNCHANGED <<attempts, up>>
    BY <1>8, ControlAnswered
  <2> QED
    BY <1>0, <2>1 DEF Control
<1>9. CASE Close
  BY <1>9 DEF Close, Control
<1>10. CASE UNCHANGED vars
  BY <1>10 DEF vars, Control
<1> QED
  BY <1>1, <1>2, <1>3, <1>4, <1>5, <1>6, <1>7, <1>8, <1>9, <1>10 DEF Next, Work

(* However attempts fail, are retried, mended or closed (ProviderAttemptScope *)
(* of providers/http.py), one is over before the next is opened.            *)
THEOREM OneAtATime == Spec => []OneAttemptAtATime
<1>1. Control => OneAttemptAtATime
  BY DEF Control, OneAttemptAtATime, Live, Ended
<1> QED
  BY <1>1, ControlInit, ControlStep, PTL DEF Spec

(* The steps that are left to the attempt under way.                       *)
StepsLeft ==
  CASE pc = "stream" -> 2 + (MaxChunks - up.chunks) + (IF up.finish THEN 0 ELSE 1)
    [] pc = "asking" -> 2
    [] pc \in {"create", "mend"} -> 1
    [] OTHER -> 0

(* A step uses up what is left of the attempt, or an attempt.              *)
LEMMA RemainingFalls == Control /\ [Next]_vars => [Remaining' < Remaining]_vars
<1> SUFFICES ASSUME Control, Next PROVE Remaining' < Remaining
  OBVIOUS
<1> USE DEF Live, Ended
<1>0. /\ MaxAttempts \in Nat /\ MaxChunks \in Nat /\ attempts \in 0..MaxAttempts
      /\ up.chunks \in 0..MaxChunks /\ Control'
      /\ Left = MaxAttempts - attempts /\ Left' = MaxAttempts - attempts'
  BY StreamAssumption, ControlStep DEF Control, Left
<1>k. PICK K \in Nat : K = MaxChunks + 4
  BY <1>0
<1>1. K \in Nat /\ K = MaxChunks + 4 /\ Left \in Nat /\ Left' \in Int
  BY <1>0, <1>k DEF Control
<1>2. Remaining = K * Left + StepsLeft /\ Remaining' = K * Left' + StepsLeft'
  BY <1>k DEF Remaining, StepsLeft
<1>3. StepsLeft \in Nat /\ StepsLeft <= MaxChunks + 3
  BY <1>0 DEF StepsLeft
<1>4. /\ pc' = "stream" => StepsLeft' = 2 + (MaxChunks - up'.chunks) + (IF up'.finish THEN 0 ELSE 1)
      /\ pc' = "asking" => StepsLeft' = 2
      /\ pc' \in {"create", "mend"} => StepsLeft' = 1
      /\ pc' \in Ended => StepsLeft' = 0
  BY DEF StepsLeft
<1>5. /\ pc = "stream" => StepsLeft = 2 + (MaxChunks - up.chunks) + (IF up.finish THEN 0 ELSE 1)
      /\ pc = "asking" => StepsLeft = 2
      /\ pc \in {"create", "mend"} => StepsLeft = 1
      /\ pc \in Ended => StepsLeft = 0
  BY DEF StepsLeft
<1>6. K * Left \in Nat /\ K * Left' \in Int /\ K * (Left - 1) = K * Left - K
  BY <1>1
<1>7. ASSUME UNCHANGED attempts, StepsLeft' \in Int, StepsLeft' < StepsLeft PROVE Remaining' < Remaining
  <2>1. Left' = Left
    BY <1>0, <1>7
  <2> QED
    BY <1>2, <1>3, <1>6, <1>7, <2>1
<1>8. ASSUME attempts' = attempts + 1, StepsLeft' \in Int, StepsLeft' <= MaxChunks + 3 PROVE Remaining' < Remaining
  <2>1. Left' = Left - 1
    BY <1>0, <1>8
  <2>2. K * Left' = K * Left - K
    BY <1>6, <2>1
  <2>3. PICK p \in Nat : p = K * Left
    BY <1>6
  <2>4. Remaining' = p - K + StepsLeft' /\ Remaining = p + StepsLeft
    BY <1>2, <2>2, <2>3
  <2>5. PICK r \in Int : r = StepsLeft'
    BY <1>8
  <2>6. K = MaxChunks + 4 /\ r <= MaxChunks + 3 /\ MaxChunks \in Nat
    BY <1>0, <1>1, <1>8, <2>5
  <2>7. p - K + r < p
    BY <2>3, <2>5, <2>6
  <2>81. Remaining' = p - K + r
    BY <2>4, <2>5
  <2>82. p \in Int /\ K \in Int /\ r \in Int /\ p - K + r < p
    BY <1>1, <2>3, <2>5, <2>7
  <2>8. Remaining' < p /\ Remaining' \in Int
    BY ONLY <2>81, <2>82
  <2>9. p <= Remaining /\ Remaining \in Int
    BY <1>3, <2>3, <2>4
  <2> QED
    BY <2>3, <2>8, <2>9
<1>9. CASE Create
  <2>1. attempts' = attempts + 1 /\ pc' = "stream" /\ up'.chunks = 0
    BY <1>9 DEF Create, Silence
  <2> QED
    BY <1>0, <1>4, <1>8, <2>1
<1>10. CASE CreateFails
  <2>1. attempts' = attempts + 1 /\ pc' \in {"create", "failed"}
    BY <1>10 DEF CreateFails
  <2> QED
    BY <1>0, <1>4, <1>8, <2>1
<1>11. CASE Chunk
  <2>1. pc = "stream" /\ pc' = "stream" /\ UNCHANGED attempts
    BY <1>11 DEF Chunk
  <2>2. /\ ~up.finish /\ up'.chunks \in 0..MaxChunks
        /\ \/ up.chunks < MaxChunks /\ up'.chunks = up.chunks + 1 /\ ~up'.finish
           \/ up'.chunks = up.chunks /\ up'.finish
    BY <1>11, ControlChunk
  <2> QED
    BY <1>0, <1>4, <1>5, <1>7, <2>1, <2>2
<1>12. CASE EndUpstream \/ StreamFails
  <2>1. pc = "stream" /\ pc' \in {"done", "create", "mend", "failed"} /\ UNCHANGED attempts
    BY <1>12, ControlResolved DEF EndUpstream, StreamFails
  <2> QED
    BY <1>0, <1>4, <1>5, <1>7, <2>1
<1>13. CASE Salvage \/ Hopeless
  <2>1. pc = "mend" /\ pc' \in {"done", "failed"} /\ UNCHANGED attempts
    BY <1>13, ControlResolved DEF Salvage, Hopeless
  <2> QED
    BY <1>4, <1>5, <1>7, <2>1
<1>14. CASE Ask
  <2>1. pc = "mend" /\ pc' = "asking" /\ attempts' = attempts + 1
    BY <1>14 DEF Ask
  <2> QED
    BY <1>0, <1>4, <1>8, <2>1
<1>15. CASE AnswerFails \/ AnswerRepair \/ AnswerContinues
  <2>1. pc = "asking" /\ pc' \in {"mend", "done", "failed"} /\ UNCHANGED attempts
    BY <1>15, ControlAnswered
  <2> QED
    BY <1>4, <1>5, <1>7, <2>1
<1>16. CASE Close
  <2>1. pc \in Live /\ pc' = "closed" /\ UNCHANGED <<attempts, up>>
    BY <1>16 DEF Close, Control
  <2> QED
    BY <1>0, <1>4, <1>5, <1>7, <2>1
<1> QED
  BY <1>9, <1>10, <1>11, <1>12, <1>13, <1>14, <1>15, <1>16 DEF Next, Work

(* Retries, continuations and repairs (RecoveryController.advance_failure)  *)
(* come to an end whatever fails: each step of the runner leaves less to do. *)
THEOREM AnswersEnd == Spec => NeverLoops
  BY ControlInit, ControlStep, RemainingFalls, PTL DEF Spec, NeverLoops

-----------------------------------------------------------------------------
(* Folds.                                                                  *)

(* Two runs of the same steps from the same value are the same.            *)
LEMMA SameRun ==
  ASSUME NEW K \in Nat, NEW f, NEW g, f[0] = g[0],
         \A n \in 1..K : f[n - 1] = g[n - 1] => f[n] = g[n]
  PROVE  f[K] = g[K]
<1> DEFINE Good == {n \in 0..K : f[n] = g[n]}
<1>1. 0 \in Good
  OBVIOUS
<1>2. ASSUME NEW n \in 0..K, n \in Good, n < K PROVE n + 1 \in Good
  <2>1. n + 1 \in 1..K /\ (n + 1) - 1 = n
    BY <1>2
  <2> QED
    BY <2>1, <1>2
<1>3. \A n \in 0..K : n \in Good
  <2> HIDE DEF Good
  <2> QED
    BY <1>1, <1>2, UpTo
<1> QED
  BY <1>3

(* The folds of the model, by name.                                        *)
Read(c, events) == Through(Received, c, events)
StopEach(w, ts) == Through(StopTool, w, ts)
FlushEach(w, ts) == Through(FlushTool, w, ts)
RepairEach(w, ts) == Through(RepairTool, w, ts)
CloseEach(w, bs) == Through(CloseBlock, w, bs)

(* What Received makes of some events is computed by iterating over them.  *)
LEMMA ReceivedRuns ==
  ASSUME NEW W, NEW base \in W, NEW s, Len(s) \in Nat,
         \A n \in 1..Len(s) : \A w \in W : Received(w, s[n]) \in W
  PROVE  \E g \in [0..Len(s) -> W] :
           /\ g[0] = base /\ Read(base, s) = g[Len(s)]
           /\ \A n \in 1..Len(s) : g[n] = Received(g[n - 1], s[n])
<1>0. PICK K \in Nat : K = Len(s)
  OBVIOUS
<1>1. PICK F : F = [n \in 1..K |-> [w \in W |-> Received(w, s[n])]]
  OBVIOUS
<1>2. F \in [1..K -> [W -> W]]
  BY <1>0, <1>1
<1>3. PICK g \in [0..K -> W] : g[0] = base /\ \A n \in 1..K : g[n] = F[n][g[n - 1]]
  <2>1. \E g : Iteration(g, K, W, base, F)
    BY <1>0, <1>2, Recursion
  <2> QED
    BY <2>1 DEF Iteration
<1>4. ASSUME NEW n \in 1..K PROVE g[n] = Received(g[n - 1], s[n])
  <2>1. n - 1 \in 0..K
    BY <1>0
  <2>2. g[n - 1] \in W
    BY <2>1, <1>3
  <2> QED
    BY <2>2, <1>1, <1>3
<1> DEFINE Body(f) == [i \in 0..K |-> IF i = 0 THEN base ELSE Received(f[i - 1], s[i])]
<1>5. g = Body(g)
  <2>1. ASSUME NEW n \in 0..K PROVE g[n] = Body(g)[n]
    <3>1. CASE n = 0
      BY <3>1, <1>3
    <3>2. CASE n # 0
      <4>1. n \in 1..K
        BY <3>2, <1>0
      <4> QED
        BY <3>2, <4>1, <1>4
    <3> QED
      BY <3>1, <3>2
  <2> QED
    BY <2>1, <1>3
<1> DEFINE after == CHOOSE f : f = Body(f)
<1>6. after = Body(after)
  <2> HIDE DEF Body
  <2> QED
    BY <1>5
<1>7. Read(base, s) = after[K]
  BY <1>0 DEF Through, Read
<1>8. /\ after[0] = base
      /\ \A n \in 1..K : after[n] = Received(after[n - 1], s[n])
  <2>1. \A n \in 0..K : after[n] = Body(after)[n]
    <3> HIDE DEF after, Body
    <3> QED
      BY <1>6
  <2>2. \A n \in 0..K : Body(after)[n] = IF n = 0 THEN base ELSE Received(after[n - 1], s[n])
    <3> HIDE DEF after
    <3> QED
      OBVIOUS
  <2>3. 0 \in 0..K /\ \A n \in 1..K : n \in 0..K /\ n # 0
    BY <1>0
  <2> HIDE DEF after, Body
  <2> QED
    BY <2>1, <2>2, <2>3
<1>9. after[K] = g[K]
  <2> HIDE DEF after, Body
  <2>1. after[0] = g[0]
    BY <1>3, <1>8
  <2>2. \A n \in 1..K : after[n - 1] = g[n - 1] => after[n] = g[n]
    BY <1>4, <1>8
  <2> QED
    BY <1>0, <2>1, <2>2, SameRun
<1> QED
  BY <1>0, <1>3, <1>4, <1>7, <1>9

(* Calls are stopped one after the other,                                  *)
StopKeeps(W, s) == Len(s) \in Nat /\ \A n \in 1..Len(s) : \A w \in W : StopTool(w, s[n]) \in W

StopRun(g, W, base, s) ==
  /\ g \in [0..Len(s) -> W] /\ g[0] = base /\ StopEach(base, s) = g[Len(s)]
  /\ \A n \in 1..Len(s) : g[n] = StopTool(g[n - 1], s[n])

(* What StopEach makes of a sequence of calls is computed call by call.    *)
LEMMA StopToolRuns ==
  ASSUME NEW W, NEW base \in W, NEW s, StopKeeps(W, s)
  PROVE  \E g : StopRun(g, W, base, s)
<1>0. PICK K \in Nat : K = Len(s)
  BY DEF StopKeeps
<1>1. PICK F : F = [n \in 1..K |-> [w \in W |-> StopTool(w, s[n])]]
  OBVIOUS
<1>2. F \in [1..K -> [W -> W]]
  BY <1>0, <1>1 DEF StopKeeps
<1>3. PICK g \in [0..K -> W] : g[0] = base /\ \A n \in 1..K : g[n] = F[n][g[n - 1]]
  <2>1. \E g : Iteration(g, K, W, base, F)
    BY <1>0, <1>2, Recursion
  <2> QED
    BY <2>1 DEF Iteration
<1>4. ASSUME NEW n \in 1..K PROVE g[n] = StopTool(g[n - 1], s[n])
  <2>1. n - 1 \in 0..K
    BY <1>0
  <2>2. g[n - 1] \in W
    BY <2>1, <1>3
  <2> QED
    BY <2>2, <1>1, <1>3
<1> DEFINE Body(f) == [i \in 0..K |-> IF i = 0 THEN base ELSE StopTool(f[i - 1], s[i])]
<1>5. g = Body(g)
  <2>1. ASSUME NEW n \in 0..K PROVE g[n] = Body(g)[n]
    <3>1. CASE n = 0
      BY <3>1, <1>3
    <3>2. CASE n # 0
      <4>1. n \in 1..K
        BY <3>2, <1>0
      <4> QED
        BY <3>2, <4>1, <1>4
    <3> QED
      BY <3>1, <3>2
  <2> QED
    BY <2>1, <1>3
<1> DEFINE after == CHOOSE f : f = Body(f)
<1>6. after = Body(after)
  <2> HIDE DEF Body
  <2> QED
    BY <1>5
<1>7. StopEach(base, s) = after[K]
  BY <1>0 DEF Through, StopEach
<1>8. /\ after[0] = base
      /\ \A n \in 1..K : after[n] = StopTool(after[n - 1], s[n])
  <2>1. \A n \in 0..K : after[n] = Body(after)[n]
    <3> HIDE DEF after, Body
    <3> QED
      BY <1>6
  <2>2. \A n \in 0..K : Body(after)[n] = IF n = 0 THEN base ELSE StopTool(after[n - 1], s[n])
    <3> HIDE DEF after
    <3> QED
      OBVIOUS
  <2>3. 0 \in 0..K /\ \A n \in 1..K : n \in 0..K /\ n # 0
    BY <1>0
  <2> HIDE DEF after, Body
  <2> QED
    BY <2>1, <2>2, <2>3
<1>9. after[K] = g[K]
  <2> HIDE DEF after, Body
  <2>1. after[0] = g[0]
    BY <1>3, <1>8
  <2>2. \A n \in 1..K : after[n - 1] = g[n - 1] => after[n] = g[n]
    BY <1>4, <1>8
  <2> QED
    BY <1>0, <2>1, <2>2, SameRun
<1> QED
  BY <1>0, <1>3, <1>4, <1>7, <1>9 DEF StopRun

(* flushed one after the other,                                            *)
FlushKeeps(W, s) == Len(s) \in Nat /\ \A n \in 1..Len(s) : \A w \in W : FlushTool(w, s[n]) \in W

FlushRun(g, W, base, s) ==
  /\ g \in [0..Len(s) -> W] /\ g[0] = base /\ FlushEach(base, s) = g[Len(s)]
  /\ \A n \in 1..Len(s) : g[n] = FlushTool(g[n - 1], s[n])

(* So is what FlushEach makes of one.                                      *)
LEMMA FlushToolRuns ==
  ASSUME NEW W, NEW base \in W, NEW s, FlushKeeps(W, s)
  PROVE  \E g : FlushRun(g, W, base, s)
<1>0. PICK K \in Nat : K = Len(s)
  BY DEF FlushKeeps
<1>1. PICK F : F = [n \in 1..K |-> [w \in W |-> FlushTool(w, s[n])]]
  OBVIOUS
<1>2. F \in [1..K -> [W -> W]]
  BY <1>0, <1>1 DEF FlushKeeps
<1>3. PICK g \in [0..K -> W] : g[0] = base /\ \A n \in 1..K : g[n] = F[n][g[n - 1]]
  <2>1. \E g : Iteration(g, K, W, base, F)
    BY <1>0, <1>2, Recursion
  <2> QED
    BY <2>1 DEF Iteration
<1>4. ASSUME NEW n \in 1..K PROVE g[n] = FlushTool(g[n - 1], s[n])
  <2>1. n - 1 \in 0..K
    BY <1>0
  <2>2. g[n - 1] \in W
    BY <2>1, <1>3
  <2> QED
    BY <2>2, <1>1, <1>3
<1> DEFINE Body(f) == [i \in 0..K |-> IF i = 0 THEN base ELSE FlushTool(f[i - 1], s[i])]
<1>5. g = Body(g)
  <2>1. ASSUME NEW n \in 0..K PROVE g[n] = Body(g)[n]
    <3>1. CASE n = 0
      BY <3>1, <1>3
    <3>2. CASE n # 0
      <4>1. n \in 1..K
        BY <3>2, <1>0
      <4> QED
        BY <3>2, <4>1, <1>4
    <3> QED
      BY <3>1, <3>2
  <2> QED
    BY <2>1, <1>3
<1> DEFINE after == CHOOSE f : f = Body(f)
<1>6. after = Body(after)
  <2> HIDE DEF Body
  <2> QED
    BY <1>5
<1>7. FlushEach(base, s) = after[K]
  BY <1>0 DEF Through, FlushEach
<1>8. /\ after[0] = base
      /\ \A n \in 1..K : after[n] = FlushTool(after[n - 1], s[n])
  <2>1. \A n \in 0..K : after[n] = Body(after)[n]
    <3> HIDE DEF after, Body
    <3> QED
      BY <1>6
  <2>2. \A n \in 0..K : Body(after)[n] = IF n = 0 THEN base ELSE FlushTool(after[n - 1], s[n])
    <3> HIDE DEF after
    <3> QED
      OBVIOUS
  <2>3. 0 \in 0..K /\ \A n \in 1..K : n \in 0..K /\ n # 0
    BY <1>0
  <2> HIDE DEF after, Body
  <2> QED
    BY <2>1, <2>2, <2>3
<1>9. after[K] = g[K]
  <2> HIDE DEF after, Body
  <2>1. after[0] = g[0]
    BY <1>3, <1>8
  <2>2. \A n \in 1..K : after[n - 1] = g[n - 1] => after[n] = g[n]
    BY <1>4, <1>8
  <2> QED
    BY <1>0, <2>1, <2>2, SameRun
<1> QED
  BY <1>0, <1>3, <1>4, <1>7, <1>9 DEF FlushRun

(* repaired one after the other,                                           *)
RepairKeeps(W, s) == Len(s) \in Nat /\ \A n \in 1..Len(s) : \A w \in W : RepairTool(w, s[n]) \in W

RepairRun(g, W, base, s) ==
  /\ g \in [0..Len(s) -> W] /\ g[0] = base /\ RepairEach(base, s) = g[Len(s)]
  /\ \A n \in 1..Len(s) : g[n] = RepairTool(g[n - 1], s[n])

(* So is what RepairEach makes of one.                                     *)
LEMMA RepairToolRuns ==
  ASSUME NEW W, NEW base \in W, NEW s, RepairKeeps(W, s)
  PROVE  \E g : RepairRun(g, W, base, s)
<1>0. PICK K \in Nat : K = Len(s)
  BY DEF RepairKeeps
<1>1. PICK F : F = [n \in 1..K |-> [w \in W |-> RepairTool(w, s[n])]]
  OBVIOUS
<1>2. F \in [1..K -> [W -> W]]
  BY <1>0, <1>1 DEF RepairKeeps
<1>3. PICK g \in [0..K -> W] : g[0] = base /\ \A n \in 1..K : g[n] = F[n][g[n - 1]]
  <2>1. \E g : Iteration(g, K, W, base, F)
    BY <1>0, <1>2, Recursion
  <2> QED
    BY <2>1 DEF Iteration
<1>4. ASSUME NEW n \in 1..K PROVE g[n] = RepairTool(g[n - 1], s[n])
  <2>1. n - 1 \in 0..K
    BY <1>0
  <2>2. g[n - 1] \in W
    BY <2>1, <1>3
  <2> QED
    BY <2>2, <1>1, <1>3
<1> DEFINE Body(f) == [i \in 0..K |-> IF i = 0 THEN base ELSE RepairTool(f[i - 1], s[i])]
<1>5. g = Body(g)
  <2>1. ASSUME NEW n \in 0..K PROVE g[n] = Body(g)[n]
    <3>1. CASE n = 0
      BY <3>1, <1>3
    <3>2. CASE n # 0
      <4>1. n \in 1..K
        BY <3>2, <1>0
      <4> QED
        BY <3>2, <4>1, <1>4
    <3> QED
      BY <3>1, <3>2
  <2> QED
    BY <2>1, <1>3
<1> DEFINE after == CHOOSE f : f = Body(f)
<1>6. after = Body(after)
  <2> HIDE DEF Body
  <2> QED
    BY <1>5
<1>7. RepairEach(base, s) = after[K]
  BY <1>0 DEF Through, RepairEach
<1>8. /\ after[0] = base
      /\ \A n \in 1..K : after[n] = RepairTool(after[n - 1], s[n])
  <2>1. \A n \in 0..K : after[n] = Body(after)[n]
    <3> HIDE DEF after, Body
    <3> QED
      BY <1>6
  <2>2. \A n \in 0..K : Body(after)[n] = IF n = 0 THEN base ELSE RepairTool(after[n - 1], s[n])
    <3> HIDE DEF after
    <3> QED
      OBVIOUS
  <2>3. 0 \in 0..K /\ \A n \in 1..K : n \in 0..K /\ n # 0
    BY <1>0
  <2> HIDE DEF after, Body
  <2> QED
    BY <2>1, <2>2, <2>3
<1>9. after[K] = g[K]
  <2> HIDE DEF after, Body
  <2>1. after[0] = g[0]
    BY <1>3, <1>8
  <2>2. \A n \in 1..K : after[n - 1] = g[n - 1] => after[n] = g[n]
    BY <1>4, <1>8
  <2> QED
    BY <1>0, <2>1, <2>2, SameRun
<1> QED
  BY <1>0, <1>3, <1>4, <1>7, <1>9 DEF RepairRun

(* and blocks are closed one after the other.                              *)
CloseKeeps(W, s) == Len(s) \in Nat /\ \A n \in 1..Len(s) : \A w \in W : CloseBlock(w, s[n]) \in W

CloseRun(g, W, base, s) ==
  /\ g \in [0..Len(s) -> W] /\ g[0] = base /\ CloseEach(base, s) = g[Len(s)]
  /\ \A n \in 1..Len(s) : g[n] = CloseBlock(g[n - 1], s[n])

(* So is what CloseEach makes of a sequence of blocks.                     *)
LEMMA CloseBlockRuns ==
  ASSUME NEW W, NEW base \in W, NEW s, CloseKeeps(W, s)
  PROVE  \E g : CloseRun(g, W, base, s)
<1>0. PICK K \in Nat : K = Len(s)
  BY DEF CloseKeeps
<1>1. PICK F : F = [n \in 1..K |-> [w \in W |-> CloseBlock(w, s[n])]]
  OBVIOUS
<1>2. F \in [1..K -> [W -> W]]
  BY <1>0, <1>1 DEF CloseKeeps
<1>3. PICK g \in [0..K -> W] : g[0] = base /\ \A n \in 1..K : g[n] = F[n][g[n - 1]]
  <2>1. \E g : Iteration(g, K, W, base, F)
    BY <1>0, <1>2, Recursion
  <2> QED
    BY <2>1 DEF Iteration
<1>4. ASSUME NEW n \in 1..K PROVE g[n] = CloseBlock(g[n - 1], s[n])
  <2>1. n - 1 \in 0..K
    BY <1>0
  <2>2. g[n - 1] \in W
    BY <2>1, <1>3
  <2> QED
    BY <2>2, <1>1, <1>3
<1> DEFINE Body(f) == [i \in 0..K |-> IF i = 0 THEN base ELSE CloseBlock(f[i - 1], s[i])]
<1>5. g = Body(g)
  <2>1. ASSUME NEW n \in 0..K PROVE g[n] = Body(g)[n]
    <3>1. CASE n = 0
      BY <3>1, <1>3
    <3>2. CASE n # 0
      <4>1. n \in 1..K
        BY <3>2, <1>0
      <4> QED
        BY <3>2, <4>1, <1>4
    <3> QED
      BY <3>1, <3>2
  <2> QED
    BY <2>1, <1>3
<1> DEFINE after == CHOOSE f : f = Body(f)
<1>6. after = Body(after)
  <2> HIDE DEF Body
  <2> QED
    BY <1>5
<1>7. CloseEach(base, s) = after[K]
  BY <1>0 DEF Through, CloseEach
<1>8. /\ after[0] = base
      /\ \A n \in 1..K : after[n] = CloseBlock(after[n - 1], s[n])
  <2>1. \A n \in 0..K : after[n] = Body(after)[n]
    <3> HIDE DEF after, Body
    <3> QED
      BY <1>6
  <2>2. \A n \in 0..K : Body(after)[n] = IF n = 0 THEN base ELSE CloseBlock(after[n - 1], s[n])
    <3> HIDE DEF after
    <3> QED
      OBVIOUS
  <2>3. 0 \in 0..K /\ \A n \in 1..K : n \in 0..K /\ n # 0
    BY <1>0
  <2> HIDE DEF after, Body
  <2> QED
    BY <2>1, <2>2, <2>3
<1>9. after[K] = g[K]
  <2> HIDE DEF after, Body
  <2>1. after[0] = g[0]
    BY <1>3, <1>8
  <2>2. \A n \in 1..K : after[n - 1] = g[n - 1] => after[n] = g[n]
    BY <1>4, <1>8
  <2> QED
    BY <1>0, <2>1, <2>2, SameRun
<1> QED
  BY <1>0, <1>3, <1>4, <1>7, <1>9 DEF CloseRun

(* A sequence of sequences is flattened from the left.                     *)
LEMMA FlattenRuns ==
  ASSUME NEW S, NEW s \in Seq(Seq(S))
  PROVE  \E g \in [0..Len(s) -> Seq(S)] :
           /\ g[0] = <<>> /\ FlattenSeq(s) = g[Len(s)]
           /\ \A n \in 1..Len(s) : g[n] = g[n - 1] \o s[n]
<1>0. PICK K \in Nat : K = Len(s)
  BY LenProperties
<1>a. \A n \in 1..K : s[n] \in Seq(S)
  BY <1>0, ElementOfSeq
<1>b. \A x, y \in Seq(S) : x \o y \in Seq(S)
  BY ConcatProperties
<1>1. PICK F : F = [n \in 1..K |-> [w \in Seq(S) |-> w \o s[n]]]
  OBVIOUS
<1>2. F \in [1..K -> [Seq(S) -> Seq(S)]]
  BY <1>a, <1>b, <1>1
<1>3. PICK g \in [0..K -> Seq(S)] : g[0] = <<>> /\ \A n \in 1..K : g[n] = F[n][g[n - 1]]
  <2>0. <<>> \in Seq(S)
    BY EmptySeq
  <2>1. \E g : Iteration(g, K, Seq(S), <<>>, F)
    BY <1>0, <1>2, <2>0, Recursion
  <2> QED
    BY <2>1 DEF Iteration
<1>4. ASSUME NEW n \in 1..K PROVE g[n] = g[n - 1] \o s[n]
  <2>1. n - 1 \in 0..K
    BY <1>0
  <2>2. g[n - 1] \in Seq(S)
    BY <2>1, <1>3
  <2> QED
    BY <2>2, <1>1, <1>3
<1>c. CASE K = 0
  <2>1. FlattenSeq(s) = <<>>
    BY <1>0, <1>c, EmptySeq DEF FlattenSeq
  <2> QED
    BY <1>0, <1>3, <1>4, <1>c, <2>1
<1>d. CASE K # 0
  <2> DEFINE Body(f) == [i \in 1..K |-> IF i = 1 THEN s[i] ELSE f[i - 1] \o s[i]]
  <2>0. g[1] = s[1]
    <3>1. 1 \in 1..K /\ 1 - 1 = 0
      BY <1>0, <1>d
    <3>2. g[1] = g[0] \o s[1] /\ s[1] \in Seq(S)
      BY <3>1, <1>4, <1>a
    <3> QED
      BY <3>2, <1>3, ConcatEmptySeq
  <2>1. PICK h : h = [i \in 1..K |-> g[i]]
    OBVIOUS
  <2>2. h = Body(h)
    <3>1. ASSUME NEW n \in 1..K PROVE h[n] = Body(h)[n]
      <4>1. CASE n = 1
        BY <4>1, <2>0, <2>1
      <4>2. CASE n # 1
        <5>1. n - 1 \in 1..K
          BY <4>2, <1>0
        <5> QED
          BY <4>2, <5>1, <2>1, <1>4
      <4> QED
        BY <4>1, <4>2
    <3> QED
      BY <3>1, <2>1
  <2> DEFINE flat == CHOOSE f : f = Body(f)
  <2>3. flat = Body(flat)
    <3> HIDE DEF Body
    <3> QED
      BY <2>2
  <2>4. FlattenSeq(s) = flat[K]
    BY <1>0, <1>d DEF FlattenSeq
  <2>5. \A n \in 1..K : flat[n] = IF n = 1 THEN s[n] ELSE flat[n - 1] \o s[n]
    <3>1. \A n \in 1..K : flat[n] = Body(flat)[n]
      <4> HIDE DEF flat, Body
      <4> QED
        BY <2>3
    <3>2. \A n \in 1..K : Body(flat)[n] = IF n = 1 THEN s[n] ELSE flat[n - 1] \o s[n]
      <4> HIDE DEF flat
      <4> QED
        OBVIOUS
    <3> HIDE DEF flat, Body
    <3> QED
      BY <3>1, <3>2
  <2>6. flat[K] = g[K]
    <3> HIDE DEF flat, Body
    <3>1. PICK f : f = [n \in 0..K |-> IF n = 0 THEN <<>> ELSE flat[n]]
      OBVIOUS
    <3>2. f[0] = g[0]
      BY <3>1, <1>3
    <3>3. ASSUME NEW n \in 1..K, f[n - 1] = g[n - 1] PROVE f[n] = g[n]
      <4>1. CASE n = 1
        BY <4>1, <3>1, <2>0, <2>5
      <4>2. CASE n # 1
        <5>1. n - 1 \in 1..K /\ n - 1 \in 0..K /\ n - 1 # 0 /\ n \in 0..K /\ n # 0
          BY <4>2, <1>0
        <5>2. f[n - 1] = flat[n - 1] /\ f[n] = flat[n]
          BY <5>1, <3>1
        <5>3. flat[n] = flat[n - 1] \o s[n]
          BY <4>2, <2>5
        <5> QED
          BY <5>2, <5>3, <3>3, <1>4
      <4> QED
        BY <4>1, <4>2
    <3>4. f[K] = g[K]
      BY <3>2, <3>3, SameRun
    <3> QED
      BY <3>1, <3>4, <1>d
  <2> QED
    BY <1>0, <1>3, <1>4, <2>4, <2>6
<1> QED
  BY <1>c, <1>d

-----------------------------------------------------------------------------
(* What the client reads.                                                  *)

(* Types. A block's data is a sequence of letters, or of the pieces of a    *)
(* call's arguments.                                                       *)
Blocks == [kind : Kinds \union {"tool", "none"}, open : BOOLEAN, data : Seq(Nat)]

Events == [type : {"start", "open", "delta", "close", "end"}, block : Nat,
           kind : Kinds \union {"tool", "none"}, data : Seq(Nat)]

Clients == [started : BOOLEAN, blocks : Seq(Blocks), ended : BOOLEAN, ok : BOOLEAN]

ToolStates ==
  [known : BOOLEAN, named : BOOLEAN, started : BOOLEAN, open : BOOLEAN,
   block : Nat, args : Seq(Nat), held : Seq(Nat), early : Seq(Nat)]

Outputs == [began : BOOLEAN, blocks : Seq(Blocks), text : Nat, reasoning : Nat,
            tools : [Tools -> ToolStates]]

Writes == [out : Outputs, events : Seq(Events)]

(* An event is one of its type for its block, and says what it is.         *)
LEMMA EventTyped ==
  ASSUME NEW type \in {"start", "open", "delta", "close", "end"}, NEW b \in Nat,
         NEW kind \in Kinds \union {"tool", "none"}, NEW data \in Seq(Nat)
  PROVE  /\ Event(type, b, kind, data) \in Events
         /\ Event(type, b, kind, data).type = type
         /\ Event(type, b, kind, data).block = b
         /\ Event(type, b, kind, data).kind = kind
         /\ Event(type, b, kind, data).data = data
  BY DEF Event, Events

(* b is a with a block of the kind opened at the end.                      *)
Opened(a, b, kind) ==
  /\ Len(b) = Len(a) + 1
  /\ \A i \in 1..Len(a) : b[i] = a[i]
  /\ b[Len(a) + 1] = [kind |-> kind, open |-> TRUE, data |-> <<>>]

(* b is a with another block at c.                                         *)
Changed(a, b, c, block) ==
  /\ Len(b) = Len(a) /\ c \in 1..Len(a)
  /\ \A i \in 1..Len(a) : i # c => b[i] = a[i]
  /\ b[c] = block

(* A block with more data, and one that is closed.                         *)
Grown(block, data) ==
  [kind |-> block.kind, open |-> block.open, data |-> block.data \o data]

Closed(block) == [kind |-> block.kind, open |-> FALSE, data |-> block.data]

(* What the ledger makes of an event.                                      *)
LEMMA RecordedFacts ==
  ASSUME NEW blocks \in Seq(Blocks), NEW ev \in Events,
         ev.type \in {"delta", "close"} => ev.block \in 1..Len(blocks)
  PROVE  /\ Recorded(blocks, ev) \in Seq(Blocks)
         /\ ev.type = "open" => Opened(blocks, Recorded(blocks, ev), ev.kind)
         /\ ev.type = "delta" =>
              Changed(blocks, Recorded(blocks, ev), ev.block, Grown(blocks[ev.block], ev.data))
         /\ ev.type = "close" =>
              Changed(blocks, Recorded(blocks, ev), ev.block, Closed(blocks[ev.block]))
         /\ ev.type \notin {"open", "delta", "close"} => Recorded(blocks, ev) = blocks
<1>0. /\ Len(blocks) \in Nat /\ DOMAIN blocks = 1..Len(blocks)
      /\ \A b \in 1..Len(blocks) : blocks[b] \in Blocks
      /\ ev.kind \in Kinds \union {"tool", "none"} /\ ev.data \in Seq(Nat)
  BY LenProperties, ElementOfSeq DEF Events
<1>1. CASE ev.type = "open"
  <2>1. Recorded(blocks, ev) = Append(blocks, [kind |-> ev.kind, open |-> TRUE, data |-> <<>>])
    BY <1>1 DEF Recorded
  <2>2. [kind |-> ev.kind, open |-> TRUE, data |-> <<>>] \in Blocks
    BY <1>0, EmptySeq DEF Blocks
  <2> QED
    BY <1>0, <1>1, <2>1, <2>2, AppendProperties DEF Opened
<1>2. CASE ev.type = "delta"
  <2>1. Recorded(blocks, ev) = [blocks EXCEPT ![ev.block].data = @ \o ev.data]
    BY <1>2 DEF Recorded
  <2>2. ev.block \in 1..Len(blocks) /\ blocks[ev.block] \in Blocks
    BY <1>0, <1>2
  <2>3. PICK x : x = [kind |-> blocks[ev.block].kind, open |-> blocks[ev.block].open,
                      data |-> blocks[ev.block].data \o ev.data]
    OBVIOUS
  <2>4. x \in Blocks
    <3>1. blocks[ev.block].data \o ev.data \in Seq(Nat)
      BY <1>0, <2>2, ConcatProperties DEF Blocks
    <3> QED
      BY <2>2, <2>3, <3>1 DEF Blocks
  <2>5. Recorded(blocks, ev) = [blocks EXCEPT ![ev.block] = x]
    BY <1>0, <2>1, <2>2, <2>3 DEF Blocks
  <2>6. PICK r : r = Recorded(blocks, ev)
    OBVIOUS
  <2>7. /\ r \in Seq(Blocks) /\ Len(r) = Len(blocks)
        /\ \A j \in 1..Len(blocks) : r[j] = IF j = ev.block THEN x ELSE blocks[j]
    BY <2>2, <2>4, <2>5, <2>6, ExceptSeq
  <2> QED
    BY <1>2, <2>2, <2>3, <2>6, <2>7 DEF Changed, Grown
<1>3. CASE ev.type = "close"
  <2>1. Recorded(blocks, ev) = [blocks EXCEPT ![ev.block].open = FALSE]
    BY <1>3 DEF Recorded
  <2>2. ev.block \in 1..Len(blocks) /\ blocks[ev.block] \in Blocks
    BY <1>0, <1>3
  <2>3. PICK x : x = [kind |-> blocks[ev.block].kind, open |-> FALSE,
                      data |-> blocks[ev.block].data]
    OBVIOUS
  <2>4. x \in Blocks
    BY <2>2, <2>3 DEF Blocks
  <2>5. Recorded(blocks, ev) = [blocks EXCEPT ![ev.block] = x]
    BY <1>0, <2>1, <2>2, <2>3 DEF Blocks
  <2>6. PICK r : r = Recorded(blocks, ev)
    OBVIOUS
  <2>7. /\ r \in Seq(Blocks) /\ Len(r) = Len(blocks)
        /\ \A j \in 1..Len(blocks) : r[j] = IF j = ev.block THEN x ELSE blocks[j]
    BY <2>2, <2>4, <2>5, <2>6, ExceptSeq
  <2> QED
    BY <1>3, <2>2, <2>3, <2>6, <2>7 DEF Changed, Closed
<1>4. CASE ev.type \notin {"open", "delta", "close"}
  BY <1>4 DEF Recorded
<1> QED
  BY <1>1, <1>2, <1>3, <1>4

(* A client that has received an event is a client.                        *)
LEMMA ReceivedTyped ==
  ASSUME NEW c \in Clients, NEW ev \in Events
  PROVE  Received(c, ev) \in Clients
<1>1. CASE ~c.ok \/ ~Expected(c, ev)
  BY <1>1 DEF Received, Clients
<1>2. CASE ~(~c.ok \/ ~Expected(c, ev))
  <2>1. c.blocks \in Seq(Blocks) /\ DOMAIN c.blocks = 1..Len(c.blocks)
    BY LenProperties DEF Clients
  <2>2. ev.type \in {"delta", "close"} => ev.block \in 1..Len(c.blocks)
    BY <1>2, <2>1 DEF Expected, IsOpen
  <2>3. Recorded(c.blocks, ev) \in Seq(Blocks)
    BY <2>1, <2>2, RecordedFacts
  <2>4. Received(c, ev) = [started |-> TRUE, blocks |-> Recorded(c.blocks, ev),
                           ended |-> ev.type = "end", ok |-> TRUE]
    BY <1>2 DEF Received
  <2> QED
    BY <2>3, <2>4 DEF Clients
<1> QED
  BY <1>1, <1>2

(* The client reads events from the first to the last.                     *)
LEMMA ReadRuns ==
  ASSUME NEW c \in Clients, NEW s \in Seq(Events)
  PROVE  \E g \in [0..Len(s) -> Clients] :
           /\ g[0] = c /\ Read(c, s) = g[Len(s)]
           /\ \A n \in 1..Len(s) : g[n] = Received(g[n - 1], s[n])
<1>1. Len(s) \in Nat /\ \A n \in 1..Len(s) : s[n] \in Events
  BY LenProperties, ElementOfSeq
<1>2. \A n \in 1..Len(s) : \A w \in Clients : Received(w, s[n]) \in Clients
  BY <1>1, ReceivedTyped
<1>3. Len(s) \in Nat
  BY <1>1
<1> QED
  BY <1>2, <1>3, ReceivedRuns

(* A client that has read no event knows what it knew.                     *)
LEMMA ReadNothing ==
  ASSUME NEW c \in Clients
  PROVE  Read(c, <<>>) = c
<1>1. PICK s : s = <<>>
  OBVIOUS
<1>2. s \in Seq(Events) /\ Len(s) = 0
  BY <1>1
<1>3. PICK g \in [0..Len(s) -> Clients] : g[0] = c /\ Read(c, s) = g[Len(s)]
  BY <1>2, ReadRuns, ZenonT(40)
<1> QED
  BY <1>1, <1>2, <1>3

(* An event at the end is received by the client that has read the others. *)
LEMMA ReadMore ==
  ASSUME NEW c \in Clients, NEW s \in Seq(Events), NEW ev \in Events
  PROVE  /\ Read(c, s) \in Clients
         /\ Read(c, Append(s, ev)) = Received(Read(c, s), ev)
<1>0. PICK K \in Nat : K = Len(s)
  BY LenProperties
<1>1. PICK r : r = Append(s, ev)
  OBVIOUS
<1>2. /\ r \in Seq(Events) /\ Len(r) = K + 1 /\ r[K + 1] = ev
      /\ \A n \in 1..K : r[n] = s[n]
  BY <1>0, <1>1, AppendProperties
<1>4. PICK g \in [0..K -> Clients] :
           /\ g[0] = c /\ Read(c, s) = g[K]
           /\ \A n \in 1..K : g[n] = Received(g[n - 1], s[n])
  BY <1>0, ReadRuns
<1>5. PICK h \in [0..(K + 1) -> Clients] :
           /\ h[0] = c /\ Read(c, r) = h[K + 1]
           /\ \A n \in 1..(K + 1) : h[n] = Received(h[n - 1], r[n])
  <2>1. \E h \in [0..Len(r) -> Clients] :
           /\ h[0] = c /\ Read(c, r) = h[Len(r)]
           /\ \A n \in 1..Len(r) : h[n] = Received(h[n - 1], r[n])
    BY <1>2, ReadRuns, ZenonT(40)
  <2> QED
    BY <1>2, <2>1
<1>6. h[K] = g[K]
  <2>1. \A n \in 1..K : h[n - 1] = g[n - 1] => h[n] = g[n]
    <3>1. \A n \in 1..K : n \in 1..(K + 1)
      BY <1>0
    <3> QED
      BY <1>2, <1>4, <1>5, <3>1
  <2>2. h[0] = g[0]
    BY <1>4, <1>5
  <2> QED
    BY <1>0, <2>1, <2>2, SameRun
<1>7. h[K + 1] = Received(h[K], ev)
  <2>1. K + 1 \in 1..(K + 1) /\ (K + 1) - 1 = K
    BY <1>0
  <2> QED
    BY <1>2, <1>5, <2>1
<1>8. g[K] \in Clients
  BY <1>0, <1>4
<1> QED
  BY <1>1, <1>4, <1>5, <1>6, <1>7, <1>8

(* What is read of events and then of more is what is read of them all.     *)
LEMMA ReadOn ==
  ASSUME NEW c \in Clients, NEW s \in Seq(Events), NEW r \in Seq(Events)
  PROVE  Read(c, s \o r) = Read(Read(c, s), r)
<1>0. PICK K \in Nat : K = Len(r)
  BY LenProperties
<1>1. PICK d \in Clients : d = Read(c, s)
  <2>1. ASSUME NEW ev \in Events PROVE Read(c, s) \in Clients
    BY ReadMore
  <2>2. \E ev : ev \in Events
    BY EventTyped, EmptySeq DEF Kinds
  <2> QED
    BY <2>1, <2>2
<1>a. PICK first : first = [n \in 0..K |-> SubSeq(r, 1, n)]
  OBVIOUS
<1>b. PICK Good : Good = {n \in 0..K : Read(c, s \o first[n]) = Read(d, first[n])}
  OBVIOUS
<1>c. 0 \in 0..K /\ K \in 0..K
  BY <1>0
<1>2. first[0] = <<>> /\ first[K] = r
  BY <1>0, <1>a, <1>c
<1>3. ASSUME NEW n \in 0..K PROVE first[n] \in Seq(Events) /\ s \o first[n] \in Seq(Events)
  <2>1. first[n] \in Seq(Events)
    BY <1>0, <1>a, SubSeqProperties
  <2> QED
    BY <2>1, ConcatProperties
<1>4. ASSUME NEW n \in 0..K, n < K
      PROVE  /\ n + 1 \in 0..K
             /\ r[n + 1] \in Events /\ first[n + 1] = Append(first[n], r[n + 1])
             /\ s \o first[n + 1] = Append(s \o first[n], r[n + 1])
  <2>1. r[n + 1] \in Events /\ n + 1 \in 0..K
    BY <1>0, <1>4, ElementOfSeq
  <2>2. SubSeq(r, 1, n + 1) = Append(SubSeq(r, 1, n), r[n + 1])
    BY <1>0, <1>4
  <2>3. first[n + 1] = Append(first[n], r[n + 1])
    BY <1>a, <2>1, <2>2
  <2>4. s \o Append(first[n], r[n + 1]) = Append(s \o first[n], r[n + 1])
    BY <1>3, <2>1
  <2> QED
    BY <2>1, <2>3, <2>4
<1>5. 0 \in Good
  <2>1. s \o <<>> = s
    BY ConcatEmptySeq
  <2>2. Read(d, <<>>) = d
    BY ReadNothing
  <2> QED
    BY <1>1, <1>2, <1>b, <1>c, <2>1, <2>2
<1>6. ASSUME NEW n \in 0..K, n \in Good, n < K PROVE n + 1 \in Good
  <2>1. Read(c, s \o first[n]) = Read(d, first[n])
    BY <1>6, <1>b
  <2>a. /\ first[n] \in Seq(Events) /\ s \o first[n] \in Seq(Events) /\ r[n + 1] \in Events
        /\ first[n + 1] = Append(first[n], r[n + 1])
        /\ s \o first[n + 1] = Append(s \o first[n], r[n + 1])
    BY <1>3, <1>4, <1>6
  <2>2. Read(c, Append(s \o first[n], r[n + 1])) = Received(Read(c, s \o first[n]), r[n + 1])
    BY <2>a, ReadMore
  <2>3. Read(d, Append(first[n], r[n + 1])) = Received(Read(d, first[n]), r[n + 1])
    BY <2>a, ReadMore
  <2> QED
    BY <1>4, <1>6, <1>b, <2>a, <2>1, <2>2, <2>3
<1>7. \A n \in 0..K : n \in Good
  BY <1>0, <1>5, <1>6, UpTo
<1>8. Read(c, s \o first[K]) = Read(d, first[K])
  BY <1>7, <1>b, <1>c
<1> QED
  BY <1>1, <1>2, <1>8

-----------------------------------------------------------------------------
(* What is said in some blocks.                                            *)

(* g is what is said in the first blocks.                                  *)
Says(g, blocks, kind) ==
  /\ g \in [0..Len(blocks) -> Seq(Nat)] /\ g[0] = <<>>
  /\ \A n \in 1..Len(blocks) :
       /\ blocks[n].kind = kind => g[n] = g[n - 1] \o blocks[n].data
       /\ blocks[n].kind # kind => g[n] = g[n - 1]

(* What the blocks say of a kind is computed block by block.               *)
LEMMA SpokenRuns ==
  ASSUME NEW blocks \in Seq(Blocks), NEW kind
  PROVE  \E g : Says(g, blocks, kind) /\ Spoken(blocks, kind) = g[Len(blocks)]
<1>0. /\ Len(blocks) \in Nat /\ DOMAIN blocks = 1..Len(blocks)
      /\ \A n \in 1..Len(blocks) : blocks[n] \in Blocks
  BY LenProperties, ElementOfSeq
<1>1. PICK s : s = [b \in 1..Len(blocks) |-> IF blocks[b].kind = kind THEN blocks[b].data ELSE <<>>]
  OBVIOUS
<1>2. \A n \in 1..Len(blocks) : s[n] \in Seq(Nat)
  BY <1>0, <1>1, EmptySeq DEF Blocks
<1>3. s \in Seq(Seq(Nat)) /\ Len(s) = Len(blocks)
  <2>1. s = [b \in 1..Len(blocks) |-> s[b]]
    BY <1>1
  <2> QED
    BY <1>0, <1>2, <2>1, IsASeq
<1>4. Spoken(blocks, kind) = FlattenSeq(s)
  BY <1>0, <1>1 DEF Spoken
<1>5. PICK g \in [0..Len(s) -> Seq(Nat)] :
           /\ g[0] = <<>> /\ FlattenSeq(s) = g[Len(s)]
           /\ \A n \in 1..Len(s) : g[n] = g[n - 1] \o s[n]
  BY <1>3, FlattenRuns
<1>6. ASSUME NEW n \in 1..Len(blocks)
      PROVE  /\ blocks[n].kind = kind => g[n] = g[n - 1] \o blocks[n].data
             /\ blocks[n].kind # kind => g[n] = g[n - 1]
  <2>0. n \in 1..Len(s) /\ n - 1 \in 0..Len(s)
    BY <1>0, <1>3
  <2>1. g[n] = g[n - 1] \o s[n] /\ n - 1 \in 0..Len(s)
    BY <1>5, <2>0
  <2>2. g[n - 1] \in Seq(Nat)
    BY <1>5, <2>1
  <2>3. g[n - 1] \o <<>> = g[n - 1]
    BY <2>2, ConcatEmptySeq
  <2> QED
    BY <1>1, <2>1, <2>3
<1>7. Says(g, blocks, kind)
  BY <1>3, <1>5, <1>6 DEF Says
<1> QED
  BY <1>3, <1>4, <1>5, <1>7

(* No block says nothing.                                                  *)
LEMMA SpokenNothing ==
  ASSUME NEW kind
  PROVE  Spoken(<<>>, kind) = <<>>
<1>1. PICK s : s = <<>>
  OBVIOUS
<1>2. s \in Seq(Blocks) /\ Len(s) = 0
  BY <1>1
<1>3. PICK g : Says(g, s, kind) /\ Spoken(s, kind) = g[Len(s)]
  BY <1>2, SpokenRuns
<1> QED
  BY <1>1, <1>2, <1>3 DEF Says

(* What the blocks say is a sequence of pieces.                            *)
LEMMA SpokenTyped ==
  ASSUME NEW blocks \in Seq(Blocks), NEW kind
  PROVE  Spoken(blocks, kind) \in Seq(Nat)
<1>1. PICK g : Says(g, blocks, kind) /\ Spoken(blocks, kind) = g[Len(blocks)]
  BY SpokenRuns
<1>2. Len(blocks) \in 0..Len(blocks)
  BY LenProperties
<1> QED
  BY <1>1, <1>2 DEF Says

(* Sequences are appended in any order of the two appends.                 *)
LEMMA Associative ==
  ASSUME NEW x \in Seq(Nat), NEW y \in Seq(Nat), NEW z \in Seq(Nat)
  PROVE  (x \o y) \o z = x \o (y \o z)
  OBVIOUS

(* Blocks that say the same, but for what is added to the last of the kind. *)
LEMMA SpokenMore ==
  ASSUME NEW a \in Seq(Blocks), NEW b \in Seq(Blocks), NEW kind, NEW more \in Seq(Nat),
         Len(b) = Len(a), NEW c \in 1..Len(a),
         \A n \in 1..Len(a) : b[n].kind = a[n].kind,
         \A n \in 1..Len(a) : n # c /\ a[n].kind = kind => b[n].data = a[n].data,
         a[c].kind = kind, b[c].data = a[c].data \o more,
         \A n \in 1..Len(a) : n > c => a[n].kind # kind
  PROVE  Spoken(b, kind) = Spoken(a, kind) \o more
<1>0. PICK K \in Nat : K = Len(a)
  BY LenProperties
<1>a. PICK g : Says(g, a, kind) /\ Spoken(a, kind) = g[Len(a)]
  BY SpokenRuns
<1>1. /\ g \in [0..K -> Seq(Nat)] /\ g[0] = <<>> /\ Spoken(a, kind) = g[K]
      /\ \A n \in 1..K : /\ a[n].kind = kind => g[n] = g[n - 1] \o a[n].data
                         /\ a[n].kind # kind => g[n] = g[n - 1]
  BY <1>0, <1>a DEF Says
<1>b. PICK h : Says(h, b, kind) /\ Spoken(b, kind) = h[Len(b)]
  BY SpokenRuns
<1>2. /\ h \in [0..K -> Seq(Nat)] /\ h[0] = <<>> /\ Spoken(b, kind) = h[K]
      /\ \A n \in 1..K : /\ b[n].kind = kind => h[n] = h[n - 1] \o b[n].data
                         /\ b[n].kind # kind => h[n] = h[n - 1]
  BY <1>0, <1>b DEF Says
<1>3. PICK f : f = [n \in 0..K |-> IF n < c THEN g[n] ELSE g[n] \o more]
  OBVIOUS
<1>4. h[0] = f[0]
  BY <1>0, <1>1, <1>2, <1>3
<1>5. ASSUME NEW n \in 1..K, h[n - 1] = f[n - 1] PROVE h[n] = f[n]
  <2>a. n - 1 \in 0..K /\ n \in 0..K /\ n \in 1..Len(a) /\ n \in 1..Len(b)
    BY <1>0
  <2>b. a[n] \in Blocks /\ b[n] \in Blocks
    BY <2>a, ElementOfSeq
  <2>0. /\ n - 1 \in 0..K /\ n \in 0..K /\ g[n - 1] \in Seq(Nat)
        /\ a[n].data \in Seq(Nat) /\ b[n].data \in Seq(Nat) /\ b[n].kind = a[n].kind
    BY <1>1, <2>a, <2>b DEF Blocks
  <2>c. PICK x \in Seq(Nat), y \in Seq(Nat), z \in Seq(Nat) :
          x = g[n - 1] /\ y = a[n].data /\ z = b[n].data
    BY <2>0
  <2>d. /\ a[n].kind = kind => g[n] = x \o y /\ h[n] = h[n - 1] \o z
        /\ a[n].kind # kind => g[n] = x /\ h[n] = h[n - 1]
    BY <1>1, <1>2, <2>0, <2>c
  <2>1. CASE n < c
    <3>1. f[n - 1] = g[n - 1] /\ f[n] = g[n]
      BY <1>3, <2>0, <2>1
    <3>2. a[n].kind = kind => z = y
      BY <1>0, <2>1, <2>c
    <3>3. h[n - 1] = x
      BY <1>5, <2>c, <3>1
    <3>4. h[n] = g[n]
      BY ONLY <2>d, <3>2, <3>3
    <3> QED
      BY <3>1, <3>4
  <2>2. CASE n = c
    <3>1. f[n - 1] = g[n - 1] /\ f[n] = g[n] \o more
      BY <1>3, <2>0, <2>2
    <3>2. z = y \o more /\ a[n].kind = kind
      <4>1. b[c].data = a[c].data \o more /\ a[c].kind = kind
        OBVIOUS
      <4> QED
        BY ONLY <2>2, <2>c, <4>1
    <3>3. (x \o y) \o more = x \o (y \o more)
      <4>1. x \in Seq(Nat) /\ y \in Seq(Nat) /\ more \in Seq(Nat)
        OBVIOUS
      <4> QED
        BY ONLY <4>1, Associative
    <3>4. h[n - 1] = x
      BY <1>5, <2>c, <3>1
    <3>5. g[n] = x \o y /\ h[n] = x \o z
      BY <2>d, <3>2, <3>4
    <3> QED
      BY ONLY <3>1, <3>2, <3>3, <3>5
  <2>3. CASE n > c
    <3>0. ~(n - 1 < c) /\ ~(n < c)
      BY <1>0, <2>3
    <3>1. f[n - 1] = g[n - 1] \o more /\ f[n] = g[n] \o more
      BY <1>3, <2>0, <3>0
    <3>2. a[n].kind # kind
      BY <1>0, <2>3
    <3>3. h[n] = h[n - 1] /\ g[n] = g[n - 1]
      BY <2>c, <2>d, <3>2
    <3> QED
      BY ONLY <1>5, <3>1, <3>3
  <2> QED
    BY ONLY <1>0, <1>5, <2>1, <2>2, <2>3
<1>6. h[K] = f[K]
  BY <1>0, <1>4, <1>5, SameRun
<1>7. f[K] = g[K] \o more
  BY <1>0, <1>3
<1> QED
  BY <1>1, <1>2, <1>6, <1>7

(* Blocks that say the same, and perhaps an empty one.                     *)
LEMMA SpokenSame ==
  ASSUME NEW a \in Seq(Blocks), NEW b \in Seq(Blocks), NEW kind,
         Len(b) = Len(a) \/ Len(b) = Len(a) + 1,
         \A n \in 1..Len(a) : b[n].kind = a[n].kind /\ (a[n].kind = kind => b[n].data = a[n].data),
         Len(b) = Len(a) + 1 => b[Len(b)].data = <<>>
  PROVE  Spoken(b, kind) = Spoken(a, kind)
<1>0. PICK K \in Nat : K = Len(a)
  BY LenProperties
<1>a. PICK g : Says(g, a, kind) /\ Spoken(a, kind) = g[Len(a)]
  BY SpokenRuns
<1>1. /\ g \in [0..K -> Seq(Nat)] /\ g[0] = <<>> /\ Spoken(a, kind) = g[K]
      /\ \A n \in 1..K : /\ a[n].kind = kind => g[n] = g[n - 1] \o a[n].data
                         /\ a[n].kind # kind => g[n] = g[n - 1]
  BY <1>0, <1>a DEF Says
<1>b. PICK h : Says(h, b, kind) /\ Spoken(b, kind) = h[Len(b)]
  BY SpokenRuns
<1>2. /\ h \in [0..Len(b) -> Seq(Nat)] /\ h[0] = <<>>
      /\ \A n \in 1..Len(b) : /\ b[n].kind = kind => h[n] = h[n - 1] \o b[n].data
                              /\ b[n].kind # kind => h[n] = h[n - 1]
  BY <1>b DEF Says
<1>3. ASSUME NEW n \in 1..K, h[n - 1] = g[n - 1] PROVE h[n] = g[n]
  <2>1. n \in 1..Len(b) /\ b[n].kind = a[n].kind /\ (a[n].kind = kind => b[n].data = a[n].data)
    BY <1>0
  <2> QED
    BY <1>1, <1>2, <1>3, <2>1
<1>4. h[0] = g[0]
  BY <1>1, <1>2
<1>5. h[K] = g[K]
  BY <1>0, <1>3, <1>4, SameRun
<1>6. CASE Len(b) = Len(a)
  BY <1>0, <1>1, <1>b, <1>5, <1>6
<1>7. CASE Len(b) = Len(a) + 1
  <2>1. Len(b) = K + 1 /\ K + 1 \in 1..Len(b) /\ (K + 1) - 1 = K
    BY <1>0, <1>7
  <2>2. h[K + 1] = h[K] \o b[K + 1].data \/ h[K + 1] = h[K]
    BY <1>2, <2>1
  <2>3. b[K + 1].data = <<>>
    BY <1>7, <2>1
  <2>4. g[K] \in Seq(Nat) /\ g[K] \o <<>> = g[K]
    BY <1>0, <1>1, ConcatEmptySeq
  <2> QED
    BY <1>1, <1>b, <1>5, <2>1, <2>2, <2>3, <2>4
<1> QED
  BY <1>6, <1>7

(* The same is said when a block is opened, or closed; more when one grows. *)
LEMMA SpokenOpened ==
  ASSUME NEW a \in Seq(Blocks), NEW b \in Seq(Blocks), NEW k, Opened(a, b, k), NEW kind
  PROVE  Spoken(b, kind) = Spoken(a, kind)
<1>1. Len(a) \in Nat /\ Len(b) = Len(a) + 1 /\ b[Len(b)].data = <<>>
  BY LenProperties DEF Opened
<1>2. \A n \in 1..Len(a) : b[n].kind = a[n].kind /\ (a[n].kind = kind => b[n].data = a[n].data)
  BY DEF Opened
<1> QED
  BY <1>1, <1>2, SpokenSame

(* A block that is closed says what it said.                               *)
LEMMA SpokenClosed ==
  ASSUME NEW a \in Seq(Blocks), NEW b \in Seq(Blocks), NEW c, Changed(a, b, c, Closed(a[c])), NEW kind
  PROVE  Spoken(b, kind) = Spoken(a, kind)
<1>1. Len(a) \in Nat /\ Len(b) = Len(a)
  BY LenProperties DEF Changed
<1>2. \A n \in 1..Len(a) : b[n].kind = a[n].kind /\ (a[n].kind = kind => b[n].data = a[n].data)
  BY DEF Changed, Closed
<1> QED
  BY <1>1, <1>2, SpokenSame

(* A piece for a block of one kind leaves what the other kind says.        *)
LEMMA SpokenElse ==
  ASSUME NEW a \in Seq(Blocks), NEW b \in Seq(Blocks), NEW c \in 1..Len(a), NEW kind,
         NEW more, NEW block, block = Grown(a[c], more), Changed(a, b, c, block),
         a[c].kind # kind
  PROVE  Spoken(b, kind) = Spoken(a, kind)
<1>0. b[c] = Grown(a[c], more)
  BY DEF Changed
<1>1. Len(a) \in Nat /\ Len(b) = Len(a)
  BY LenProperties DEF Changed
<1>2. \A n \in 1..Len(a) : b[n].kind = a[n].kind /\ (a[n].kind = kind => b[n].data = a[n].data)
  BY <1>0 DEF Changed, Grown
<1> QED
  BY <1>1, <1>2, SpokenSame

(* No block after c is of the kind.                                        *)
LastOf(a, c, kind) == \A n \in 1..Len(a) : n > c => a[n].kind # kind

(* A piece for the last block of its kind is said after all the others.    *)
LEMMA SpokenGrown ==
  ASSUME NEW a \in Seq(Blocks), NEW b \in Seq(Blocks), NEW c \in 1..Len(a), NEW kind,
         NEW more \in Seq(Nat), NEW block, block = Grown(a[c], more), Changed(a, b, c, block),
         a[c].kind = kind, LastOf(a, c, kind)
  PROVE  Spoken(b, kind) = Spoken(a, kind) \o more
<1>0. b[c] = Grown(a[c], more)
  BY DEF Changed
<1>1. Len(a) \in Nat /\ Len(b) = Len(a) /\ c \in 1..Len(a) /\ b[c].data = a[c].data \o more
  BY <1>0, LenProperties DEF Changed, Grown
<1>2. \A n \in 1..Len(a) : b[n].kind = a[n].kind /\ (n # c => b[n].data = a[n].data)
  BY <1>0 DEF Changed, Grown
<1>3. \A n \in 1..Len(a) : n > c => a[n].kind # kind
  BY DEF LastOf
<1> QED
  BY <1>1, <1>2, <1>3, SpokenMore

-----------------------------------------------------------------------------
(* What is written.                                                        *)

(* What the client knows of an output, when it has read all of it.         *)
View(o) == [started |-> o.began, blocks |-> o.blocks, ended |-> FALSE, ok |-> TRUE]

(* The block text or reasoning is written to, 0 for none.                  *)
Cursor(o, kind) == IF kind = "text" THEN o.text ELSE o.reasoning

(* It is open, and the last of its kind.                                   *)
CursorsWrite(o) ==
  \A kind \in Kinds : Cursor(o, kind) # 0 =>
    /\ Cursor(o, kind) \in 1..Len(o.blocks)
    /\ o.blocks[Cursor(o, kind)].open
    /\ o.blocks[Cursor(o, kind)].kind = kind
    /\ \A b \in 1..Len(o.blocks) : b > Cursor(o, kind) => o.blocks[b].kind # kind

(* A call that has started has a block of its own, with its arguments.     *)
ToolsWrite(o) ==
  \A t \in Tools :
    /\ o.tools[t].open => o.tools[t].started
    /\ o.tools[t].started =>
         /\ o.tools[t].block \in 1..Len(o.blocks)
         /\ o.blocks[o.tools[t].block].kind = "tool"
         /\ o.blocks[o.tools[t].block].open = o.tools[t].open
         /\ o.blocks[o.tools[t].block].data = o.tools[t].args

(* No two calls share a block.                                             *)
OneToolEach(o) ==
  \A t, u \in Tools :
    o.tools[t].started /\ o.tools[u].started /\ t # u => o.tools[t].block # o.tools[u].block

(* Every open block is known to the output, and every block of a call.     *)
Owned(o) ==
  \A b \in 1..Len(o.blocks) :
    /\ o.blocks[b].kind \in Kinds \union {"tool"}
    /\ o.blocks[b].open /\ o.blocks[b].kind \in Kinds => b = Cursor(o, o.blocks[b].kind)
    /\ o.blocks[b].kind = "tool" => \E t \in Tools : o.tools[t].started /\ o.tools[t].block = b

(* The first n pieces.                                                     *)
Counted(n) == [i \in 1..n |-> i]

(* The invariant of an output.                                             *)
OutOK(o) ==
  /\ CursorsWrite(o) /\ ToolsWrite(o) /\ OneToolEach(o) /\ Owned(o)
  /\ o.blocks # <<>> => o.began

(* w is what is written from the output `base' on: the client, which knows  *)
(* that one, knows w's output when it has read the events of w.            *)
Shown(base, w) == Read(View(base), w.events) = View(w.out)

(* The invariant of what is written: it is known to the client.            *)
Good(base, w) == w \in Writes /\ Shown(base, w) /\ OutOK(w.out)

(* The two outputs say the same.                                           *)
SaidSame(o, p) == \A kind \in Kinds : Spoken(p.blocks, kind) = Spoken(o.blocks, kind)

(* v is w and an event.                                                    *)
OneMore(w, v, ev) ==
  /\ w \in Writes /\ v \in Writes /\ ev \in Events
  /\ ev.type \in {"delta", "close"} => ev.block \in 1..Len(w.out.blocks)
  /\ v.events = Append(w.events, ev)
  /\ v.out.blocks = Recorded(w.out.blocks, ev)

(* A client that knows all that was written knows its blocks, and has seen *)
(* nothing wrong.                                                          *)
LEMMA ViewTyped ==
  ASSUME NEW o \in Outputs
  PROVE  View(o) \in Clients /\ View(o).blocks = o.blocks /\ View(o).started = o.began
         /\ ~View(o).ended /\ View(o).ok
  BY DEF View, Outputs, Clients

(* The parts of what is written have their types.                          *)
LEMMA WriteTyped ==
  ASSUME NEW w \in Writes
  PROVE  /\ w.out \in Outputs /\ w.events \in Seq(Events)
         /\ w.out.blocks \in Seq(Blocks) /\ Len(w.out.blocks) \in Nat
         /\ DOMAIN w.out.blocks = 1..Len(w.out.blocks)
         /\ \A b \in 1..Len(w.out.blocks) :
              /\ w.out.blocks[b] \in Blocks /\ w.out.blocks[b].data \in Seq(Nat)
              /\ w.out.blocks[b].open \in BOOLEAN
         /\ w.out.text \in Nat /\ w.out.reasoning \in Nat /\ w.out.began \in BOOLEAN
         /\ \A kind : Cursor(w.out, kind) \in Nat
         /\ w.out.tools \in [Tools -> ToolStates]
<1>1. w.out \in Outputs /\ w.events \in Seq(Events)
  BY DEF Writes
<1>2. /\ w.out.blocks \in Seq(Blocks) /\ w.out.text \in Nat /\ w.out.reasoning \in Nat
      /\ w.out.began \in BOOLEAN /\ w.out.tools \in [Tools -> ToolStates]
  BY <1>1 DEF Outputs
<1>3. /\ Len(w.out.blocks) \in Nat /\ DOMAIN w.out.blocks = 1..Len(w.out.blocks)
      /\ \A b \in 1..Len(w.out.blocks) : w.out.blocks[b] \in Blocks
  BY <1>2, LenProperties, ElementOfSeq
<1>4. \A b \in 1..Len(w.out.blocks) : w.out.blocks[b].data \in Seq(Nat) /\ w.out.blocks[b].open \in BOOLEAN
  BY <1>3 DEF Blocks
<1>5. \A kind : Cursor(w.out, kind) \in Nat
  BY <1>2 DEF Cursor
<1> QED
  BY <1>1, <1>2, <1>3, <1>4, <1>5

(* An event the client expects is read as it is recorded.                  *)
LEMMA ReadWritten ==
  ASSUME NEW base \in Outputs, NEW w, NEW v, NEW ev, OneMore(w, v, ev), Shown(base, w),
         v.out.began, ev.type # "end",
         (ev.type = "start") # w.out.began,
         ev.type = "open" => ev.block = Len(w.out.blocks) + 1,
         ev.type \in {"delta", "close"} => w.out.blocks[ev.block].open,
         ev.type = "delta" => ev.kind = w.out.blocks[ev.block].kind
  PROVE  Shown(base, v)
<1>0. w \in Writes /\ v \in Writes /\ ev \in Events /\ w.events \in Seq(Events)
  BY WriteTyped DEF OneMore
<1>1. /\ View(base) \in Clients /\ View(w.out) \in Clients
      /\ View(w.out).blocks = w.out.blocks /\ View(w.out).started = w.out.began
      /\ ~View(w.out).ended /\ View(w.out).ok
  BY <1>0, ViewTyped, WriteTyped
<1>2. Read(View(base), v.events) = Received(View(w.out), ev)
  <2>1. Read(View(base), w.events) = View(w.out)
    BY DEF Shown
  <2>2. v.events = Append(w.events, ev)
    BY DEF OneMore
  <2> QED
    BY <1>0, <1>1, <2>1, <2>2, ReadMore
<1>3. Expected(View(w.out), ev)
  <2>1. DOMAIN w.out.blocks = 1..Len(w.out.blocks)
    BY <1>0, WriteTyped
  <2>2. ev.type \in {"delta", "close"} => ev.block \in 1..Len(w.out.blocks)
    BY DEF OneMore
  <2> QED
    BY <1>1, <2>1, <2>2 DEF Expected, IsOpen
<1>4. Received(View(w.out), ev) = [started |-> TRUE, blocks |-> Recorded(w.out.blocks, ev),
                                   ended |-> FALSE, ok |-> TRUE]
  BY <1>1, <1>3 DEF Received
<1>5. View(v.out) = [started |-> TRUE, blocks |-> Recorded(w.out.blocks, ev),
                     ended |-> FALSE, ok |-> TRUE]
  <2>1. v.out.began = TRUE
    BY <1>0, WriteTyped
  <2> QED
    BY <2>1 DEF View, OneMore
<1> QED
  BY <1>2, <1>4, <1>5 DEF Shown

(* An output's parts.                                                      *)
LEMMA OutTyped ==
  ASSUME NEW o \in Outputs
  PROVE  /\ o.blocks \in Seq(Blocks) /\ Len(o.blocks) \in Nat
         /\ \A b \in 1..Len(o.blocks) : /\ o.blocks[b] \in Blocks /\ o.blocks[b].data \in Seq(Nat)
                                        /\ o.blocks[b].open \in BOOLEAN
         /\ o.text \in Nat /\ o.reasoning \in Nat /\ o.began \in BOOLEAN
         /\ \A kind : Cursor(o, kind) \in Nat
         /\ o.tools \in [Tools -> ToolStates]
<1>1. /\ o.blocks \in Seq(Blocks) /\ o.text \in Nat /\ o.reasoning \in Nat
      /\ o.began \in BOOLEAN /\ o.tools \in [Tools -> ToolStates]
  BY DEF Outputs
<1>2. /\ Len(o.blocks) \in Nat
      /\ \A b \in 1..Len(o.blocks) : o.blocks[b] \in Blocks
  BY <1>1, LenProperties, ElementOfSeq
<1>3. \A b \in 1..Len(o.blocks) : o.blocks[b].data \in Seq(Nat) /\ o.blocks[b].open \in BOOLEAN
  BY <1>2 DEF Blocks
<1> QED
  BY <1>1, <1>2, <1>3 DEF Cursor

(* The block of text or of reasoning is closed, and no longer written to.   *)
LEMMA ContentCloses ==
  ASSUME NEW o \in Outputs, NEW p \in Outputs, NEW kind \in Kinds, NEW c, OutOK(o),
         c = Cursor(o, kind), c # 0,
         Changed(o.blocks, p.blocks, c, Closed(o.blocks[c])),
         p.began = o.began, p.tools = o.tools, Cursor(p, kind) = 0,
         \A k \in Kinds : k # kind => Cursor(p, k) = Cursor(o, k)
  PROVE  OutOK(p) /\ SaidSame(o, p) /\ o.blocks[c].open /\ o.blocks[c].kind = kind /\ o.began
<1>0. CursorsWrite(o) /\ ToolsWrite(o) /\ OneToolEach(o) /\ Owned(o)
  BY DEF OutOK
<1>1. PICK a, b : a = o.blocks /\ b = p.blocks
  OBVIOUS
<1>2. /\ a \in Seq(Blocks) /\ b \in Seq(Blocks) /\ Len(a) \in Nat /\ c \in Nat
  BY <1>1, OutTyped
<1>3. Changed(a, b, c, Closed(a[c]))
  BY <1>1
<1>4. /\ Len(b) = Len(a) /\ c \in 1..Len(a)
      /\ \A i \in 1..Len(a) : i # c => b[i] = a[i]
      /\ \A i \in 1..Len(a) : b[i].kind = a[i].kind
      /\ ~b[c].open
  BY <1>3, SMTT(30) DEF Changed, Closed
<1>5. SaidSame(o, p)
  BY <1>1, <1>2, <1>3, SpokenClosed DEF SaidSame
<1>6. a[c].kind = kind /\ a[c].open
  BY <1>0, <1>1 DEF CursorsWrite
<1>7. CursorsWrite(p)
  <2>1. ASSUME NEW k \in Kinds, Cursor(p, k) # 0
        PROVE  /\ Cursor(p, k) \in 1..Len(b) /\ b[Cursor(p, k)].open
               /\ b[Cursor(p, k)].kind = k
               /\ \A i \in 1..Len(b) : i > Cursor(p, k) => b[i].kind # k
    <3>1. k # kind /\ Cursor(p, k) = Cursor(o, k)
      BY <2>1
    <3>2. PICK d : d = Cursor(o, k)
      OBVIOUS
    <3>3. d \in 1..Len(a) /\ a[d].open /\ a[d].kind = k /\ \A i \in 1..Len(a) : i > d => a[i].kind # k
      BY <1>0, <1>1, <2>1, <3>1, <3>2 DEF CursorsWrite
    <3>4. d # c
      BY <1>6, <3>1, <3>3
    <3> QED
      BY <1>4, <3>1, <3>2, <3>3, <3>4
  <2> QED
    BY <1>1, <2>1 DEF CursorsWrite
<1>8. ToolsWrite(p)
  <2>1. ASSUME NEW t \in Tools, o.tools[t].started PROVE o.tools[t].block # c
    BY <1>0, <1>1, <1>6, <2>1 DEF ToolsWrite, Kinds
  <2> QED
    BY <1>0, <1>1, <1>4, <2>1 DEF ToolsWrite
<1>9. OneToolEach(p)
  BY <1>0 DEF OneToolEach
<1>10. Owned(p)
  <2>1. ASSUME NEW i \in 1..Len(b)
        PROVE  /\ b[i].kind \in Kinds \union {"tool"}
               /\ b[i].open /\ b[i].kind \in Kinds => i = Cursor(p, b[i].kind)
               /\ b[i].kind = "tool" => \E t \in Tools : p.tools[t].started /\ p.tools[t].block = i
    <3>0. i \in 1..Len(a) /\ b[i].kind = a[i].kind
      BY <1>4
    <3>1. /\ a[i].kind \in Kinds \union {"tool"}
          /\ a[i].open /\ a[i].kind \in Kinds => i = Cursor(o, a[i].kind)
          /\ a[i].kind = "tool" => \E t \in Tools : o.tools[t].started /\ o.tools[t].block = i
      BY <1>0, <1>1, <3>0 DEF Owned
    <3>2. b[i].open => i # c /\ a[i].open
      BY <1>4, <3>0
    <3>3. ASSUME b[i].open, b[i].kind \in Kinds PROVE i = Cursor(p, b[i].kind)
      <4>1. a[i].kind # kind
        BY <3>0, <3>1, <3>2, <3>3
      <4> QED
        BY <3>0, <3>1, <3>2, <3>3, <4>1
    <3> QED
      BY <3>0, <3>1, <3>3
  <2> QED
    BY <1>1, <2>1 DEF Owned
<1>12. o.began
  BY <1>1, <1>4 DEF OutOK
<1> QED
  BY <1>1, <1>5, <1>6, <1>7, <1>8, <1>9, <1>10, <1>12 DEF OutOK

(* A block of text or of reasoning is opened, where none is.                *)
LEMMA ContentOpens ==
  ASSUME NEW o \in Outputs, NEW p \in Outputs, NEW kind \in Kinds, OutOK(o),
         Cursor(o, kind) = 0, o.began,
         Opened(o.blocks, p.blocks, kind),
         p.began = o.began, p.tools = o.tools, Cursor(p, kind) = Len(o.blocks) + 1,
         \A k \in Kinds : k # kind => Cursor(p, k) = Cursor(o, k)
  PROVE  OutOK(p) /\ SaidSame(o, p)
<1>0. CursorsWrite(o) /\ ToolsWrite(o) /\ OneToolEach(o) /\ Owned(o)
  BY DEF OutOK
<1>1. PICK a, b, c : a = o.blocks /\ b = p.blocks /\ c = Len(a) + 1
  OBVIOUS
<1>2. /\ a \in Seq(Blocks) /\ b \in Seq(Blocks) /\ Len(a) \in Nat /\ c \in Nat /\ c # 0
  BY <1>1, OutTyped
<1>3. Opened(a, b, kind)
  BY <1>1
<1>4. /\ Len(b) = c /\ c \in 1..Len(b)
      /\ \A i \in 1..Len(a) : b[i] = a[i] /\ i \in 1..Len(b) /\ i < c
      /\ \A i \in 1..Len(b) : i \in 1..Len(a) \/ i = c
      /\ b[c].open /\ b[c].kind = kind
  BY <1>1, <1>2, <1>3 DEF Opened
<1>5. SaidSame(o, p)
  BY <1>1, <1>2, <1>3, SpokenOpened DEF SaidSame
<1>7. CursorsWrite(p)
  <2>1. ASSUME NEW k \in Kinds, Cursor(p, k) # 0
        PROVE  /\ Cursor(p, k) \in 1..Len(b) /\ b[Cursor(p, k)].open
               /\ b[Cursor(p, k)].kind = k
               /\ \A i \in 1..Len(b) : i > Cursor(p, k) => b[i].kind # k
    <3>1. CASE k = kind
      <4>1. Cursor(p, k) = c
        BY <1>1, <3>1
      <4>2. \A i \in 1..Len(b) : ~(i > c)
        BY <1>2, <1>4
      <4> QED
        BY <1>4, <3>1, <4>1, <4>2
    <3>2. CASE k # kind
      <4>0. Cursor(p, k) = Cursor(o, k)
        BY <2>1, <3>2
      <4>1. PICK d : d = Cursor(o, k)
        OBVIOUS
      <4>2. d \in 1..Len(a) /\ a[d].open /\ a[d].kind = k /\ \A i \in 1..Len(a) : i > d => a[i].kind # k
        BY <1>0, <1>1, <2>1, <4>0, <4>1 DEF CursorsWrite
      <4>3. \A i \in 1..Len(b) : i > d => b[i].kind # k
        BY <1>4, <3>2, <4>2
      <4> QED
        BY <1>4, <4>0, <4>1, <4>2, <4>3
    <3> QED
      BY <3>1, <3>2
  <2> QED
    BY <1>1, <2>1 DEF CursorsWrite
<1>8. ToolsWrite(p)
  BY <1>0, <1>1, <1>4, SMTT(30) DEF ToolsWrite
<1>9. OneToolEach(p)
  BY <1>0 DEF OneToolEach
<1>10. Owned(p)
  <2>1. ASSUME NEW i \in 1..Len(b)
        PROVE  /\ b[i].kind \in Kinds \union {"tool"}
               /\ b[i].open /\ b[i].kind \in Kinds => i = Cursor(p, b[i].kind)
               /\ b[i].kind = "tool" => \E t \in Tools : p.tools[t].started /\ p.tools[t].block = i
    <3>1. CASE i = c
      BY <1>1, <1>4, <3>1 DEF Kinds
    <3>2. CASE i \in 1..Len(a)
      <4>1. /\ a[i].kind \in Kinds \union {"tool"}
            /\ a[i].open /\ a[i].kind \in Kinds => i = Cursor(o, a[i].kind)
            /\ a[i].kind = "tool" => \E t \in Tools : o.tools[t].started /\ o.tools[t].block = i
        BY <1>0, <1>1, <3>2 DEF Owned
      <4>2. b[i] = a[i] /\ i # 0
        BY <1>4, <3>2
      <4>3. a[i].open /\ a[i].kind \in Kinds => i = Cursor(p, a[i].kind)
        BY <4>1, <4>2
      <4> QED
        BY <4>1, <4>2, <4>3
    <3> QED
      BY <1>4, <3>1, <3>2
  <2> QED
    BY <1>1, <2>1 DEF Owned
<1> QED
  BY <1>5, <1>7, <1>8, <1>9, <1>10 DEF OutOK

(* A piece is added to the text or the reasoning.                          *)
LEMMA ContentSays ==
  ASSUME NEW o \in Outputs, NEW p \in Outputs, NEW kind \in Kinds, NEW c, NEW data \in Seq(Nat),
         OutOK(o), c = Cursor(o, kind), c # 0,
         Changed(o.blocks, p.blocks, c, Grown(o.blocks[c], data)),
         p.began = o.began, p.tools = o.tools,
         \A k \in Kinds : Cursor(p, k) = Cursor(o, k)
  PROVE  /\ OutOK(p) /\ o.blocks[c].open /\ o.blocks[c].kind = kind /\ o.began
         /\ Spoken(p.blocks, kind) = Spoken(o.blocks, kind) \o data
         /\ \A k \in Kinds : k # kind => Spoken(p.blocks, k) = Spoken(o.blocks, k)
<1>0. CursorsWrite(o) /\ ToolsWrite(o) /\ OneToolEach(o) /\ Owned(o)
  BY DEF OutOK
<1>1. PICK a, b : a = o.blocks /\ b = p.blocks
  OBVIOUS
<1>2. /\ a \in Seq(Blocks) /\ b \in Seq(Blocks) /\ Len(a) \in Nat /\ c \in Nat
  BY <1>1, OutTyped
<1>3. Changed(a, b, c, Grown(a[c], data))
  BY <1>1
<1>c. b[c].kind = a[c].kind /\ b[c].open = a[c].open
  <2>1. b[c] = Grown(a[c], data)
    BY <1>3 DEF Changed
  <2> QED
    BY <2>1 DEF Grown
<1>4. /\ Len(b) = Len(a) /\ c \in 1..Len(a)
      /\ \A i \in 1..Len(a) : i # c => b[i] = a[i]
      /\ \A i \in 1..Len(a) : b[i].kind = a[i].kind /\ b[i].open = a[i].open
  BY <1>3, <1>c DEF Changed
<1>6. a[c].kind = kind /\ a[c].open /\ \A i \in 1..Len(a) : i > c => a[i].kind # kind
  BY <1>0, <1>1 DEF CursorsWrite
<1>5. /\ Spoken(b, kind) = Spoken(a, kind) \o data
      /\ \A k \in Kinds : k # kind => Spoken(b, k) = Spoken(a, k)
  <2>0. a \in Seq(Blocks) /\ b \in Seq(Blocks) /\ c \in 1..Len(a) /\ data \in Seq(Nat)
    BY <1>2, <1>4
  <2>1. Spoken(b, kind) = Spoken(a, kind) \o data
    <3>1. a[c].kind = kind
      BY <1>6
    <3>2. LastOf(a, c, kind)
      BY <1>6 DEF LastOf
    <3>3. PICK block : block = Grown(a[c], data) /\ Changed(a, b, c, block)
      BY <1>3
    <3> QED
      BY ONLY <2>0, <3>1, <3>2, <3>3, SpokenGrown, ZenonT(40)
  <2>2. ASSUME NEW k \in Kinds, k # kind PROVE Spoken(b, k) = Spoken(a, k)
    <3>1. a[c].kind # k
      BY <1>6, <2>2
    <3>2. PICK block : block = Grown(a[c], data) /\ Changed(a, b, c, block)
      BY <1>3
    <3> QED
      BY ONLY <2>0, <3>1, <3>2, SpokenElse
  <2> QED
    BY <2>1, <2>2
<1>7. CursorsWrite(p)
  <2>1. ASSUME NEW k \in Kinds, Cursor(p, k) # 0
        PROVE  /\ Cursor(p, k) \in 1..Len(b) /\ b[Cursor(p, k)].open
               /\ b[Cursor(p, k)].kind = k
               /\ \A i \in 1..Len(b) : i > Cursor(p, k) => b[i].kind # k
    <3>2. PICK d : d = Cursor(o, k) /\ d = Cursor(p, k)
      BY <2>1
    <3>3. d \in 1..Len(a) /\ a[d].open /\ a[d].kind = k /\ \A i \in 1..Len(a) : i > d => a[i].kind # k
      BY <1>0, <1>1, <2>1, <3>2 DEF CursorsWrite
    <3> QED
      BY <1>4, <3>2, <3>3
  <2> QED
    BY <1>1, <2>1 DEF CursorsWrite
<1>8. ToolsWrite(p)
  <2>1. ASSUME NEW t \in Tools, o.tools[t].started PROVE o.tools[t].block # c
    BY <1>0, <1>1, <1>6, <2>1 DEF ToolsWrite, Kinds
  <2>2. \A t \in Tools : o.tools[t].started =>
          o.tools[t].block \in 1..Len(a) /\ b[o.tools[t].block] = a[o.tools[t].block]
    BY <1>0, <1>1, <1>4, <2>1 DEF ToolsWrite
  <2>3. ASSUME NEW t \in Tools
        PROVE  /\ p.tools[t].open => p.tools[t].started
               /\ p.tools[t].started =>
                    /\ p.tools[t].block \in 1..Len(b)
                    /\ b[p.tools[t].block].kind = "tool"
                    /\ b[p.tools[t].block].open = p.tools[t].open
                    /\ b[p.tools[t].block].data = p.tools[t].args
    <3>1. /\ o.tools[t].open => o.tools[t].started
          /\ o.tools[t].started =>
               /\ o.tools[t].block \in 1..Len(a)
               /\ a[o.tools[t].block].kind = "tool"
               /\ a[o.tools[t].block].open = o.tools[t].open
               /\ a[o.tools[t].block].data = o.tools[t].args
      BY <1>0, <1>1 DEF ToolsWrite
    <3> QED
      BY <1>4, <2>2, <3>1
  <2> QED
    BY <1>1, <2>3 DEF ToolsWrite
<1>9. OneToolEach(p)
  BY <1>0 DEF OneToolEach
<1>10. Owned(p)
  <2>1. ASSUME NEW i \in 1..Len(b)
        PROVE  /\ b[i].kind \in Kinds \union {"tool"}
               /\ b[i].open /\ b[i].kind \in Kinds => i = Cursor(p, b[i].kind)
               /\ b[i].kind = "tool" => \E t \in Tools : p.tools[t].started /\ p.tools[t].block = i
    <3>0. i \in 1..Len(a) /\ b[i].kind = a[i].kind /\ b[i].open = a[i].open
      BY <1>4
    <3>1. /\ a[i].kind \in Kinds \union {"tool"}
          /\ a[i].open /\ a[i].kind \in Kinds => i = Cursor(o, a[i].kind)
          /\ a[i].kind = "tool" => \E t \in Tools : o.tools[t].started /\ o.tools[t].block = i
      BY <1>0, <1>1, <3>0 DEF Owned
    <3> QED
      BY <3>0, <3>1
  <2> QED
    BY <1>1, <2>1 DEF Owned
<1>12. o.began
  BY <1>1, <1>4 DEF OutOK
<1> QED
  BY <1>1, <1>5, <1>6, <1>7, <1>8, <1>9, <1>10, <1>12 DEF OutOK

(* What the blocks tell of a call.                                         *)
SameTool(x, y) ==
  y.started = x.started /\ y.open = x.open /\ y.block = x.block /\ y.args = x.args

(* A call opens its block.                                                 *)
LEMMA ToolOpens ==
  ASSUME NEW o \in Outputs, NEW p \in Outputs, NEW t \in Tools, OutOK(o),
         ~o.tools[t].started, o.began,
         Opened(o.blocks, p.blocks, "tool"),
         p.began = o.began, \A k \in Kinds : Cursor(p, k) = Cursor(o, k),
         p.tools[t].started, p.tools[t].open,
         p.tools[t].block = Len(o.blocks) + 1, p.tools[t].args = <<>>,
         \A u \in Tools : u # t => SameTool(o.tools[u], p.tools[u])
  PROVE  OutOK(p) /\ SaidSame(o, p)
<1>0. CursorsWrite(o) /\ ToolsWrite(o) /\ OneToolEach(o) /\ Owned(o)
  BY DEF OutOK
<1>1. PICK a, b, c : a = o.blocks /\ b = p.blocks /\ c = Len(a) + 1
  OBVIOUS
<1>2. /\ a \in Seq(Blocks) /\ b \in Seq(Blocks) /\ Len(a) \in Nat /\ c \in Nat /\ c # 0
  BY <1>1, OutTyped
<1>3. Opened(a, b, "tool")
  BY <1>1
<1>4. /\ Len(b) = c /\ c \in 1..Len(b)
      /\ \A i \in 1..Len(a) : b[i] = a[i] /\ i \in 1..Len(b) /\ i # c
      /\ \A i \in 1..Len(b) : i \in 1..Len(a) \/ i = c
      /\ b[c].open = TRUE /\ b[c].kind = "tool" /\ b[c].data = <<>>
  BY <1>1, <1>2, <1>3 DEF Opened
<1>5. SaidSame(o, p)
  BY <1>1, <1>2, <1>3, SpokenOpened DEF SaidSame
<1>7. CursorsWrite(p)
  <2>1. ASSUME NEW k \in Kinds, Cursor(p, k) # 0
        PROVE  /\ Cursor(p, k) \in 1..Len(b) /\ b[Cursor(p, k)].open
               /\ b[Cursor(p, k)].kind = k
               /\ \A i \in 1..Len(b) : i > Cursor(p, k) => b[i].kind # k
    <3>1. PICK d : d = Cursor(o, k) /\ d = Cursor(p, k)
      BY <2>1
    <3>2. d \in 1..Len(a) /\ a[d].open /\ a[d].kind = k /\ \A i \in 1..Len(a) : i > d => a[i].kind # k
      BY <1>0, <1>1, <2>1, <3>1 DEF CursorsWrite
    <3>3. k # "tool"
      BY <2>1 DEF Kinds
    <3>4. \A i \in 1..Len(b) : i > d => b[i].kind # k
      BY <1>4, <3>2, <3>3
    <3> QED
      BY <1>4, <3>1, <3>2, <3>4
  <2> QED
    BY <1>1, <2>1 DEF CursorsWrite
<1>e. \A u \in Tools : o.tools[u].started => o.tools[u].block \in 1..Len(a) /\ o.tools[u].block # c
  BY <1>0, <1>1, <1>4 DEF ToolsWrite
<1>8. ToolsWrite(p)
  <2>0. p.tools[t].open \in BOOLEAN
    BY OutTyped DEF ToolStates
  <2>1. ASSUME NEW u \in Tools
        PROVE  /\ p.tools[u].open => p.tools[u].started
               /\ p.tools[u].started =>
                    /\ p.tools[u].block \in 1..Len(b)
                    /\ b[p.tools[u].block].kind = "tool"
                    /\ b[p.tools[u].block].open = p.tools[u].open
                    /\ b[p.tools[u].block].data = p.tools[u].args
    <3>1. CASE u = t
      <4>1. p.tools[t].block = c /\ p.tools[t].open = TRUE
        BY <1>1, <2>0
      <4> QED
        BY <1>4, <3>1, <4>1
    <3>2. CASE u # t
      <4>1. SameTool(o.tools[u], p.tools[u])
        BY <3>2
      <4>2. /\ o.tools[u].open => o.tools[u].started
            /\ o.tools[u].started =>
                 /\ o.tools[u].block \in 1..Len(a)
                 /\ a[o.tools[u].block].kind = "tool"
                 /\ a[o.tools[u].block].open = o.tools[u].open
                 /\ a[o.tools[u].block].data = o.tools[u].args
        BY <1>0, <1>1 DEF ToolsWrite
      <4> QED
        BY <1>4, <4>1, <4>2 DEF SameTool
    <3> QED
      BY <3>1, <3>2
  <2> QED
    BY <1>1, <2>1 DEF ToolsWrite
<1>9. OneToolEach(p)
  <2>1. ASSUME NEW u \in Tools, u # t
        PROVE  /\ p.tools[u].started = o.tools[u].started /\ p.tools[u].block = o.tools[u].block
               /\ p.tools[u].started => p.tools[u].block # c
    BY <1>e, <2>1 DEF SameTool
  <2> QED
    BY <1>0, <1>1, <2>1 DEF OneToolEach
<1>10. Owned(p)
  <2>1. ASSUME NEW i \in 1..Len(b)
        PROVE  /\ b[i].kind \in Kinds \union {"tool"}
               /\ b[i].open /\ b[i].kind \in Kinds => i = Cursor(p, b[i].kind)
               /\ b[i].kind = "tool" => \E u \in Tools : p.tools[u].started /\ p.tools[u].block = i
    <3>1. CASE i = c
      BY <1>1, <1>4, <3>1 DEF Kinds
    <3>2. CASE i \in 1..Len(a)
      <4>1. /\ a[i].kind \in Kinds \union {"tool"}
            /\ a[i].open /\ a[i].kind \in Kinds => i = Cursor(o, a[i].kind)
            /\ a[i].kind = "tool" => \E u \in Tools : o.tools[u].started /\ o.tools[u].block = i
        BY <1>0, <1>1, <3>2 DEF Owned
      <4>2. b[i] = a[i]
        BY <1>4, <3>2
      <4>3. \A u \in Tools : o.tools[u].started => p.tools[u].started /\ p.tools[u].block = o.tools[u].block
        BY DEF SameTool
      <4> QED
        BY <4>1, <4>2, <4>3
    <3> QED
      BY <1>4, <3>1, <3>2
  <2> QED
    BY <1>1, <2>1 DEF Owned
<1> QED
  BY <1>5, <1>7, <1>8, <1>9, <1>10 DEF OutOK

(* A piece is added to the arguments of a call.                            *)
LEMMA ToolSays ==
  ASSUME NEW o \in Outputs, NEW p \in Outputs, NEW t \in Tools, NEW c, NEW data \in Seq(Nat),
         OutOK(o), o.tools[t].open, c = o.tools[t].block,
         Changed(o.blocks, p.blocks, c, Grown(o.blocks[c], data)),
         p.began = o.began, \A k \in Kinds : Cursor(p, k) = Cursor(o, k),
         p.tools[t].started, p.tools[t].open, p.tools[t].block = c,
         p.tools[t].args = o.tools[t].args \o data,
         \A u \in Tools : u # t => SameTool(o.tools[u], p.tools[u])
  PROVE  OutOK(p) /\ SaidSame(o, p) /\ o.blocks[c].open /\ o.blocks[c].kind = "tool" /\ o.began
<1>0. CursorsWrite(o) /\ ToolsWrite(o) /\ OneToolEach(o) /\ Owned(o)
  BY DEF OutOK
<1>1. PICK a, b : a = o.blocks /\ b = p.blocks
  OBVIOUS
<1>2. /\ a \in Seq(Blocks) /\ b \in Seq(Blocks) /\ Len(a) \in Nat
  BY <1>1, OutTyped
<1>3. Changed(a, b, c, Grown(a[c], data))
  BY <1>1
<1>c. b[c].kind = a[c].kind /\ b[c].open = a[c].open /\ b[c].data = a[c].data \o data
  <2>1. b[c] = Grown(a[c], data)
    BY <1>3 DEF Changed
  <2> QED
    BY ONLY <2>1 DEF Grown
<1>4. /\ Len(b) = Len(a) /\ c \in 1..Len(a)
      /\ \A i \in 1..Len(a) : i # c => b[i] = a[i]
      /\ \A i \in 1..Len(a) : b[i].kind = a[i].kind /\ b[i].open = a[i].open
  BY <1>3, <1>c DEF Changed
<1>t. \A u \in Tools : /\ o.tools[u].open => o.tools[u].started
                       /\ o.tools[u].started =>
                            /\ o.tools[u].block \in 1..Len(a)
                            /\ a[o.tools[u].block].kind = "tool"
                            /\ a[o.tools[u].block].open = o.tools[u].open
                            /\ a[o.tools[u].block].data = o.tools[u].args
  BY <1>0, <1>1 DEF ToolsWrite
<1>6. a[c].kind = "tool" /\ a[c].open /\ a[c].data = o.tools[t].args /\ o.tools[t].started
  BY <1>t
<1>e. \A u \in Tools : u # t /\ o.tools[u].started => o.tools[u].block # c
  BY <1>0, <1>6 DEF OneToolEach
<1>s. \A u \in Tools : p.tools[u].started = o.tools[u].started /\ p.tools[u].block = o.tools[u].block
  <2>1. o.tools[t].started \in BOOLEAN /\ p.tools[t].started \in BOOLEAN
    BY OutTyped DEF ToolStates
  <2> QED
    BY <1>6, <2>1 DEF SameTool
<1>5. SaidSame(o, p)
  <2>1. ASSUME NEW k \in Kinds PROVE Spoken(b, k) = Spoken(a, k)
    <3>1. a[c].kind # k
      BY <1>6, <2>1 DEF Kinds
    <3>2. a \in Seq(Blocks) /\ b \in Seq(Blocks) /\ c \in 1..Len(a) /\ data \in Seq(Nat)
      BY <1>2, <1>4
    <3>3. PICK block : block = Grown(a[c], data) /\ Changed(a, b, c, block)
      BY <1>3
    <3> QED
      BY ONLY <3>1, <3>2, <3>3, SpokenElse
  <2> QED
    BY <1>1, <2>1 DEF SaidSame
<1>7. CursorsWrite(p)
  <2>1. ASSUME NEW k \in Kinds, Cursor(p, k) # 0
        PROVE  /\ Cursor(p, k) \in 1..Len(b) /\ b[Cursor(p, k)].open
               /\ b[Cursor(p, k)].kind = k
               /\ \A i \in 1..Len(b) : i > Cursor(p, k) => b[i].kind # k
    <3>2. PICK d : d = Cursor(o, k) /\ d = Cursor(p, k)
      BY <2>1
    <3>3. d \in 1..Len(a) /\ a[d].open /\ a[d].kind = k /\ \A i \in 1..Len(a) : i > d => a[i].kind # k
      BY <1>0, <1>1, <2>1, <3>2 DEF CursorsWrite
    <3> QED
      BY <1>4, <3>2, <3>3
  <2> QED
    BY <1>1, <2>1 DEF CursorsWrite
<1>8. ToolsWrite(p)
  <2>1. ASSUME NEW u \in Tools
        PROVE  /\ p.tools[u].open => p.tools[u].started
               /\ p.tools[u].started =>
                    /\ p.tools[u].block \in 1..Len(b)
                    /\ b[p.tools[u].block].kind = "tool"
                    /\ b[p.tools[u].block].open = p.tools[u].open
                    /\ b[p.tools[u].block].data = p.tools[u].args
    <3>1. CASE u = t
      <4>1. o.tools[t].open = p.tools[t].open /\ a[c].open = o.tools[t].open
        <5>1. o.tools[t].open \in BOOLEAN /\ p.tools[t].open \in BOOLEAN
          BY OutTyped DEF ToolStates
        <5> QED
          BY <1>t, <1>6, <5>1
      <4> QED
        BY <1>c, <1>4, <1>6, <3>1, <4>1
    <3>2. CASE u # t
      <4>1. SameTool(o.tools[u], p.tools[u])
        BY <3>2
      <4>2. /\ p.tools[u].started = o.tools[u].started /\ p.tools[u].open = o.tools[u].open
            /\ p.tools[u].block = o.tools[u].block /\ p.tools[u].args = o.tools[u].args
        BY <4>1 DEF SameTool
      <4>3. o.tools[u].started =>
              o.tools[u].block \in 1..Len(a) /\ b[o.tools[u].block] = a[o.tools[u].block]
        BY <1>4, <1>t, <1>e, <3>2
      <4>4. /\ o.tools[u].open => o.tools[u].started
            /\ o.tools[u].started =>
                 /\ o.tools[u].block \in 1..Len(a)
                 /\ a[o.tools[u].block].kind = "tool"
                 /\ a[o.tools[u].block].open = o.tools[u].open
                 /\ a[o.tools[u].block].data = o.tools[u].args
        BY <1>t
      <4>5. Len(b) = Len(a)
        BY <1>4
      <4> QED
        BY ONLY <4>2, <4>3, <4>4, <4>5
    <3> QED
      BY <3>1, <3>2
  <2> QED
    BY <1>1, <2>1 DEF ToolsWrite
<1>9. OneToolEach(p)
  BY <1>0, <1>s DEF OneToolEach
<1>10. Owned(p)
  <2>1. ASSUME NEW i \in 1..Len(b)
        PROVE  /\ b[i].kind \in Kinds \union {"tool"}
               /\ b[i].open /\ b[i].kind \in Kinds => i = Cursor(p, b[i].kind)
               /\ b[i].kind = "tool" => \E u \in Tools : p.tools[u].started /\ p.tools[u].block = i
    <3>0. i \in 1..Len(a) /\ b[i].kind = a[i].kind /\ b[i].open = a[i].open
      BY <1>4
    <3>1. /\ a[i].kind \in Kinds \union {"tool"}
          /\ a[i].open /\ a[i].kind \in Kinds => i = Cursor(o, a[i].kind)
          /\ a[i].kind = "tool" => \E u \in Tools : o.tools[u].started /\ o.tools[u].block = i
      BY <1>0, <1>1, <3>0 DEF Owned
    <3> QED
      BY <1>s, <3>0, <3>1
  <2> QED
    BY <1>1, <2>1 DEF Owned
<1>12. o.began
  BY <1>1, <1>4 DEF OutOK
<1> QED
  BY <1>1, <1>5, <1>6, <1>7, <1>8, <1>9, <1>10, <1>12 DEF OutOK

(* A call's block is closed.                                               *)
LEMMA ToolStops ==
  ASSUME NEW o \in Outputs, NEW p \in Outputs, NEW t \in Tools, NEW c,
         OutOK(o), o.tools[t].open, c = o.tools[t].block,
         Changed(o.blocks, p.blocks, c, Closed(o.blocks[c])),
         p.began = o.began, \A k \in Kinds : Cursor(p, k) = Cursor(o, k),
         p.tools[t].started, ~p.tools[t].open, p.tools[t].block = c,
         p.tools[t].args = o.tools[t].args,
         \A u \in Tools : u # t => SameTool(o.tools[u], p.tools[u])
  PROVE  OutOK(p) /\ SaidSame(o, p) /\ o.blocks[c].open /\ o.blocks[c].kind = "tool" /\ o.began
<1>0. CursorsWrite(o) /\ ToolsWrite(o) /\ OneToolEach(o) /\ Owned(o)
  BY DEF OutOK
<1>1. PICK a, b : a = o.blocks /\ b = p.blocks
  OBVIOUS
<1>2. /\ a \in Seq(Blocks) /\ b \in Seq(Blocks) /\ Len(a) \in Nat
  BY <1>1, OutTyped
<1>3. Changed(a, b, c, Closed(a[c]))
  BY <1>1
<1>c. b[c].kind = a[c].kind /\ b[c].open = FALSE /\ b[c].data = a[c].data
  <2>1. b[c] = Closed(a[c])
    BY <1>3 DEF Changed
  <2> QED
    BY <2>1 DEF Closed
<1>4. /\ Len(b) = Len(a) /\ c \in 1..Len(a)
      /\ \A i \in 1..Len(a) : i # c => b[i] = a[i]
      /\ \A i \in 1..Len(a) : b[i].kind = a[i].kind
  BY <1>3, <1>c DEF Changed
<1>t. \A u \in Tools : /\ o.tools[u].open => o.tools[u].started
                       /\ o.tools[u].started =>
                            /\ o.tools[u].block \in 1..Len(a)
                            /\ a[o.tools[u].block].kind = "tool"
                            /\ a[o.tools[u].block].open = o.tools[u].open
                            /\ a[o.tools[u].block].data = o.tools[u].args
  BY <1>0, <1>1 DEF ToolsWrite
<1>6. a[c].kind = "tool" /\ a[c].open /\ a[c].data = o.tools[t].args /\ o.tools[t].started
  BY <1>t
<1>e. \A u \in Tools : u # t /\ o.tools[u].started => o.tools[u].block # c
  BY <1>0, <1>6 DEF OneToolEach
<1>s. \A u \in Tools : p.tools[u].started = o.tools[u].started /\ p.tools[u].block = o.tools[u].block
  <2>1. o.tools[t].started \in BOOLEAN /\ p.tools[t].started \in BOOLEAN
    BY OutTyped DEF ToolStates
  <2> QED
    BY <1>6, <2>1 DEF SameTool
<1>5. SaidSame(o, p)
  BY <1>1, <1>2, <1>3, SpokenClosed DEF SaidSame
<1>7. CursorsWrite(p)
  <2>1. ASSUME NEW k \in Kinds, Cursor(p, k) # 0
        PROVE  /\ Cursor(p, k) \in 1..Len(b) /\ b[Cursor(p, k)].open
               /\ b[Cursor(p, k)].kind = k
               /\ \A i \in 1..Len(b) : i > Cursor(p, k) => b[i].kind # k
    <3>2. PICK d : d = Cursor(o, k) /\ d = Cursor(p, k)
      BY <2>1
    <3>3. d \in 1..Len(a) /\ a[d].open /\ a[d].kind = k /\ \A i \in 1..Len(a) : i > d => a[i].kind # k
      BY <1>0, <1>1, <2>1, <3>2 DEF CursorsWrite
    <3>4. d # c
      BY <1>6, <2>1, <3>3 DEF Kinds
    <3> QED
      BY <1>4, <3>2, <3>3, <3>4
  <2> QED
    BY <1>1, <2>1 DEF CursorsWrite
<1>8. ToolsWrite(p)
  <2>1. ASSUME NEW u \in Tools
        PROVE  /\ p.tools[u].open => p.tools[u].started
               /\ p.tools[u].started =>
                    /\ p.tools[u].block \in 1..Len(b)
                    /\ b[p.tools[u].block].kind = "tool"
                    /\ b[p.tools[u].block].open = p.tools[u].open
                    /\ b[p.tools[u].block].data = p.tools[u].args
    <3>1. CASE u = t
      <4>1. p.tools[t].open = FALSE
        BY OutTyped DEF ToolStates
      <4> QED
        BY <1>c, <1>4, <1>6, <3>1, <4>1
    <3>2. CASE u # t
      <4>1. SameTool(o.tools[u], p.tools[u])
        BY <3>2
      <4>2. /\ p.tools[u].started = o.tools[u].started /\ p.tools[u].open = o.tools[u].open
            /\ p.tools[u].block = o.tools[u].block /\ p.tools[u].args = o.tools[u].args
        BY <4>1 DEF SameTool
      <4>3. o.tools[u].started =>
              o.tools[u].block \in 1..Len(a) /\ b[o.tools[u].block] = a[o.tools[u].block]
        BY <1>4, <1>t, <1>e, <3>2
      <4>4. /\ o.tools[u].open => o.tools[u].started
            /\ o.tools[u].started =>
                 /\ o.tools[u].block \in 1..Len(a)
                 /\ a[o.tools[u].block].kind = "tool"
                 /\ a[o.tools[u].block].open = o.tools[u].open
                 /\ a[o.tools[u].block].data = o.tools[u].args
        BY <1>t
      <4>5. Len(b) = Len(a)
        BY <1>4
      <4> QED
        BY ONLY <4>2, <4>3, <4>4, <4>5
    <3> QED
      BY <3>1, <3>2
  <2> QED
    BY <1>1, <2>1 DEF ToolsWrite
<1>9. OneToolEach(p)
  BY <1>0, <1>s DEF OneToolEach
<1>10. Owned(p)
  <2>1. ASSUME NEW i \in 1..Len(b)
        PROVE  /\ b[i].kind \in Kinds \union {"tool"}
               /\ b[i].open /\ b[i].kind \in Kinds => i = Cursor(p, b[i].kind)
               /\ b[i].kind = "tool" => \E u \in Tools : p.tools[u].started /\ p.tools[u].block = i
    <3>0. i \in 1..Len(a) /\ b[i].kind = a[i].kind /\ (b[i].open => a[i].open)
      BY <1>c, <1>4
    <3>1. /\ a[i].kind \in Kinds \union {"tool"}
          /\ a[i].open /\ a[i].kind \in Kinds => i = Cursor(o, a[i].kind)
          /\ a[i].kind = "tool" => \E u \in Tools : o.tools[u].started /\ o.tools[u].block = i
      BY <1>0, <1>1, <3>0 DEF Owned
    <3> QED
      BY <1>s, <3>0, <3>1
  <2> QED
    BY <1>1, <2>1 DEF Owned
<1>12. o.began
  BY <1>1, <1>4 DEF OutOK
<1> QED
  BY <1>1, <1>5, <1>6, <1>7, <1>8, <1>9, <1>10, <1>12 DEF OutOK

(* What the output notes of its calls alone does not touch the blocks.      *)
LEMMA ToolsSame ==
  ASSUME NEW o, NEW p, OutOK(o), p.blocks = o.blocks,
         o.began => p.began, \A k \in Kinds : Cursor(p, k) = Cursor(o, k),
         \A u \in Tools : SameTool(o.tools[u], p.tools[u])
  PROVE  OutOK(p) /\ SaidSame(o, p)
<1>0. CursorsWrite(o) /\ ToolsWrite(o) /\ OneToolEach(o) /\ Owned(o)
  BY DEF OutOK
<1>1. CursorsWrite(p)
  BY <1>0 DEF CursorsWrite
<1>2. ToolsWrite(p) /\ OneToolEach(p)
  BY <1>0 DEF ToolsWrite, OneToolEach, SameTool
<1>3. Owned(p)
  BY <1>0 DEF Owned, SameTool
<1>4. SaidSame(o, p)
  BY DEF SaidSame
<1> QED
  BY <1>0, <1>1, <1>2, <1>3, <1>4 DEF OutOK

-----------------------------------------------------------------------------
(* The operations of an output.                                            *)

(* What is written, made of its parts.                                     *)
Made(began, blocks, text, reasoning, tools, events) ==
  [out |-> [began |-> began, blocks |-> blocks, text |-> text, reasoning |-> reasoning,
            tools |-> tools],
   events |-> events]

(* What is written is made of its parts, and a change is a change of one.   *)
LEMMA MadeOfParts ==
  ASSUME NEW w \in Writes
  PROVE  w = Made(w.out.began, w.out.blocks, w.out.text, w.out.reasoning, w.out.tools, w.events)
<1>1. w = [out |-> w.out, events |-> w.events] /\ w.out \in Outputs
  BY DEF Writes
<1>2. w.out = [began |-> w.out.began, blocks |-> w.out.blocks, text |-> w.out.text,
               reasoning |-> w.out.reasoning, tools |-> w.out.tools]
  BY <1>1 DEF Outputs
<1> QED
  BY <1>1, <1>2 DEF Made

(* The parts of what is made, and each part changed.                       *)
LEMMA MadeChanged ==
  ASSUME NEW began, NEW blocks, NEW text, NEW reasoning, NEW tools, NEW events, NEW w,
         w = Made(began, blocks, text, reasoning, tools, events)
  PROVE  /\ w.out.began = began /\ w.out.blocks = blocks /\ w.out.text = text
         /\ w.out.reasoning = reasoning /\ w.out.tools = tools /\ w.events = events
         /\ \A x : [w EXCEPT !.out.began = x] = Made(x, blocks, text, reasoning, tools, events)
         /\ \A x : [w EXCEPT !.out.text = x] = Made(began, blocks, x, reasoning, tools, events)
         /\ \A x : [w EXCEPT !.out.reasoning = x] = Made(began, blocks, text, x, tools, events)
         /\ \A x : [w EXCEPT !.out.tools = x] = Made(began, blocks, text, reasoning, x, events)
         /\ \A ev : Write(w, ev) = Made(began, Recorded(blocks, ev), text, reasoning, tools,
                                        Append(events, ev))
  BY SMTT(30) DEF Made, Write

(* What is made of parts of the right types is what is written.            *)
LEMMA MadeTyped ==
  ASSUME NEW began \in BOOLEAN, NEW blocks \in Seq(Blocks), NEW text \in Nat, NEW reasoning \in Nat,
         NEW tools \in [Tools -> ToolStates], NEW events \in Seq(Events)
  PROVE  Made(began, blocks, text, reasoning, tools, events) \in Writes
  BY DEF Made, Writes, Outputs

(* An event that is expected, and leaves a good output, is good.            *)
LEMMA Wrote ==
  ASSUME NEW base \in Outputs, NEW w, Good(base, w), NEW v, NEW ev \in Events,
         v \in Writes, v.out.blocks = Recorded(w.out.blocks, ev), v.events = Append(w.events, ev),
         v.out.began, ev.type # "end", (ev.type = "start") # w.out.began,
         ev.type = "open" => ev.block = Len(w.out.blocks) + 1,
         ev.type \in {"delta", "close"} =>
           ev.block \in 1..Len(w.out.blocks) /\ w.out.blocks[ev.block].open,
         ev.type = "delta" => ev.kind = w.out.blocks[ev.block].kind,
         OutOK(v.out)
  PROVE  Good(base, v)
<1>1. OneMore(w, v, ev)
  BY DEF OneMore, Good
<1>2. Shown(base, w)
  BY DEF Good
<1>3. Shown(base, v)
  BY <1>1, <1>2, ReadWritten
<1> QED
  BY <1>3 DEF Good

(* The block of text or reasoning that is written to is closed, and no     *)
(* block is written to in its place: stop_text and stop_reasoning.         *)
LEMMA ContentStopped ==
  ASSUME NEW base \in Outputs, NEW w, Good(base, w), NEW kind \in Kinds, NEW c,
         c = Cursor(w.out, kind), c # 0, NEW text \in Nat, NEW reasoning \in Nat, NEW v,
         v = Made(w.out.began, Recorded(w.out.blocks, Event("close", c, kind, <<>>)), text, reasoning,
                  w.out.tools, Append(w.events, Event("close", c, kind, <<>>))),
         Cursor(v.out, kind) = 0,
         \A k \in Kinds : k # kind => Cursor(v.out, k) = Cursor(w.out, k)
  PROVE  Good(base, v) /\ SaidSame(w.out, v.out)
<1>0. w \in Writes /\ OutOK(w.out) /\ w.out \in Outputs
  BY WriteTyped DEF Good
<1>1. PICK ev : ev = Event("close", c, kind, <<>>)
  OBVIOUS
<1>2. PICK o, p : o = w.out /\ p = v.out
  OBVIOUS
<1>3. c \in Nat /\ o \in Outputs /\ OutOK(o) /\ c \in 1..Len(o.blocks)
  <2>1. CursorsWrite(o) /\ c \in Nat
    BY <1>0, <1>2, WriteTyped DEF OutOK
  <2> QED
    BY <1>0, <1>2, <2>1 DEF CursorsWrite
<1>4. ev \in Events /\ ev.type = "close" /\ ev.block = c
  BY <1>1, <1>3, EmptySeq DEF Event, Events, Kinds
<1>5. /\ p.began = o.began /\ p.blocks = Recorded(o.blocks, ev) /\ p.tools = o.tools
      /\ p.text = text /\ p.reasoning = reasoning
      /\ v.events = Append(w.events, ev)
  <2>1. v = Made(w.out.began, Recorded(w.out.blocks, ev), text, reasoning, w.out.tools,
                 Append(w.events, ev))
    BY <1>1
  <2> QED
    BY ONLY <1>2, <2>1 DEF Made
<1>6. /\ Changed(o.blocks, p.blocks, c, Closed(o.blocks[c]))
      /\ p.blocks \in Seq(Blocks)
  <2>1. o.blocks \in Seq(Blocks)
    BY <1>3, OutTyped
  <2> QED
    BY <1>3, <1>4, <1>5, <2>1, RecordedFacts
<1>7. v \in Writes /\ p \in Outputs
  <2>1. Append(w.events, ev) \in Seq(Events) /\ w.out.began \in BOOLEAN /\ w.out.tools \in [Tools -> ToolStates]
    <3>1. w.events \in Seq(Events)
      BY <1>0, WriteTyped
    <3> QED
      BY <1>0, <1>4, <3>1, WriteTyped, AppendProperties
  <2>2. v \in Writes
    <3>1. v = Made(w.out.began, p.blocks, text, reasoning, w.out.tools, Append(w.events, ev))
      BY <1>1, <1>2, <1>5
    <3>2. p.blocks \in Seq(Blocks) /\ text \in Nat /\ reasoning \in Nat
      BY <1>6
    <3> QED
      BY ONLY <2>1, <3>1, <3>2, MadeTyped
  <2> QED
    BY <1>2, <2>2, WriteTyped
<1>8. OutOK(p) /\ SaidSame(o, p) /\ o.blocks[c].open /\ o.began
  <2>1. c = Cursor(o, kind) /\ Cursor(p, kind) = 0 /\ \A k \in Kinds : k # kind => Cursor(p, k) = Cursor(o, k)
    BY <1>2
  <2> QED
    BY <1>3, <1>5, <1>6, <1>7, <2>1, ContentCloses
<1>9. Good(base, v)
  <2>1. /\ v.out.blocks = Recorded(w.out.blocks, ev) /\ v.events = Append(w.events, ev)
        /\ v.out.began /\ w.out.began /\ OutOK(v.out)
        /\ ev.block \in 1..Len(w.out.blocks) /\ w.out.blocks[ev.block].open
    BY <1>2, <1>3, <1>4, <1>5, <1>8
  <2>2. base \in Outputs /\ Good(base, w) /\ v \in Writes
    BY <1>7
  <2> QED
    BY ONLY <1>4, <2>1, <2>2, Wrote
<1> QED
  BY <1>2, <1>8, <1>9

(* message_start has been written.                                         *)
Begun(w) == w.out.began

(* Where no block of the kind is written to, one is opened.                *)
LEMMA ContentBegun ==
  ASSUME NEW base \in Outputs, NEW w, Good(base, w), Begun(w), NEW kind \in Kinds, NEW c \in Nat,
         c = NextBlock(w), Cursor(w.out, kind) = 0, NEW ev, ev = Event("open", c, kind, <<>>),
         NEW text \in Nat, NEW reasoning \in Nat, NEW v,
         v = Made(w.out.began, Recorded(w.out.blocks, ev), text, reasoning,
                  w.out.tools, Append(w.events, ev)),
         Cursor(v.out, kind) = c,
         \A k \in Kinds : k # kind => Cursor(v.out, k) = Cursor(w.out, k)
  PROVE  Good(base, v) /\ SaidSame(w.out, v.out)
<1>0. w \in Writes /\ OutOK(w.out) /\ w.out \in Outputs /\ w.out.began
  BY WriteTyped DEF Good, Begun
<1>2. PICK o, p : o = w.out /\ p = v.out
  OBVIOUS
<1>3. c \in Nat /\ o \in Outputs /\ OutOK(o)
  BY <1>0, <1>2, WriteTyped
<1>4. ev \in Events /\ ev.type = "open" /\ ev.block = c /\ ev.kind = kind
  BY <1>3, EmptySeq DEF Event, Events, Kinds
<1>5. /\ p.began = o.began /\ p.blocks = Recorded(o.blocks, ev) /\ p.tools = o.tools
      /\ p.text = text /\ p.reasoning = reasoning
      /\ v.events = Append(w.events, ev)
  <2>1. v = Made(w.out.began, Recorded(w.out.blocks, ev), text, reasoning, w.out.tools,
                 Append(w.events, ev))
    OBVIOUS
  <2> QED
    BY ONLY <1>2, <2>1 DEF Made
<1>6. /\ Opened(o.blocks, p.blocks, kind)
      /\ p.blocks \in Seq(Blocks)
  <2>1. o.blocks \in Seq(Blocks)
    BY <1>3, OutTyped
  <2> QED
    BY <1>4, <1>5, <2>1, RecordedFacts
<1>7. v \in Writes /\ p \in Outputs
  <2>1. Append(w.events, ev) \in Seq(Events) /\ w.out.began \in BOOLEAN /\ w.out.tools \in [Tools -> ToolStates]
    <3>1. w.events \in Seq(Events)
      BY <1>0, WriteTyped
    <3> QED
      BY <1>0, <1>4, <3>1, WriteTyped, AppendProperties
  <2>2. v \in Writes
    <3>1. v = Made(w.out.began, p.blocks, text, reasoning, w.out.tools, Append(w.events, ev))
      BY <1>2, <1>5
    <3>2. p.blocks \in Seq(Blocks) /\ text \in Nat /\ reasoning \in Nat
      BY <1>6
    <3> QED
      BY ONLY <2>1, <3>1, <3>2, MadeTyped
  <2> QED
    BY <1>2, <2>2, WriteTyped
<1>8. OutOK(p) /\ SaidSame(o, p)
  <2>1. /\ Cursor(o, kind) = 0 /\ Cursor(p, kind) = Len(o.blocks) + 1 /\ o.began
        /\ \A k \in Kinds : k # kind => Cursor(p, k) = Cursor(o, k)
    BY <1>0, <1>2 DEF NextBlock
  <2> QED
    BY <1>3, <1>5, <1>6, <1>7, <2>1, ContentOpens
<1>9. Good(base, v)
  <2>0. Len(w.out.blocks) + 1 = c
    BY DEF NextBlock
  <2>1. /\ v.out.blocks = Recorded(w.out.blocks, ev) /\ v.events = Append(w.events, ev)
        /\ v.out.began /\ w.out.began /\ OutOK(v.out)
        /\ ev.block = Len(w.out.blocks) + 1
    BY <1>0, <1>2, <1>4, <1>5, <1>8, <2>0
  <2>2. base \in Outputs /\ Good(base, w) /\ v \in Writes
    BY <1>7
  <2> QED
    BY ONLY <1>4, <2>1, <2>2, Wrote
<1> QED
  BY <1>2, <1>8, <1>9

(* What is made of what was written and one more event is written too.     *)
LEMMA MadeFrom ==
  ASSUME NEW w \in Writes, NEW ev \in Events, NEW blocks \in Seq(Blocks), NEW text \in Nat,
         NEW reasoning \in Nat, NEW tools \in [Tools -> ToolStates], NEW began \in BOOLEAN, NEW v,
         v = Made(began, blocks, text, reasoning, tools, Append(w.events, ev))
  PROVE  v \in Writes /\ v.out \in Outputs
<1>1. w.events \in Seq(Events)
  BY WriteTyped
<1>2. Append(w.events, ev) \in Seq(Events)
  BY <1>1, AppendProperties
<1>3. v \in Writes
  BY <1>2, MadeTyped
<1> QED
  BY <1>3, WriteTyped

(* Text or reasoning is added to the block it is written to.                *)
LEMMA ContentSaid ==
  ASSUME NEW base \in Outputs, NEW w, Good(base, w), NEW kind \in Kinds, NEW c,
         c = Cursor(w.out, kind), c # 0, NEW data \in Seq(Nat), NEW v,
         v = Write(w, Event("delta", c, kind, data))
  PROVE  /\ Good(base, v)
         /\ Spoken(v.out.blocks, kind) = Spoken(w.out.blocks, kind) \o data
         /\ \A k \in Kinds : k # kind => Spoken(v.out.blocks, k) = Spoken(w.out.blocks, k)
         /\ v.out.began = w.out.began /\ v.out.tools = w.out.tools
         /\ v.out.text = w.out.text /\ v.out.reasoning = w.out.reasoning
<1>0. w \in Writes /\ OutOK(w.out) /\ w.out \in Outputs
  BY WriteTyped DEF Good
<1>1. PICK ev : ev = Event("delta", c, kind, data)
  OBVIOUS
<1>3. c \in Nat /\ c \in 1..Len(w.out.blocks)
  <2>1. CursorsWrite(w.out) /\ c \in Nat
    BY <1>0, WriteTyped DEF OutOK
  <2> QED
    BY <2>1 DEF CursorsWrite
<1>4. ev \in Events /\ ev.type = "delta" /\ ev.block = c /\ ev.kind = kind /\ ev.data = data
  BY <1>1, <1>3 DEF Event, Events, Kinds
<1>5. PICK blocks : blocks = Recorded(w.out.blocks, ev)
  OBVIOUS
<1>6. blocks \in Seq(Blocks) /\ Changed(w.out.blocks, blocks, c, Grown(w.out.blocks[c], data))
  <2>1. w.out.blocks \in Seq(Blocks)
    BY <1>0, WriteTyped
  <2> QED
    BY <1>3, <1>4, <1>5, <2>1, RecordedFacts
<1>7. v = Made(w.out.began, blocks, w.out.text, w.out.reasoning, w.out.tools, Append(w.events, ev))
  BY <1>0, <1>1, <1>5, MadeOfParts, MadeChanged
<1>8. /\ w.out.text \in Nat /\ w.out.reasoning \in Nat /\ w.out.tools \in [Tools -> ToolStates]
      /\ w.out.began \in BOOLEAN
  BY <1>0, WriteTyped
<1>9. /\ v \in Writes /\ v.out \in Outputs
      /\ v.out.began = w.out.began /\ v.out.blocks = blocks /\ v.out.tools = w.out.tools
      /\ v.out.text = w.out.text /\ v.out.reasoning = w.out.reasoning
      /\ v.events = Append(w.events, ev)
  <2>1. v \in Writes /\ v.out \in Outputs
    BY ONLY <1>0, <1>4, <1>6, <1>7, <1>8, MadeFrom
  <2> QED
    BY ONLY <1>7, <2>1 DEF Made
<1>10. PICK o, p : o = w.out /\ p = v.out
  OBVIOUS
<1>11. /\ o \in Outputs /\ p \in Outputs /\ OutOK(o) /\ c = Cursor(o, kind) /\ c # 0
       /\ Changed(o.blocks, p.blocks, c, Grown(o.blocks[c], data))
       /\ p.began = o.began /\ p.tools = o.tools
       /\ \A k \in Kinds : Cursor(p, k) = Cursor(o, k)
  <2>1. \A k \in Kinds : Cursor(p, k) = Cursor(o, k)
    BY <1>9, <1>10 DEF Cursor
  <2> QED
    BY <1>0, <1>6, <1>9, <1>10, <2>1
<1>12. /\ OutOK(p) /\ o.blocks[c].open /\ o.blocks[c].kind = kind /\ o.began
       /\ Spoken(p.blocks, kind) = Spoken(o.blocks, kind) \o data
       /\ \A k \in Kinds : k # kind => Spoken(p.blocks, k) = Spoken(o.blocks, k)
  BY <1>11, ContentSays
<1>13. Good(base, v)
  <2>1. /\ v.out.blocks = Recorded(w.out.blocks, ev) /\ v.events = Append(w.events, ev)
        /\ v.out.began /\ w.out.began /\ OutOK(v.out)
        /\ ev.block \in 1..Len(w.out.blocks) /\ w.out.blocks[ev.block].open
        /\ ev.kind = w.out.blocks[ev.block].kind
    BY <1>3, <1>4, <1>5, <1>9, <1>10, <1>12
  <2>2. base \in Outputs /\ Good(base, w) /\ v \in Writes
    BY <1>9
  <2> QED
    BY ONLY <1>4, <2>1, <2>2, Wrote
<1> QED
  BY <1>9, <1>10, <1>12, <1>13

(* The calls but for one have what they had.                               *)
SameElse(ts, t, us) == \A u \in Tools : u # t => SameTool(ts[u], us[u])

(* What the client is told of a call, and that it is open at block c.       *)
OpenWith(tool, c, args) == tool.started /\ tool.open /\ tool.block = c /\ tool.args = args

(* The same of one that is closed; and that it is open there, whatever its *)
(* arguments.                                                              *)
ShutWith(tool, c, args) == tool.started /\ ~tool.open /\ tool.block = c /\ tool.args = args

OpenAt(tool, c) == tool.open /\ tool.block = c

(* A call is opened,                                                       *)
LEMMA ToolOpened ==
  ASSUME NEW base \in Outputs, NEW w, Good(base, w), Begun(w), NEW t \in Tools, NEW c \in Nat,
         c = NextBlock(w), ~w.out.tools[t].started, NEW ev, ev = Event("open", c, "tool", <<>>),
         NEW tools \in [Tools -> ToolStates], NEW v,
         v = Made(w.out.began, Recorded(w.out.blocks, ev), w.out.text, w.out.reasoning, tools,
                  Append(w.events, ev)),
         OpenWith(tools[t], c, <<>>),
         SameElse(w.out.tools, t, tools)
  PROVE  /\ Good(base, v) /\ SaidSame(w.out, v.out)
         /\ v.out.began = w.out.began /\ v.out.tools = tools
         /\ v.out.text = w.out.text /\ v.out.reasoning = w.out.reasoning
<1>0. w \in Writes /\ OutOK(w.out) /\ w.out \in Outputs /\ w.out.began
  BY WriteTyped DEF Good, Begun
<1>3. c = Len(w.out.blocks) + 1
  BY DEF NextBlock
<1>4. ev \in Events /\ ev.type = "open" /\ ev.block = c /\ ev.kind = "tool"
  BY EmptySeq DEF Event, Events, Kinds
<1>5. PICK blocks : blocks = Recorded(w.out.blocks, ev)
  OBVIOUS
<1>6. blocks \in Seq(Blocks) /\ Opened(w.out.blocks, blocks, "tool")
  <2>1. w.out.blocks \in Seq(Blocks)
    BY <1>0, WriteTyped
  <2> QED
    BY <1>4, <1>5, <2>1, RecordedFacts
<1>7. v = Made(w.out.began, blocks, w.out.text, w.out.reasoning, tools, Append(w.events, ev))
  BY <1>5
<1>8. /\ w.out.text \in Nat /\ w.out.reasoning \in Nat /\ tools \in [Tools -> ToolStates]
      /\ w.out.began \in BOOLEAN
  BY <1>0, WriteTyped
<1>9. /\ v \in Writes /\ v.out \in Outputs
      /\ v.out.began = w.out.began /\ v.out.blocks = blocks /\ v.out.tools = tools
      /\ v.out.text = w.out.text /\ v.out.reasoning = w.out.reasoning
      /\ v.events = Append(w.events, ev)
  <2>1. v \in Writes /\ v.out \in Outputs
    BY ONLY <1>0, <1>4, <1>6, <1>7, <1>8, MadeFrom
  <2> QED
    BY ONLY <1>7, <2>1 DEF Made
<1>10. PICK o, p : o = w.out /\ p = v.out
  OBVIOUS
<1>11. /\ o \in Outputs /\ p \in Outputs /\ OutOK(o) /\ ~o.tools[t].started /\ o.began
       /\ Opened(o.blocks, p.blocks, "tool")
       /\ p.began = o.began /\ \A k \in Kinds : Cursor(p, k) = Cursor(o, k)
       /\ p.tools[t].started /\ p.tools[t].open
       /\ p.tools[t].block = Len(o.blocks) + 1 /\ p.tools[t].args = <<>>
       /\ \A u \in Tools : u # t => SameTool(o.tools[u], p.tools[u])
  <2>1. \A k \in Kinds : Cursor(p, k) = Cursor(o, k)
    BY <1>9, <1>10 DEF Cursor
  <2> QED
    BY <1>0, <1>3, <1>6, <1>9, <1>10, <2>1 DEF SameElse, OpenWith, ShutWith
<1>12. OutOK(p) /\ SaidSame(o, p)
  BY <1>11, ToolOpens
<1>13. Good(base, v)
  <2>1. /\ v.out.blocks = Recorded(w.out.blocks, ev) /\ v.events = Append(w.events, ev)
        /\ v.out.began /\ w.out.began /\ OutOK(v.out)
        /\ ev.block = Len(w.out.blocks) + 1
    BY <1>0, <1>3, <1>4, <1>5, <1>9, <1>10, <1>12
  <2>2. base \in Outputs /\ Good(base, w) /\ v \in Writes
    BY <1>9
  <2> QED
    BY ONLY <1>4, <2>1, <2>2, Wrote
<1> QED
  BY <1>9, <1>10, <1>12, <1>13

(* a piece is added to its arguments,                                      *)
LEMMA ToolSaid ==
  ASSUME NEW base \in Outputs, NEW w, Good(base, w), NEW t \in Tools, NEW c \in Nat,
         OpenAt(w.out.tools[t], c), NEW data \in Seq(Nat),
         NEW tools \in [Tools -> ToolStates], NEW ev, ev = Event("delta", c, "tool", data), NEW v,
         v = Made(w.out.began, Recorded(w.out.blocks, ev), w.out.text, w.out.reasoning, tools,
                  Append(w.events, ev)),
         OpenWith(tools[t], c, w.out.tools[t].args \o data),
         SameElse(w.out.tools, t, tools)
  PROVE  /\ Good(base, v) /\ SaidSame(w.out, v.out)
         /\ v.out.began = w.out.began /\ v.out.tools = tools
         /\ v.out.text = w.out.text /\ v.out.reasoning = w.out.reasoning
<1>0. w \in Writes /\ OutOK(w.out) /\ w.out \in Outputs
  BY WriteTyped DEF Good
<1>3. c \in 1..Len(w.out.blocks) /\ Len(w.out.blocks) \in Nat /\ c \in Nat
  <2>1. ToolsWrite(w.out) /\ Len(w.out.blocks) \in Nat
    BY <1>0, WriteTyped DEF OutOK
  <2>2. w.out.tools[t].started
    BY <2>1 DEF ToolsWrite, OpenAt
  <2>3. w.out.tools[t].block \in 1..Len(w.out.blocks)
    BY <2>1, <2>2 DEF ToolsWrite
  <2> QED
    BY <2>1, <2>3 DEF OpenAt
<1>4. ev \in Events /\ ev.type = "delta" /\ ev.block = c /\ ev.kind = "tool" /\ ev.data = data
  BY <1>3 DEF Event, Events, Kinds
<1>5. PICK blocks : blocks = Recorded(w.out.blocks, ev)
  OBVIOUS
<1>6. blocks \in Seq(Blocks) /\ Changed(w.out.blocks, blocks, c, Grown(w.out.blocks[c], data))
  <2>1. w.out.blocks \in Seq(Blocks)
    BY <1>0, WriteTyped
  <2> QED
    BY <1>3, <1>4, <1>5, <2>1, RecordedFacts
<1>7. v = Made(w.out.began, blocks, w.out.text, w.out.reasoning, tools, Append(w.events, ev))
  BY <1>5
<1>8. /\ w.out.text \in Nat /\ w.out.reasoning \in Nat /\ tools \in [Tools -> ToolStates]
      /\ w.out.began \in BOOLEAN
  BY <1>0, WriteTyped
<1>9. /\ v \in Writes /\ v.out \in Outputs
      /\ v.out.began = w.out.began /\ v.out.blocks = blocks /\ v.out.tools = tools
      /\ v.out.text = w.out.text /\ v.out.reasoning = w.out.reasoning
      /\ v.events = Append(w.events, ev)
  <2>1. v \in Writes /\ v.out \in Outputs
    BY ONLY <1>0, <1>4, <1>6, <1>7, <1>8, MadeFrom
  <2> QED
    BY ONLY <1>7, <2>1 DEF Made
<1>10. PICK o, p : o = w.out /\ p = v.out
  OBVIOUS
<1>11. /\ o \in Outputs /\ p \in Outputs /\ OutOK(o) /\ o.tools[t].open /\ c = o.tools[t].block
       /\ Changed(o.blocks, p.blocks, c, Grown(o.blocks[c], data))
       /\ p.began = o.began /\ \A k \in Kinds : Cursor(p, k) = Cursor(o, k)
       /\ p.tools[t].started /\ p.tools[t].open /\ p.tools[t].block = c
       /\ p.tools[t].args = o.tools[t].args \o data
       /\ \A u \in Tools : u # t => SameTool(o.tools[u], p.tools[u])
  <2>1. \A k \in Kinds : Cursor(p, k) = Cursor(o, k)
    BY <1>9, <1>10 DEF Cursor
  <2> QED
    BY <1>0, <1>6, <1>9, <1>10, <2>1, ZenonT(40) DEF SameElse, OpenWith, ShutWith, OpenAt
<1>12. OutOK(p) /\ SaidSame(o, p) /\ o.blocks[c].open /\ o.blocks[c].kind = "tool" /\ o.began
  BY <1>11, ToolSays
<1>13. Good(base, v)
  <2>1. /\ v.out.blocks = Recorded(w.out.blocks, ev) /\ v.events = Append(w.events, ev)
        /\ v.out.began /\ w.out.began /\ OutOK(v.out)
        /\ ev.block \in 1..Len(w.out.blocks) /\ w.out.blocks[ev.block].open
        /\ ev.kind = w.out.blocks[ev.block].kind
    BY <1>3, <1>4, <1>5, <1>9, <1>10, <1>12
  <2>2. base \in Outputs /\ Good(base, w) /\ v \in Writes
    BY <1>9
  <2> QED
    BY ONLY <1>4, <2>1, <2>2, Wrote
<1> QED
  BY <1>9, <1>10, <1>12, <1>13

(* and it is closed.                                                       *)
LEMMA ToolStopped ==
  ASSUME NEW base \in Outputs, NEW w, Good(base, w), NEW t \in Tools, NEW c \in Nat,
         OpenAt(w.out.tools[t], c),
         NEW tools \in [Tools -> ToolStates], NEW ev, ev = Event("close", c, "tool", <<>>), NEW v,
         v = Made(w.out.began, Recorded(w.out.blocks, ev), w.out.text, w.out.reasoning, tools,
                  Append(w.events, ev)),
         ShutWith(tools[t], c, w.out.tools[t].args),
         SameElse(w.out.tools, t, tools)
  PROVE  /\ Good(base, v) /\ SaidSame(w.out, v.out)
         /\ v.out.began = w.out.began /\ v.out.tools = tools
         /\ v.out.text = w.out.text /\ v.out.reasoning = w.out.reasoning
<1>0. w \in Writes /\ OutOK(w.out) /\ w.out \in Outputs
  BY WriteTyped DEF Good
<1>3. c \in 1..Len(w.out.blocks) /\ Len(w.out.blocks) \in Nat /\ c \in Nat
  <2>1. ToolsWrite(w.out) /\ Len(w.out.blocks) \in Nat
    BY <1>0, WriteTyped DEF OutOK
  <2>2. w.out.tools[t].started
    BY <2>1 DEF ToolsWrite, OpenAt
  <2>3. w.out.tools[t].block \in 1..Len(w.out.blocks)
    BY <2>1, <2>2 DEF ToolsWrite
  <2> QED
    BY <2>1, <2>3 DEF OpenAt
<1>4. ev \in Events /\ ev.type = "close" /\ ev.block = c
  BY <1>3, EmptySeq DEF Event, Events, Kinds
<1>5. PICK blocks : blocks = Recorded(w.out.blocks, ev)
  OBVIOUS
<1>6. blocks \in Seq(Blocks) /\ Changed(w.out.blocks, blocks, c, Closed(w.out.blocks[c]))
  <2>1. w.out.blocks \in Seq(Blocks)
    BY <1>0, WriteTyped
  <2> QED
    BY <1>3, <1>4, <1>5, <2>1, RecordedFacts
<1>7. v = Made(w.out.began, blocks, w.out.text, w.out.reasoning, tools, Append(w.events, ev))
  BY <1>5
<1>8. /\ w.out.text \in Nat /\ w.out.reasoning \in Nat /\ tools \in [Tools -> ToolStates]
      /\ w.out.began \in BOOLEAN
  BY <1>0, WriteTyped
<1>9. /\ v \in Writes /\ v.out \in Outputs
      /\ v.out.began = w.out.began /\ v.out.blocks = blocks /\ v.out.tools = tools
      /\ v.out.text = w.out.text /\ v.out.reasoning = w.out.reasoning
      /\ v.events = Append(w.events, ev)
  <2>1. v \in Writes /\ v.out \in Outputs
    BY ONLY <1>0, <1>4, <1>6, <1>7, <1>8, MadeFrom
  <2> QED
    BY ONLY <1>7, <2>1 DEF Made
<1>10. PICK o, p : o = w.out /\ p = v.out
  OBVIOUS
<1>11. /\ o \in Outputs /\ p \in Outputs /\ OutOK(o) /\ o.tools[t].open /\ c = o.tools[t].block
       /\ Changed(o.blocks, p.blocks, c, Closed(o.blocks[c]))
       /\ p.began = o.began /\ \A k \in Kinds : Cursor(p, k) = Cursor(o, k)
       /\ p.tools[t].started /\ ~p.tools[t].open /\ p.tools[t].block = c
       /\ p.tools[t].args = o.tools[t].args
       /\ \A u \in Tools : u # t => SameTool(o.tools[u], p.tools[u])
  <2>1. \A k \in Kinds : Cursor(p, k) = Cursor(o, k)
    BY <1>9, <1>10 DEF Cursor
  <2> QED
    BY <1>0, <1>6, <1>9, <1>10, <2>1, ZenonT(40) DEF SameElse, OpenWith, ShutWith, OpenAt
<1>12. OutOK(p) /\ SaidSame(o, p) /\ o.blocks[c].open /\ o.began
  BY <1>11, ToolStops, SMTT(30)
<1>13. Good(base, v)
  <2>1. /\ v.out.blocks = Recorded(w.out.blocks, ev) /\ v.events = Append(w.events, ev)
        /\ v.out.began /\ w.out.began /\ OutOK(v.out)
        /\ ev.block \in 1..Len(w.out.blocks) /\ w.out.blocks[ev.block].open
    BY <1>3, <1>4, <1>5, <1>9, <1>10, <1>12
  <2>2. base \in Outputs /\ Good(base, w) /\ v \in Writes
    BY <1>9
  <2> QED
    BY ONLY <1>4, <2>1, <2>2, Wrote
<1> QED
  BY <1>9, <1>10, <1>12, <1>13

(* What is noted of the calls alone.                                       *)
LEMMA ToolNoted ==
  ASSUME NEW base \in Outputs, NEW w, Good(base, w), NEW tools \in [Tools -> ToolStates], NEW v,
         v = Made(w.out.began, w.out.blocks, w.out.text, w.out.reasoning, tools, w.events),
         \A u \in Tools : SameTool(w.out.tools[u], tools[u])
  PROVE  /\ Good(base, v) /\ SaidSame(w.out, v.out)
         /\ v.out.began = w.out.began /\ v.out.tools = tools
         /\ v.out.text = w.out.text /\ v.out.reasoning = w.out.reasoning
         /\ v.out.blocks = w.out.blocks
<1>0. w \in Writes /\ OutOK(w.out) /\ w.out \in Outputs
  BY WriteTyped DEF Good
<1>1. v = Made(w.out.began, w.out.blocks, w.out.text, w.out.reasoning, tools, w.events)
  OBVIOUS
<1>2. /\ v.out.began = w.out.began /\ v.out.blocks = w.out.blocks /\ v.out.tools = tools
      /\ v.out.text = w.out.text /\ v.out.reasoning = w.out.reasoning /\ v.events = w.events
  BY ONLY <1>1 DEF Made
<1>3. v \in Writes
  <2>1. /\ w.out.text \in Nat /\ w.out.reasoning \in Nat /\ tools \in [Tools -> ToolStates]
        /\ w.out.began \in BOOLEAN /\ w.out.blocks \in Seq(Blocks) /\ w.events \in Seq(Events)
    BY <1>0, WriteTyped
  <2> QED
    BY ONLY <1>1, <2>1, MadeTyped
<1>4. OutOK(v.out) /\ SaidSame(w.out, v.out)
  <2>1. \A k \in Kinds : Cursor(v.out, k) = Cursor(w.out, k)
    BY <1>2 DEF Cursor
  <2>2. \A u \in Tools : SameTool(w.out.tools[u], v.out.tools[u])
    BY <1>2
  <2>3. PICK o, p : o = w.out /\ p = v.out
    OBVIOUS
  <2>4. /\ OutOK(o) /\ p.blocks = o.blocks /\ (o.began => p.began)
        /\ \A k \in Kinds : Cursor(p, k) = Cursor(o, k)
        /\ \A u \in Tools : SameTool(o.tools[u], p.tools[u])
    BY <1>0, <1>2, <2>1, <2>2, <2>3
  <2>5. OutOK(p) /\ SaidSame(o, p)
    BY ONLY <2>4, ToolsSame
  <2> QED
    BY <2>3, <2>5
<1>5. Good(base, v)
  <2>1. View(v.out) = View(w.out)
    BY <1>2 DEF View
  <2> QED
    BY <1>2, <1>3, <1>4, <2>1 DEF Good, Shown
<1> QED
  BY <1>2, <1>4, <1>5

(* start_events                                                            *)
LEMMA BeganGood ==
  ASSUME NEW base \in Outputs, NEW w, Good(base, w)
  PROVE  /\ Good(base, Began(w)) /\ SaidSame(w.out, Began(w).out)
         /\ Began(w).out.began /\ Began(w).out.tools = w.out.tools
         /\ Began(w).out.blocks = w.out.blocks
<1>0. w \in Writes /\ OutOK(w.out) /\ w.out \in Outputs
  BY WriteTyped DEF Good
<1>1. PICK v : v = Began(w)
  OBVIOUS
<1>2. CASE w.out.began
  <2>1. v = w
    BY <1>1, <1>2 DEF Began
  <2> QED
    BY <1>1, <1>2, <2>1 DEF SaidSame
<1>3. CASE ~w.out.began
  <2>1. PICK ev : ev = Event("start", 0, "none", <<>>)
    OBVIOUS
  <2>2. ev \in Events /\ ev.type = "start"
    BY <2>1, EmptySeq DEF Event, Events, Kinds
  <2>3. v = [Write(w, ev) EXCEPT !.out.began = TRUE]
    BY <1>1, <1>3, <2>1 DEF Began
  <2>4. v = Made(TRUE, w.out.blocks, w.out.text, w.out.reasoning, w.out.tools, Append(w.events, ev))
    <3>1. w = Made(w.out.began, w.out.blocks, w.out.text, w.out.reasoning, w.out.tools, w.events)
      BY <1>0, MadeOfParts
    <3>2. Recorded(w.out.blocks, ev) = w.out.blocks
      BY <2>2 DEF Recorded
    <3>3. Write(w, ev) = Made(w.out.began, w.out.blocks, w.out.text, w.out.reasoning, w.out.tools,
                              Append(w.events, ev))
      BY ONLY <3>1, <3>2, MadeChanged
    <3>4. [Write(w, ev) EXCEPT !.out.began = TRUE] =
            Made(TRUE, w.out.blocks, w.out.text, w.out.reasoning, w.out.tools, Append(w.events, ev))
      <4>1. PICK x, yes : x = Write(w, ev) /\ yes = TRUE
        OBVIOUS
      <4>2. x = Made(w.out.began, w.out.blocks, w.out.text, w.out.reasoning, w.out.tools,
                     Append(w.events, ev))
        BY <3>3, <4>1
      <4>3. [x EXCEPT !.out.began = yes] =
              Made(yes, w.out.blocks, w.out.text, w.out.reasoning, w.out.tools, Append(w.events, ev))
        BY ONLY <4>2, MadeChanged
      <4> QED
        BY <4>1, <4>3
    <3> QED
      BY <2>3, <3>4
  <2>5. /\ v.out.began = TRUE /\ v.out.blocks = w.out.blocks /\ v.out.tools = w.out.tools
        /\ v.out.text = w.out.text /\ v.out.reasoning = w.out.reasoning
        /\ v.events = Append(w.events, ev)
    BY ONLY <2>4 DEF Made
  <2>6. v \in Writes
    <3>1. /\ w.out.text \in Nat /\ w.out.reasoning \in Nat /\ w.out.tools \in [Tools -> ToolStates]
          /\ TRUE \in BOOLEAN /\ w.out.blocks \in Seq(Blocks)
      BY <1>0, WriteTyped
    <3> QED
      BY ONLY <1>0, <2>2, <2>4, <3>1, MadeFrom
  <2>7. OutOK(v.out) /\ SaidSame(w.out, v.out)
    <3>1. \A k \in Kinds : Cursor(v.out, k) = Cursor(w.out, k)
      BY <2>5 DEF Cursor
    <3>2. \A u \in Tools : SameTool(w.out.tools[u], v.out.tools[u])
      BY <2>5 DEF SameTool
    <3>3. PICK o, p : o = w.out /\ p = v.out
      OBVIOUS
    <3>4. /\ OutOK(o) /\ p.blocks = o.blocks /\ (o.began => p.began)
          /\ \A k \in Kinds : Cursor(p, k) = Cursor(o, k)
          /\ \A u \in Tools : SameTool(o.tools[u], p.tools[u])
      BY <1>0, <2>5, <3>1, <3>2, <3>3
    <3>5. OutOK(p) /\ SaidSame(o, p)
      BY ONLY <3>4, ToolsSame
    <3> QED
      BY <3>3, <3>5
  <2>8. v.out.blocks = Recorded(w.out.blocks, ev)
    BY <2>2, <2>5 DEF Recorded
  <2>9. Good(base, v)
    BY <1>3, <2>2, <2>5, <2>6, <2>7, <2>8, Wrote
  <2> QED
    BY <1>1, <2>5, <2>7, <2>9
<1> QED
  BY <1>2, <1>3

(* v says what w says, has its calls, and has begun if it has.             *)
Carries(base, w, v) ==
  /\ Good(base, v) /\ SaidSame(w.out, v.out)
  /\ v.out.began = w.out.began /\ v.out.tools = w.out.tools

(* Two operations, one after the other, that each carry what was written   *)
(* on.                                                                     *)
LEMMA CarriesOn ==
  ASSUME NEW base, NEW u, NEW v, NEW w, Carries(base, u, v), Carries(base, v, w)
  PROVE  Carries(base, u, w)
  BY DEF Carries, SaidSame

(* Doing nothing carries on.                                               *)
LEMMA CarriesItself ==
  ASSUME NEW base, NEW w, Good(base, w)
  PROVE  Carries(base, w, w)
  BY DEF Carries, SaidSame

(* _close_text_block, _close_reasoning_block                               *)
LEMMA StopTextGood ==
  ASSUME NEW base \in Outputs, NEW w, Good(base, w)
  PROVE  /\ Carries(base, w, StopText(w))
         /\ StopText(w).out.text = 0 /\ StopText(w).out.reasoning = w.out.reasoning
<1>0. w \in Writes /\ w.out \in Outputs
  BY WriteTyped DEF Good
<1>1. PICK v : v = StopText(w)
  OBVIOUS
<1>2. CASE w.out.text = 0
  <2>1. v = w
    BY <1>1, <1>2 DEF StopText
  <2> QED
    BY <1>1, <1>2, <2>1, CarriesItself
<1>3. CASE w.out.text # 0
  <2>1. PICK c, ev : c = w.out.text /\ ev = Event("close", c, "text", <<>>)
    OBVIOUS
  <2>2. v = [Write(w, ev) EXCEPT !.out.text = 0]
    BY <1>1, <1>3, <2>1 DEF StopText
  <2>3. v = Made(w.out.began, Recorded(w.out.blocks, ev), 0, w.out.reasoning, w.out.tools,
                 Append(w.events, ev))
    <3>1. w = Made(w.out.began, w.out.blocks, w.out.text, w.out.reasoning, w.out.tools, w.events)
      BY <1>0, MadeOfParts
    <3>2. PICK x : x = Write(w, ev)
      OBVIOUS
    <3>3. x = Made(w.out.began, Recorded(w.out.blocks, ev), w.out.text, w.out.reasoning, w.out.tools,
                   Append(w.events, ev))
      BY ONLY <3>1, <3>2, MadeChanged
    <3>4. [x EXCEPT !.out.text = 0] =
            Made(w.out.began, Recorded(w.out.blocks, ev), 0, w.out.reasoning, w.out.tools,
                 Append(w.events, ev))
      BY ONLY <3>3, MadeChanged
    <3> QED
      BY <2>2, <3>2, <3>4
  <2>4. /\ v.out.began = w.out.began /\ v.out.tools = w.out.tools
        /\ v.out.text = 0 /\ v.out.reasoning = w.out.reasoning
    BY ONLY <2>3 DEF Made
  <2>5. /\ "text" \in Kinds /\ c = Cursor(w.out, "text") /\ c # 0 /\ 0 \in Nat
        /\ w.out.reasoning \in Nat /\ Cursor(v.out, "text") = 0
        /\ \A k \in Kinds : k # "text" => Cursor(v.out, k) = Cursor(w.out, k)
    BY <1>0, <1>3, <2>1, <2>4, WriteTyped DEF Cursor, Kinds
  <2>6. base \in Outputs /\ Good(base, w)
    OBVIOUS
  <2>7. Good(base, v) /\ SaidSame(w.out, v.out)
    BY ONLY <2>1, <2>3, <2>5, <2>6, ContentStopped
  <2> QED
    BY <1>1, <2>4, <2>7 DEF Carries
<1> QED
  BY <1>2, <1>3

(* stop_reasoning_block.                                                   *)
LEMMA StopReasoningGood ==
  ASSUME NEW base \in Outputs, NEW w, Good(base, w)
  PROVE  /\ Carries(base, w, StopReasoning(w))
         /\ StopReasoning(w).out.reasoning = 0 /\ StopReasoning(w).out.text = w.out.text
<1>0. w \in Writes /\ w.out \in Outputs
  BY WriteTyped DEF Good
<1>1. PICK v : v = StopReasoning(w)
  OBVIOUS
<1>2. CASE w.out.reasoning = 0
  <2>1. v = w
    BY <1>1, <1>2 DEF StopReasoning
  <2> QED
    BY <1>1, <1>2, <2>1, CarriesItself
<1>3. CASE w.out.reasoning # 0
  <2>1. PICK c, ev : c = w.out.reasoning /\ ev = Event("close", c, "reasoning", <<>>)
    OBVIOUS
  <2>2. v = [Write(w, ev) EXCEPT !.out.reasoning = 0]
    BY <1>1, <1>3, <2>1 DEF StopReasoning
  <2>3. v = Made(w.out.began, Recorded(w.out.blocks, ev), w.out.text, 0, w.out.tools,
                 Append(w.events, ev))
    <3>1. w = Made(w.out.began, w.out.blocks, w.out.text, w.out.reasoning, w.out.tools, w.events)
      BY <1>0, MadeOfParts
    <3>2. PICK x : x = Write(w, ev)
      OBVIOUS
    <3>3. x = Made(w.out.began, Recorded(w.out.blocks, ev), w.out.text, w.out.reasoning, w.out.tools,
                   Append(w.events, ev))
      BY ONLY <3>1, <3>2, MadeChanged
    <3>4. [x EXCEPT !.out.reasoning = 0] =
            Made(w.out.began, Recorded(w.out.blocks, ev), w.out.text, 0, w.out.tools,
                 Append(w.events, ev))
      BY ONLY <3>3, MadeChanged
    <3> QED
      BY <2>2, <3>2, <3>4
  <2>4. /\ v.out.began = w.out.began /\ v.out.tools = w.out.tools
        /\ v.out.text = w.out.text /\ v.out.reasoning = 0
    BY ONLY <2>3 DEF Made
  <2>5. /\ "reasoning" \in Kinds /\ c = Cursor(w.out, "reasoning") /\ c # 0 /\ 0 \in Nat
        /\ w.out.text \in Nat /\ Cursor(v.out, "reasoning") = 0
        /\ \A k \in Kinds : k # "reasoning" => Cursor(v.out, k) = Cursor(w.out, k)
    BY <1>0, <1>3, <2>1, <2>4, WriteTyped DEF Cursor, Kinds
  <2>6. base \in Outputs /\ Good(base, w)
    OBVIOUS
  <2>7. Good(base, v) /\ SaidSame(w.out, v.out)
    BY ONLY <2>1, <2>3, <2>5, <2>6, ContentStopped
  <2> QED
    BY <1>1, <2>4, <2>7 DEF Carries
<1> QED
  BY <1>2, <1>3

(* close_content_blocks.                                                   *)
LEMMA CloseContentGood ==
  ASSUME NEW base \in Outputs, NEW w, Good(base, w)
  PROVE  /\ Carries(base, w, CloseContent(w))
         /\ CloseContent(w).out.text = 0 /\ CloseContent(w).out.reasoning = 0
<1>1. PICK v : v = StopReasoning(w)
  OBVIOUS
<1>2. Carries(base, w, v) /\ v.out.reasoning = 0 /\ Good(base, v)
  BY <1>1, StopReasoningGood DEF Carries
<1>3. Carries(base, v, StopText(v)) /\ StopText(v).out.text = 0 /\ StopText(v).out.reasoning = 0
  BY <1>2, StopTextGood
<1>4. CloseContent(w) = StopText(v)
  BY <1>1 DEF CloseContent
<1> QED
  BY <1>2, <1>3, <1>4, CarriesOn

(* ensure_text_block, ensure_reasoning_block                               *)
LEMMA EnsureTextGood ==
  ASSUME NEW base \in Outputs, NEW w, Good(base, w), w.out.began
  PROVE  Carries(base, w, EnsureText(w)) /\ EnsureText(w).out.text # 0
<1>1. PICK u, v : u = StopReasoning(w) /\ v = EnsureText(w)
  OBVIOUS
<1>2. Carries(base, w, u) /\ Good(base, u) /\ u.out.began
  BY <1>1, StopReasoningGood DEF Carries
<1>0. u \in Writes /\ u.out \in Outputs
  BY <1>2, WriteTyped DEF Good
<1>3. CASE u.out.text # 0
  <2>1. v = u
    BY <1>1, <1>3 DEF EnsureText
  <2> QED
    BY <1>1, <1>2, <1>3, <2>1
<1>4. CASE u.out.text = 0
  <2>1. PICK c, ev : c = NextBlock(u) /\ ev = Event("open", c, "text", <<>>)
    OBVIOUS
  <2>2. v = [Write(u, ev) EXCEPT !.out.text = c]
    BY <1>1, <1>4, <2>1 DEF EnsureText
  <2>3. v = Made(u.out.began, Recorded(u.out.blocks, ev), c, u.out.reasoning, u.out.tools,
                 Append(u.events, ev))
    <3>1. u = Made(u.out.began, u.out.blocks, u.out.text, u.out.reasoning, u.out.tools, u.events)
      BY <1>0, MadeOfParts
    <3>2. PICK x : x = Write(u, ev)
      OBVIOUS
    <3>3. x = Made(u.out.began, Recorded(u.out.blocks, ev), u.out.text, u.out.reasoning, u.out.tools,
                   Append(u.events, ev))
      BY ONLY <3>1, <3>2, MadeChanged
    <3>4. [x EXCEPT !.out.text = c] =
            Made(u.out.began, Recorded(u.out.blocks, ev), c, u.out.reasoning, u.out.tools,
                 Append(u.events, ev))
      BY ONLY <3>3, MadeChanged
    <3> QED
      BY <2>2, <3>2, <3>4
  <2>4. /\ v.out.began = u.out.began /\ v.out.tools = u.out.tools
        /\ v.out.text = c /\ v.out.reasoning = u.out.reasoning
    BY ONLY <2>3 DEF Made
  <2>5. /\ "text" \in Kinds /\ Cursor(u.out, "text") = 0 /\ c \in Nat /\ c # 0
        /\ u.out.reasoning \in Nat /\ Cursor(v.out, "text") = c
        /\ \A k \in Kinds : k # "text" => Cursor(v.out, k) = Cursor(u.out, k)
    BY <1>0, <1>4, <2>1, <2>4, WriteTyped DEF Cursor, Kinds, NextBlock
  <2>6. base \in Outputs /\ Good(base, u) /\ Begun(u)
    BY <1>2 DEF Begun
  <2>7. Good(base, v) /\ SaidSame(u.out, v.out)
    BY ONLY <2>1, <2>3, <2>5, <2>6, ContentBegun
  <2>8. Carries(base, u, v)
    BY <2>4, <2>7 DEF Carries
  <2>9. Carries(base, w, v)
    BY <1>2, <2>8, CarriesOn
  <2> QED
    BY <1>1, <2>4, <2>5, <2>9
<1> QED
  BY <1>3, <1>4

(* ensure_thinking_block.                                                  *)
LEMMA EnsureReasoningGood ==
  ASSUME NEW base \in Outputs, NEW w, Good(base, w), w.out.began
  PROVE  Carries(base, w, EnsureReasoning(w)) /\ EnsureReasoning(w).out.reasoning # 0
<1>1. PICK u, v : u = StopText(w) /\ v = EnsureReasoning(w)
  OBVIOUS
<1>2. Carries(base, w, u) /\ Good(base, u) /\ u.out.began
  BY <1>1, StopTextGood DEF Carries
<1>0. u \in Writes /\ u.out \in Outputs
  BY <1>2, WriteTyped DEF Good
<1>3. CASE u.out.reasoning # 0
  <2>1. v = u
    BY <1>1, <1>3 DEF EnsureReasoning
  <2> QED
    BY <1>1, <1>2, <1>3, <2>1
<1>4. CASE u.out.reasoning = 0
  <2>1. PICK c, ev : c = NextBlock(u) /\ ev = Event("open", c, "reasoning", <<>>)
    OBVIOUS
  <2>2. v = [Write(u, ev) EXCEPT !.out.reasoning = c]
    BY <1>1, <1>4, <2>1 DEF EnsureReasoning
  <2>3. v = Made(u.out.began, Recorded(u.out.blocks, ev), u.out.text, c, u.out.tools,
                 Append(u.events, ev))
    <3>1. u = Made(u.out.began, u.out.blocks, u.out.text, u.out.reasoning, u.out.tools, u.events)
      BY <1>0, MadeOfParts
    <3>2. PICK x : x = Write(u, ev)
      OBVIOUS
    <3>3. x = Made(u.out.began, Recorded(u.out.blocks, ev), u.out.text, u.out.reasoning, u.out.tools,
                   Append(u.events, ev))
      BY ONLY <3>1, <3>2, MadeChanged
    <3>4. [x EXCEPT !.out.reasoning = c] =
            Made(u.out.began, Recorded(u.out.blocks, ev), u.out.text, c, u.out.tools,
                 Append(u.events, ev))
      BY ONLY <3>3, MadeChanged
    <3> QED
      BY <2>2, <3>2, <3>4
  <2>4. /\ v.out.began = u.out.began /\ v.out.tools = u.out.tools
        /\ v.out.text = u.out.text /\ v.out.reasoning = c
    BY ONLY <2>3 DEF Made
  <2>5. /\ "reasoning" \in Kinds /\ Cursor(u.out, "reasoning") = 0 /\ c \in Nat /\ c # 0
        /\ u.out.text \in Nat /\ Cursor(v.out, "reasoning") = c
        /\ \A k \in Kinds : k # "reasoning" => Cursor(v.out, k) = Cursor(u.out, k)
    BY <1>0, <1>4, <2>1, <2>4, WriteTyped DEF Cursor, Kinds, NextBlock
  <2>6. base \in Outputs /\ Good(base, u) /\ Begun(u)
    BY <1>2 DEF Begun
  <2>7. Good(base, v) /\ SaidSame(u.out, v.out)
    BY ONLY <2>1, <2>3, <2>5, <2>6, ContentBegun
  <2>8. Carries(base, u, v)
    BY <2>4, <2>7 DEF Carries
  <2>9. Carries(base, w, v)
    BY <1>2, <2>8, CarriesOn
  <2> QED
    BY <1>1, <2>4, <2>5, <2>9
<1> QED
  BY <1>3, <1>4

(* A piece of text, or of reasoning, in its block.                         *)
LEMMA SayGood ==
  ASSUME NEW base \in Outputs, NEW w, Good(base, w), NEW kind \in Kinds, NEW data \in Seq(Nat),
         Cursor(w.out, kind) # 0
  PROVE  /\ Good(base, Say(w, kind, data))
         /\ Spoken(Say(w, kind, data).out.blocks, kind) = Spoken(w.out.blocks, kind) \o data
         /\ \A k \in Kinds : k # kind => Spoken(Say(w, kind, data).out.blocks, k) = Spoken(w.out.blocks, k)
         /\ Say(w, kind, data).out.began = w.out.began /\ Say(w, kind, data).out.tools = w.out.tools
<1>1. PICK c, v : c = Cursor(w.out, kind) /\ v = Say(w, kind, data)
  OBVIOUS
<1>2. v = Write(w, Event("delta", c, kind, data)) /\ c # 0
  BY <1>1 DEF Say, Cursor
<1>3. /\ Good(base, v)
      /\ Spoken(v.out.blocks, kind) = Spoken(w.out.blocks, kind) \o data
      /\ \A k \in Kinds : k # kind => Spoken(v.out.blocks, k) = Spoken(w.out.blocks, k)
      /\ v.out.began = w.out.began /\ v.out.tools = w.out.tools
  BY <1>1, <1>2, ContentSaid
<1> QED
  BY <1>1, <1>3

-----------------------------------------------------------------------------
(* The operations of a call.                                               *)

(* The calls, and what is written, with t as it is now.                     *)
Tooled(tools, t, tool) == [tools EXCEPT ![t] = tool]
WithTool(w, t, tool) == [w EXCEPT !.out.tools[t] = tool]

(* The state of one call is changed.                                       *)
LEMMA MadeTool ==
  ASSUME NEW began, NEW blocks, NEW text, NEW reasoning, NEW tools, NEW events, NEW t, NEW tool,
         NEW w, w = Made(began, blocks, text, reasoning, tools, events)
  PROVE  WithTool(w, t, tool) = Made(began, blocks, text, reasoning, Tooled(tools, t, tool), events)
  BY DEF Made, Tooled, WithTool

(* The parts of a call's state have their types.                           *)
LEMMA ToolsTyped ==
  ASSUME NEW w \in Writes, NEW t \in Tools
  PROVE  /\ w.out.tools[t] \in ToolStates
         /\ w.out.tools[t].known \in BOOLEAN /\ w.out.tools[t].named \in BOOLEAN
         /\ w.out.tools[t].started \in BOOLEAN /\ w.out.tools[t].open \in BOOLEAN
         /\ w.out.tools[t].block \in Nat /\ w.out.tools[t].args \in Seq(Nat)
         /\ w.out.tools[t].held \in Seq(Nat) /\ w.out.tools[t].early \in Seq(Nat)
<1>1. w.out.tools[t] \in ToolStates
  BY WriteTyped
<1> QED
  BY <1>1 DEF ToolStates

(* The tools but for one.                                                  *)
LEMMA ToolsExcept ==
  ASSUME NEW tools \in [Tools -> ToolStates], NEW t \in Tools, NEW tool \in ToolStates
  PROVE  /\ Tooled(tools, t, tool) \in [Tools -> ToolStates] /\ Tooled(tools, t, tool)[t] = tool
         /\ \A u \in Tools : u # t => Tooled(tools, t, tool)[u] = tools[u]
         /\ SameElse(tools, t, Tooled(tools, t, tool))
  BY DEF Tooled, SameElse, SameTool

(* The states of the calls with one of them changed.                       *)
LEMMA ToolsOfWrite ==
  ASSUME NEW w \in Writes, NEW t \in Tools, NEW tool \in ToolStates, NEW tools,
         tools = Tooled(w.out.tools, t, tool)
  PROVE  /\ tools \in [Tools -> ToolStates] /\ tools[t] = tool
         /\ \A u \in Tools : u # t => tools[u] = w.out.tools[u]
         /\ SameElse(w.out.tools, t, tools)
<1>1. PICK ts : ts = w.out.tools
  OBVIOUS
<1>2. /\ ts \in [Tools -> ToolStates] /\ t \in Tools /\ tool \in ToolStates
      /\ tools = Tooled(ts, t, tool)
  BY <1>1, WriteTyped
<1>3. /\ tools \in [Tools -> ToolStates] /\ tools[t] = tool
      /\ \A u \in Tools : u # t => tools[u] = ts[u]
      /\ SameElse(ts, t, tools)
  BY ONLY <1>2, ToolsExcept
<1> QED
  BY <1>1, <1>3

(* From w to v only the call t is changed, and nothing is said.             *)
Touches(base, w, v, t) ==
  /\ Good(base, v) /\ SaidSame(w.out, v.out)
  /\ v.out.began = w.out.began
  /\ v.out.text = w.out.text /\ v.out.reasoning = w.out.reasoning
  /\ \A u \in Tools : u # t => v.out.tools[u] = w.out.tools[u]

(* Doing nothing touches no call.                                          *)
LEMMA TouchesItself ==
  ASSUME NEW base, NEW w, Good(base, w), NEW t
  PROVE  Touches(base, w, w, t)
  BY DEF Touches, SaidSame

(* Two operations on one call, one after the other.                        *)
LEMMA TouchesOn ==
  ASSUME NEW base, NEW u, NEW v, NEW w, NEW t, Touches(base, u, v, t), Touches(base, v, w, t)
  PROVE  Touches(base, u, w, t)
  BY DEF Touches, SaidSame

(* What becomes of a call that is opened, given arguments, closed.          *)
Starts(x, y) ==
  /\ y.known /\ y.named /\ y.started /\ y.open
  /\ y.args = <<>> /\ y.held = x.held /\ y.early = x.early

Adds(x, y, data) ==
  /\ y.known = x.known /\ y.named = x.named /\ y.started /\ y.open
  /\ y.args = x.args \o data /\ y.held = x.held /\ y.early = x.early

Shuts(x, y) ==
  /\ y.known = x.known /\ y.named = x.named /\ y.started = x.started /\ ~y.open
  /\ y.args = x.args /\ y.held = x.held /\ y.early = x.early

(* A call that has not started, and one that is open.                      *)
Idle(w, t) == ~w.out.tools[t].started /\ w.out.tools[t].args = <<>>

(* start_tool_block                                                        *)
LEMMA StartToolGood ==
  ASSUME NEW base \in Outputs, NEW w, Good(base, w), Begun(w), NEW t \in Tools, Idle(w, t)
  PROVE  /\ Touches(base, w, StartTool(w, t), t)
         /\ Starts(w.out.tools[t], StartTool(w, t).out.tools[t])
<1>0. /\ w \in Writes /\ w.out \in Outputs /\ w.out.tools[t] \in ToolStates
      /\ w.out.tools \in [Tools -> ToolStates] /\ ~w.out.tools[t].started
      /\ w.out.tools[t].args = <<>>
  BY WriteTyped, ToolsTyped DEF Good, Idle
<1>1. PICK c, ev : c = NextBlock(w) /\ ev = Event("open", c, "tool", <<>>)
  OBVIOUS
<1>2. c \in Nat
  BY <1>0, <1>1, WriteTyped DEF NextBlock
<1>3. PICK v : v = StartTool(w, t)
  OBVIOUS
<1>4. PICK tool : tool = [w.out.tools[t] EXCEPT !.known = TRUE, !.named = TRUE, !.started = TRUE,
                                                !.open = TRUE, !.block = c]
  OBVIOUS
<1>5. /\ tool \in ToolStates /\ tool.known = TRUE /\ tool.named = TRUE /\ tool.started = TRUE
      /\ tool.open = TRUE /\ tool.block = c /\ tool.args = w.out.tools[t].args
      /\ tool.held = w.out.tools[t].held /\ tool.early = w.out.tools[t].early
  BY <1>0, <1>2, <1>4 DEF ToolStates
<1>6. PICK tools : tools = Tooled(w.out.tools, t, tool)
  OBVIOUS
<1>7. /\ tools \in [Tools -> ToolStates] /\ tools[t] = tool
      /\ \A u \in Tools : u # t => tools[u] = w.out.tools[u]
      /\ SameElse(w.out.tools, t, tools)
  BY <1>0, <1>5, <1>6, ToolsOfWrite
<1>8. v = Made(w.out.began, Recorded(w.out.blocks, ev), w.out.text, w.out.reasoning, tools,
               Append(w.events, ev))
  <2>1. w = Made(w.out.began, w.out.blocks, w.out.text, w.out.reasoning, w.out.tools, w.events)
    BY <1>0, MadeOfParts
  <2>2. PICK x : x = Write(w, ev)
    OBVIOUS
  <2>3. x = Made(w.out.began, Recorded(w.out.blocks, ev), w.out.text, w.out.reasoning, w.out.tools,
                 Append(w.events, ev))
    BY ONLY <2>1, <2>2, MadeChanged
  <2>4. x.out.tools = w.out.tools
    BY ONLY <2>3 DEF Made
  <2>5. v = WithTool(x, t, tool)
    BY <1>1, <1>3, <1>4, <2>2, <2>4 DEF StartTool, WithTool
  <2> QED
    BY ONLY <1>6, <2>3, <2>5, MadeTool
<1>9. /\ base \in Outputs /\ Good(base, w) /\ Begun(w) /\ t \in Tools
      /\ OpenWith(tools[t], c, <<>>)
  BY <1>0, <1>5, <1>7 DEF OpenWith, ShutWith
<1>10. /\ Good(base, v) /\ SaidSame(w.out, v.out)
       /\ v.out.began = w.out.began /\ v.out.tools = tools
       /\ v.out.text = w.out.text /\ v.out.reasoning = w.out.reasoning
  BY ONLY <1>0, <1>1, <1>2, <1>7, <1>8, <1>9, ToolOpened
<1> QED
  BY <1>0, <1>3, <1>5, <1>7, <1>10 DEF Touches, Starts, Adds, Shuts

IsWriting(w, t) == w.out.tools[t].open

(* emit_tool_delta                                                         *)
LEMMA ToolDeltaGood ==
  ASSUME NEW base \in Outputs, NEW w, Good(base, w), NEW t \in Tools, IsWriting(w, t),
         NEW data \in Seq(Nat)
  PROVE  /\ Touches(base, w, ToolDelta(w, t, data), t)
         /\ Adds(w.out.tools[t], ToolDelta(w, t, data).out.tools[t], data)
<1>0. /\ w \in Writes /\ w.out \in Outputs /\ w.out.tools[t] \in ToolStates
      /\ w.out.tools \in [Tools -> ToolStates] /\ w.out.tools[t].started = TRUE
      /\ w.out.tools[t].open = TRUE /\ w.out.tools[t].args \in Seq(Nat)
      /\ w.out.tools[t].block \in Nat
  <2>1. w \in Writes /\ ToolsWrite(w.out) /\ w.out.tools[t].open
    BY DEF Good, OutOK, IsWriting
  <2>2. w.out.tools[t].started
    BY <2>1 DEF ToolsWrite
  <2> QED
    BY <2>1, <2>2, WriteTyped, ToolsTyped
<1>1. PICK c, ev : c = w.out.tools[t].block /\ ev = Event("delta", c, "tool", data)
  OBVIOUS
<1>2. c \in Nat
  BY <1>0, <1>1
<1>3. PICK v : v = ToolDelta(w, t, data)
  OBVIOUS
<1>4. PICK args, tool : args = w.out.tools[t].args \o data /\ tool = [w.out.tools[t] EXCEPT !.args = args]
  OBVIOUS
<1>5. /\ tool \in ToolStates /\ tool.known = w.out.tools[t].known /\ tool.named = w.out.tools[t].named
      /\ tool.started = TRUE /\ tool.open = TRUE /\ tool.block = c
      /\ tool.args = w.out.tools[t].args \o data
      /\ tool.held = w.out.tools[t].held /\ tool.early = w.out.tools[t].early
  <2>1. args \in Seq(Nat)
    BY <1>0, <1>4, ConcatProperties
  <2> QED
    BY <1>0, <1>1, <1>4, <2>1 DEF ToolStates
<1>6. PICK tools : tools = Tooled(w.out.tools, t, tool)
  OBVIOUS
<1>7. /\ tools \in [Tools -> ToolStates] /\ tools[t] = tool
      /\ \A u \in Tools : u # t => tools[u] = w.out.tools[u]
      /\ SameElse(w.out.tools, t, tools)
  BY <1>0, <1>5, <1>6, ToolsOfWrite
<1>8. v = Made(w.out.began, Recorded(w.out.blocks, ev), w.out.text, w.out.reasoning, tools,
               Append(w.events, ev))
  <2>1. w = Made(w.out.began, w.out.blocks, w.out.text, w.out.reasoning, w.out.tools, w.events)
    BY <1>0, MadeOfParts
  <2>2. PICK x : x = Write(w, ev)
    OBVIOUS
  <2>3. x = Made(w.out.began, Recorded(w.out.blocks, ev), w.out.text, w.out.reasoning, w.out.tools,
                 Append(w.events, ev))
    BY ONLY <2>1, <2>2, MadeChanged
  <2>4. x.out.tools = w.out.tools
    BY ONLY <2>3 DEF Made
  <2>5. v = [x EXCEPT !.out.tools[t].args = args]
    BY <1>1, <1>3, <1>4, <2>2, <2>4 DEF ToolDelta
  <2>6. [x EXCEPT !.out.tools[t].args = args] = WithTool(x, t, tool)
    BY <1>4, <2>4 DEF WithTool
  <2>7. v = WithTool(x, t, tool)
    BY <2>5, <2>6
  <2> QED
    BY ONLY <1>6, <2>3, <2>7, MadeTool
<1>9. /\ base \in Outputs /\ Good(base, w) /\ t \in Tools /\ w.out.tools[t].open /\ data \in Seq(Nat)
      /\ tools[t].started /\ tools[t].open /\ tools[t].block = c
      /\ tools[t].args = w.out.tools[t].args \o data
  BY <1>0, <1>5, <1>7
<1>10. /\ Good(base, v) /\ SaidSame(w.out, v.out)
       /\ v.out.began = w.out.began /\ v.out.tools = tools
       /\ v.out.text = w.out.text /\ v.out.reasoning = w.out.reasoning
  <2>1. /\ base \in Outputs /\ Good(base, w) /\ t \in Tools /\ data \in Seq(Nat)
        /\ c \in Nat /\ ev = Event("delta", c, "tool", data)
    BY <1>1, <1>2, <1>9
  <2>2. OpenAt(w.out.tools[t], c)
    BY <1>1, <1>9 DEF OpenAt
  <2>3. /\ tools \in [Tools -> ToolStates] /\ SameElse(w.out.tools, t, tools)
        /\ OpenWith(tools[t], c, w.out.tools[t].args \o data)
    BY <1>5, <1>7 DEF OpenWith, ShutWith
  <2> QED
    BY ONLY <1>8, <2>1, <2>2, <2>3, ToolSaid
<1> QED
  BY <1>0, <1>3, <1>5, <1>7, <1>10 DEF Touches, Starts, Adds, Shuts

(* stop_tool_block                                                         *)
LEMMA StopToolGood ==
  ASSUME NEW base \in Outputs, NEW w, Good(base, w), NEW t \in Tools
  PROVE  /\ Touches(base, w, StopTool(w, t), t)
         /\ Shuts(w.out.tools[t], StopTool(w, t).out.tools[t])
<1>0. /\ w \in Writes /\ w.out \in Outputs /\ w.out.tools[t] \in ToolStates
      /\ w.out.tools \in [Tools -> ToolStates] /\ w.out.tools[t].started \in BOOLEAN
      /\ w.out.tools[t].open \in BOOLEAN /\ w.out.tools[t].block \in Nat
      /\ w.out.tools[t].open => w.out.tools[t].started
  <2>1. w \in Writes /\ ToolsWrite(w.out)
    BY DEF Good, OutOK
  <2>2. w.out.tools[t].open => w.out.tools[t].started
    BY <2>1 DEF ToolsWrite
  <2> QED
    BY <2>1, <2>2, WriteTyped, ToolsTyped
<1>3. PICK v : v = StopTool(w, t)
  OBVIOUS
<1>a. CASE ~w.out.tools[t].open
  <2>1. v = w
    BY <1>3, <1>a DEF StopTool
  <2>2. Touches(base, w, v, t)
    BY <2>1, TouchesItself
  <2> QED
    BY <1>0, <1>3, <1>a, <2>1, <2>2 DEF Shuts
<1>b. CASE w.out.tools[t].open
  <2>1. PICK c, ev : c = w.out.tools[t].block /\ ev = Event("close", c, "tool", <<>>)
    OBVIOUS
  <2>2. c \in Nat
    BY <1>0, <2>1
  <2>4. PICK tool, no : no = FALSE /\ tool = [w.out.tools[t] EXCEPT !.open = no]
    OBVIOUS
  <2>5. /\ tool \in ToolStates /\ tool.known = w.out.tools[t].known /\ tool.named = w.out.tools[t].named
        /\ tool.started = w.out.tools[t].started /\ tool.open = FALSE /\ tool.block = c
        /\ tool.args = w.out.tools[t].args
        /\ tool.held = w.out.tools[t].held /\ tool.early = w.out.tools[t].early
    BY <1>0, <2>1, <2>4 DEF ToolStates
  <2>6. PICK tools : tools = Tooled(w.out.tools, t, tool)
    OBVIOUS
  <2>7. /\ tools \in [Tools -> ToolStates] /\ tools[t] = tool
        /\ \A u \in Tools : u # t => tools[u] = w.out.tools[u]
        /\ SameElse(w.out.tools, t, tools)
    BY <1>0, <2>5, <2>6, ToolsOfWrite
  <2>8. v = Made(w.out.began, Recorded(w.out.blocks, ev), w.out.text, w.out.reasoning, tools,
                 Append(w.events, ev))
    <3>1. w = Made(w.out.began, w.out.blocks, w.out.text, w.out.reasoning, w.out.tools, w.events)
      BY <1>0, MadeOfParts
    <3>2. PICK x : x = Write(w, ev)
      OBVIOUS
    <3>3. x = Made(w.out.began, Recorded(w.out.blocks, ev), w.out.text, w.out.reasoning, w.out.tools,
                   Append(w.events, ev))
      BY ONLY <3>1, <3>2, MadeChanged
    <3>4. x.out.tools = w.out.tools
      BY ONLY <3>3 DEF Made
    <3>5. v = [x EXCEPT !.out.tools[t].open = no]
      BY <1>3, <1>b, <2>1, <2>4, <3>2 DEF StopTool
    <3>6. [x EXCEPT !.out.tools[t].open = no] = WithTool(x, t, tool)
      BY <2>4, <3>4 DEF WithTool
    <3>7. v = WithTool(x, t, tool)
      BY <3>5, <3>6
    <3> QED
      BY ONLY <2>6, <3>3, <3>7, MadeTool
  <2>9. /\ base \in Outputs /\ Good(base, w) /\ t \in Tools /\ w.out.tools[t].open
        /\ tools[t].started /\ ~tools[t].open /\ tools[t].block = c
        /\ tools[t].args = w.out.tools[t].args
    BY <1>0, <1>b, <2>5, <2>7
  <2>10. /\ Good(base, v) /\ SaidSame(w.out, v.out)
         /\ v.out.began = w.out.began /\ v.out.tools = tools
         /\ v.out.text = w.out.text /\ v.out.reasoning = w.out.reasoning
    <3>1. /\ base \in Outputs /\ Good(base, w) /\ t \in Tools /\ c \in Nat
          /\ ev = Event("close", c, "tool", <<>>)
      BY <2>1, <2>2, <2>9
    <3>2. OpenAt(w.out.tools[t], c)
      BY <1>b, <2>1 DEF OpenAt
    <3>3. /\ tools \in [Tools -> ToolStates] /\ SameElse(w.out.tools, t, tools)
          /\ ShutWith(tools[t], c, w.out.tools[t].args)
      BY <1>0, <1>b, <2>5, <2>7 DEF OpenWith, ShutWith
    <3> QED
      BY ONLY <2>8, <3>1, <3>2, <3>3, ToolStopped
  <2> QED
    BY <1>0, <1>3, <2>5, <2>7, <2>10 DEF Touches, Starts, Adds, Shuts
<1> QED
  BY <1>a, <1>b

(* What is known, held back or early of a call may change at any time.      *)
LEMMA NoteGood ==
  ASSUME NEW base \in Outputs, NEW w, Good(base, w), NEW t \in Tools, NEW tool \in ToolStates,
         SameTool(w.out.tools[t], tool)
  PROVE  /\ Touches(base, w, WithTool(w, t, tool), t) /\ WithTool(w, t, tool).out.tools[t] = tool
         /\ WithTool(w, t, tool).out.blocks = w.out.blocks
<1>v. PICK v : v = WithTool(w, t, tool)
  OBVIOUS
<1>0. /\ w \in Writes /\ w.out.tools \in [Tools -> ToolStates]
  BY WriteTyped DEF Good
<1>1. PICK tools : tools = Tooled(w.out.tools, t, tool)
  OBVIOUS
<1>2. /\ tools \in [Tools -> ToolStates] /\ tools[t] = tool
      /\ \A u \in Tools : u # t => tools[u] = w.out.tools[u]
      /\ SameElse(w.out.tools, t, tools)
  BY <1>0, <1>1, ToolsOfWrite
<1>3. v = Made(w.out.began, w.out.blocks, w.out.text, w.out.reasoning, tools, w.events)
  <2>1. w = Made(w.out.began, w.out.blocks, w.out.text, w.out.reasoning, w.out.tools, w.events)
    BY <1>0, MadeOfParts
  <2> QED
    BY ONLY <1>1, <1>v, <2>1, MadeTool
<1>4. \A u \in Tools : SameTool(w.out.tools[u], tools[u])
  BY <1>2 DEF SameElse
<1>5. base \in Outputs /\ Good(base, w)
  OBVIOUS
<1>6. /\ Good(base, v) /\ SaidSame(w.out, v.out)
      /\ v.out.began = w.out.began /\ v.out.tools = tools
      /\ v.out.text = w.out.text /\ v.out.reasoning = w.out.reasoning
      /\ v.out.blocks = w.out.blocks
  BY ONLY <1>2, <1>3, <1>4, <1>5, ToolNoted
<1> QED
  BY <1>2, <1>6, <1>v DEF Touches

-----------------------------------------------------------------------------
(* The arguments of a call, piece by piece.                                *)

(* The first n pieces are a sequence of length n.                          *)
LEMMA CountedTyped ==
  ASSUME NEW n \in Nat
  PROVE  Counted(n) \in Seq(Nat) /\ Len(Counted(n)) = n
<1>1. Counted(n) \in [1..n -> Nat]
  BY DEF Counted
<1>2. Len(Counted(n)) = n
  BY <1>1
<1>3. Counted(n) \in Seq(Nat)
  BY <1>1, IsASeq
<1> QED
  BY <1>2, <1>3

(* How many pieces they are is known from them.                            *)
LEMMA CountedOnce ==
  ASSUME NEW n \in Nat, NEW m \in Nat, Counted(n) = Counted(m)
  PROVE  n = m
<1>1. Len(Counted(n)) = n /\ Len(Counted(m)) = m
  BY CountedTyped
<1> QED
  BY <1>1

(* A whole call's arguments are its first two pieces.                      *)
LEMMA CountedWhole == Counted(0) = <<>> /\ Counted(2) = Whole
<1>1. Counted(0) = <<>>
  BY DEF Counted
<1>2. Counted(2) = Whole
  BY DEF Counted, Whole
<1> QED
  BY <1>1, <1>2

(* With data, n pieces become m.                                           *)
Fit(n, data, m) ==
  /\ n \in 0..2 /\ m \in 0..2 /\ data \in Seq(Nat)
  /\ Counted(n) \o data = Counted(m)

(* What follows of pieces that go on where n pieces stopped.               *)
LEMMA FitFacts ==
  ASSUME NEW n, NEW data, NEW m, Fit(n, data, m)
  PROVE  /\ n \in 0..2 /\ m \in 0..2 /\ data \in Seq(Nat)
         /\ Counted(n) \in Seq(Nat) /\ Counted(m) \in Seq(Nat)
         /\ Counted(n) \o data = Counted(m)
         /\ data = <<>> => m = n
         /\ data # <<>> => m > n
<1>1. n \in 0..2 /\ m \in 0..2 /\ data \in Seq(Nat) /\ Counted(n) \o data = Counted(m)
  BY DEF Fit
<1>2. /\ Counted(n) \in Seq(Nat) /\ Len(Counted(n)) = n
      /\ Counted(m) \in Seq(Nat) /\ Len(Counted(m)) = m
  BY <1>1, CountedTyped
<1>3. Len(data) \in Nat /\ m = n + Len(data)
  BY <1>1, <1>2, ConcatProperties, LenProperties
<1>4. data # <<>> => Len(data) # 0
  BY <1>1, EmptySeq
<1>5. data = <<>> => Len(data) = 0
  OBVIOUS
<1> QED
  BY <1>1, <1>2, <1>3, <1>4, <1>5

(* No piece goes on from n to n.                                           *)
LEMMA FitNothing ==
  ASSUME NEW n \in 0..2
  PROVE  Fit(n, <<>>, n)
<1>1. Counted(n) \in Seq(Nat)
  BY CountedTyped
<1>2. Counted(n) \o <<>> = Counted(n)
  BY <1>1, ConcatEmptySeq
<1> QED
  BY <1>2 DEF Fit

(* The first n pieces go on from none.                                     *)
LEMMA FitAll ==
  ASSUME NEW n \in 0..2
  PROVE  Fit(0, Counted(n), n)
<1>1. Counted(n) \in Seq(Nat) /\ Counted(0) = <<>>
  BY CountedTyped, CountedWhole
<1>2. <<>> \o Counted(n) = Counted(n)
  BY <1>1, ConcatEmptySeq
<1> QED
  BY <1>1, <1>2 DEF Fit

(* The next piece makes n pieces n + 1.                                    *)
LEMMA CountedMore ==
  ASSUME NEW n \in Nat
  PROVE  Counted(n) \o <<n + 1>> = Counted(n + 1)
<1>1. Counted(n) \in Seq(Nat) /\ Len(Counted(n)) = n
  BY CountedTyped
<1>2. Counted(n) \o <<n + 1>> = Append(Counted(n), n + 1)
  BY <1>1, AppendIsConcat
<1>3. Append(Counted(n), n + 1) = Counted(n + 1)
  <2>1. PICK s : s = Counted(n)
    OBVIOUS
  <2>2. s = [i \in 1..n |-> i]
    BY <2>1 DEF Counted
  <2>3. Append(s, n + 1) = [i \in 1..(n + 1) |-> i]
    BY <1>1, <2>1, <2>2
  <2> QED
    BY <2>1, <2>3 DEF Counted
<1> QED
  BY <1>2, <1>3

(* The next piece goes on from n to n + 1.                                 *)
LEMMA FitOne ==
  ASSUME NEW n \in 0..1
  PROVE  Fit(n, <<n + 1>>, n + 1)
<1>1. Counted(n) \o <<n + 1>> = Counted(n + 1)
  BY CountedMore
<1>2. <<n + 1>> \in Seq(Nat)
  OBVIOUS
<1> QED
  BY <1>1, <1>2 DEF Fit

(* A call that has not been named, with n pieces come early.               *)
Unnamed(x, n) ==
  /\ ~x.named /\ ~x.started /\ ~x.open
  /\ x.args = <<>> /\ x.held = <<>> /\ x.early = Counted(n)
  /\ n # 0 => x.known

(* One that has, with n pieces, held back until they are whole or not.      *)
HoldsBack(t, n) == t \in Held /\ n # 2

(* A call that has its name, with n pieces written or held back.           *)
Named(t, x, n) ==
  /\ x.known /\ x.named /\ x.started /\ x.open /\ x.early = <<>>
  /\ HoldsBack(t, n) => x.args = <<>> /\ x.held = Counted(n)
  /\ ~HoldsBack(t, n) => x.args = Counted(n) /\ x.held = <<>>

(* Two parts of a call's state, changed.                                   *)
WithHeld(w, t, held1) == [w EXCEPT !.out.tools[t].held = held1]
WithEarly(w, t, early1) == [w EXCEPT !.out.tools[t].early = early1]

(* What it is still open for changes what it holds back: flush, and          *)
(* _emit_tool_arg_delta for a call that has its name.                       *)
LEMMA HeldGood ==
  ASSUME NEW base \in Outputs, NEW w, Good(base, w), NEW t \in Tools, NEW held1 \in Seq(Nat), NEW v,
         v = WithHeld(w, t, held1)
  PROVE  /\ Touches(base, w, v, t) /\ v.out.tools[t].held = held1
         /\ v.out.tools[t].known = w.out.tools[t].known /\ v.out.tools[t].named = w.out.tools[t].named
         /\ v.out.tools[t].started = w.out.tools[t].started /\ v.out.tools[t].open = w.out.tools[t].open
         /\ v.out.tools[t].args = w.out.tools[t].args /\ v.out.tools[t].early = w.out.tools[t].early
<1>1. PICK tool : tool = [w.out.tools[t] EXCEPT !.held = held1]
  OBVIOUS
<1>2. w \in Writes /\ w.out.tools[t] \in ToolStates
  BY ToolsTyped DEF Good
<1>3. /\ tool \in ToolStates /\ tool.held = held1
      /\ tool.known = w.out.tools[t].known /\ tool.named = w.out.tools[t].named
      /\ tool.started = w.out.tools[t].started /\ tool.open = w.out.tools[t].open
      /\ tool.block = w.out.tools[t].block
      /\ tool.args = w.out.tools[t].args /\ tool.early = w.out.tools[t].early
  BY <1>1, <1>2 DEF ToolStates
<1>4. v = WithTool(w, t, tool)
  BY <1>1 DEF WithTool, WithHeld, WithEarly
<1>5. SameTool(w.out.tools[t], tool)
  BY <1>3 DEF SameTool
<1>6. Touches(base, w, v, t) /\ v.out.tools[t] = tool
  BY <1>3, <1>4, <1>5, NoteGood
<1> QED
  BY <1>3, <1>6

(* What came before the call's name is kept with the call.                 *)
LEMMA EarlyGood ==
  ASSUME NEW base \in Outputs, NEW w, Good(base, w), NEW t \in Tools, NEW early1 \in Seq(Nat), NEW v,
         v = WithEarly(w, t, early1)
  PROVE  /\ Touches(base, w, v, t) /\ v.out.tools[t].early = early1
         /\ v.out.tools[t].known = w.out.tools[t].known /\ v.out.tools[t].named = w.out.tools[t].named
         /\ v.out.tools[t].started = w.out.tools[t].started /\ v.out.tools[t].open = w.out.tools[t].open
         /\ v.out.tools[t].args = w.out.tools[t].args /\ v.out.tools[t].held = w.out.tools[t].held
<1>1. PICK tool : tool = [w.out.tools[t] EXCEPT !.early = early1]
  OBVIOUS
<1>2. w \in Writes /\ w.out.tools[t] \in ToolStates
  BY ToolsTyped DEF Good
<1>3. /\ tool \in ToolStates /\ tool.early = early1
      /\ tool.known = w.out.tools[t].known /\ tool.named = w.out.tools[t].named
      /\ tool.started = w.out.tools[t].started /\ tool.open = w.out.tools[t].open
      /\ tool.block = w.out.tools[t].block
      /\ tool.args = w.out.tools[t].args /\ tool.held = w.out.tools[t].held
  BY <1>1, <1>2 DEF ToolStates
<1>4. v = WithTool(w, t, tool)
  BY <1>1 DEF WithTool, WithHeld, WithEarly
<1>5. SameTool(w.out.tools[t], tool)
  BY <1>3 DEF SameTool
<1>6. Touches(base, w, v, t) /\ v.out.tools[t] = tool
  BY <1>3, <1>4, <1>5, NoteGood
<1> QED
  BY <1>3, <1>6

(* _emit_tool_arg_delta for a call that has its name: pieces that go on    *)
(* where those before stopped are written, or held back.                   *)
LEMMA ToolArgsGood ==
  ASSUME NEW base \in Outputs, NEW w, Good(base, w), NEW t \in Tools, NEW n, NEW data, NEW m,
         Named(t, w.out.tools[t], n), Fit(n, data, m)
  PROVE  Touches(base, w, ToolArgs(w, t, data), t) /\ Named(t, ToolArgs(w, t, data).out.tools[t], m)
<1>1. PICK v, x : v = ToolArgs(w, t, data) /\ x = w.out.tools[t]
  OBVIOUS
<1>2. /\ n \in 0..2 /\ m \in 0..2 /\ data \in Seq(Nat) /\ Counted(n) \in Seq(Nat)
      /\ Counted(m) \in Seq(Nat) /\ Counted(n) \o data = Counted(m)
      /\ data = <<>> => m = n
      /\ data # <<>> => m > n
  BY FitFacts
<1>3. IsWriting(w, t) /\ x.known /\ x.named /\ x.started /\ x.open /\ x.early = <<>>
  BY <1>1 DEF Named, IsWriting
<1>4. CASE data = <<>>
  <2>1. v = w /\ m = n
    BY <1>1, <1>2, <1>4 DEF ToolArgs
  <2> QED
    BY <1>1, <2>1, TouchesItself
<1>5. CASE data # <<>> /\ t \notin Held
  <2>1. x.args = Counted(n) /\ x.held = <<>>
    BY <1>1, <1>5 DEF Named, HoldsBack
  <2>2. v = ToolDelta(w, t, data)
    BY <1>1, <1>5 DEF ToolArgs
  <2>3. Touches(base, w, v, t) /\ Adds(x, v.out.tools[t], data)
    BY <1>1, <1>2, <1>3, <2>2, ToolDeltaGood
  <2>4. Named(t, v.out.tools[t], m)
    BY <1>2, <1>3, <1>5, <2>1, <2>3 DEF Adds, Named, HoldsBack
  <2> QED
    BY <1>1, <2>3, <2>4
<1>6. CASE data # <<>> /\ t \in Held
  <2>1. HoldsBack(t, n) /\ x.args = <<>> /\ x.held = Counted(n)
    <3>1. n # 2
      BY <1>2, <1>6
    <3> QED
      BY <1>1, <1>6, <3>1 DEF Named, HoldsBack
  <2>2. PICK all : all = x.held \o data
    OBVIOUS
  <2>3. all = Counted(m) /\ all \in Seq(Nat) /\ (all = Whole <=> m = 2)
    <3>1. all = Counted(m)
      BY <1>2, <2>1, <2>2
    <3>2. Counted(m) = Whole => m = 2
      BY <1>2, CountedWhole, CountedOnce
    <3> QED
      BY <1>2, <3>1, <3>2, CountedWhole
  <2>4. CASE all = Whole
    <3>1. PICK u, none : u = ToolDelta(w, t, all) /\ none = <<>>
      OBVIOUS
    <3>2. v = WithHeld(u, t, none)
      BY <1>1, <1>6, <2>2, <2>4, <3>1 DEF ToolArgs, WithHeld
    <3>3. Touches(base, w, u, t) /\ Adds(x, u.out.tools[t], all)
      BY <1>1, <1>3, <2>3, <3>1, ToolDeltaGood
    <3>4. Good(base, u) /\ none \in Seq(Nat)
      BY <3>1, <3>3, EmptySeq DEF Touches
    <3>5. /\ Touches(base, u, v, t) /\ v.out.tools[t].held = none
          /\ v.out.tools[t].known = u.out.tools[t].known /\ v.out.tools[t].named = u.out.tools[t].named
          /\ v.out.tools[t].started = u.out.tools[t].started /\ v.out.tools[t].open = u.out.tools[t].open
          /\ v.out.tools[t].args = u.out.tools[t].args /\ v.out.tools[t].early = u.out.tools[t].early
      BY <3>2, <3>4, HeldGood
    <3>6. Touches(base, w, v, t)
      BY <3>3, <3>5, TouchesOn
    <3>7. u.out.tools[t].args = Counted(m)
      <4>1. <<>> \o all = all
        BY <2>3, ConcatEmptySeq
      <4> QED
        BY <2>1, <2>3, <3>3, <4>1 DEF Adds
    <3>8. Named(t, v.out.tools[t], m)
      BY <3>1, <1>3, <2>3, <2>4, <3>3, <3>5, <3>7 DEF Adds, Named, HoldsBack
    <3> QED
      BY <1>1, <3>6, <3>8
  <2>5. CASE all # Whole
    <3>1. v = WithHeld(w, t, all)
      BY <1>1, <1>6, <2>2, <2>5 DEF ToolArgs, WithHeld
    <3>2. /\ Touches(base, w, v, t) /\ v.out.tools[t].held = all
          /\ v.out.tools[t].known = x.known /\ v.out.tools[t].named = x.named
          /\ v.out.tools[t].started = x.started /\ v.out.tools[t].open = x.open
          /\ v.out.tools[t].args = x.args /\ v.out.tools[t].early = x.early
      BY <1>1, <2>3, <3>1, HeldGood
    <3>3. Named(t, v.out.tools[t], m)
      BY <1>3, <1>6, <2>1, <2>3, <2>5, <3>2 DEF Named, HoldsBack
    <3> QED
      BY <1>1, <3>2, <3>3
  <2> QED
    BY <2>4, <2>5
<1> QED
  BY <1>4, <1>5, <1>6

-----------------------------------------------------------------------------
(* The calls of the upstream.                                              *)

(* An operation on one call leaves the answer in order and begun.          *)
LEMMA TouchesGood ==
  ASSUME NEW base, NEW w, NEW v, NEW t, Touches(base, w, v, t)
  PROVE  Good(base, v) /\ (Begun(w) => Begun(v))
  BY DEF Touches, Begun

(* process_tool_call, with the name of the call or without                 *)
LEMMA NativeCallGood ==
  ASSUME NEW base \in Outputs, NEW w, Good(base, w), Begun(w), NEW t \in Tools,
         NEW name \in BOOLEAN, NEW n, NEW data, NEW m, Fit(n, data, m),
         Named(t, w.out.tools[t], n) \/ Unnamed(w.out.tools[t], n)
  PROVE  /\ Touches(base, w, NativeCall(w, t, name, data), t)
         /\ Named(t, w.out.tools[t], n) \/ name =>
              Named(t, NativeCall(w, t, name, data).out.tools[t], m)
         /\ Unnamed(w.out.tools[t], n) /\ ~name =>
              Unnamed(NativeCall(w, t, name, data).out.tools[t], m)
<1>1. PICK v, x : v = NativeCall(w, t, name, data) /\ x = w.out.tools[t]
  OBVIOUS
<1>2. w \in Writes /\ x \in ToolStates
  BY <1>1, ToolsTyped DEF Good
<1>3. PICK y : y = [w.out.tools[t] EXCEPT !.known = TRUE, !.named = w.out.tools[t].named \/ name]
  OBVIOUS
<1>4. /\ y \in ToolStates /\ y.known /\ y.named = (x.named \/ name) /\ y.started = x.started
      /\ y.open = x.open /\ y.block = x.block /\ y.args = x.args /\ y.held = x.held
      /\ y.early = x.early
  BY <1>1, <1>2, <1>3 DEF ToolStates
<1>5. PICK k : k = WithTool(w, t, y)
  OBVIOUS
<1>a. k = Noted(w, t, name)
  BY <1>3, <1>5 DEF Noted, WithTool
<1>6. Touches(base, w, k, t) /\ k.out.tools[t] = y
  <2>1. SameTool(w.out.tools[t], y)
    BY <1>1, <1>4 DEF SameTool
  <2> QED
    BY <1>4, <1>5, <2>1, NoteGood
<1>7. Good(base, k) /\ Begun(k)
  BY <1>6, TouchesGood
<1>8. /\ n \in 0..2 /\ m \in 0..2 /\ data \in Seq(Nat) /\ Counted(n) \in Seq(Nat)
      /\ Counted(m) \in Seq(Nat) /\ Counted(n) \o data = Counted(m)
      /\ data = <<>> => m = n
      /\ data # <<>> => m > n
  BY FitFacts
<1>9. CASE Named(t, x, n)
  <2>1. x.started /\ x.named
    BY <1>9 DEF Named
  <2>2. ~Unnamed(x, n)
    BY <2>1 DEF Unnamed
  <2>3. v = ToolArgs(k, t, data)
    BY <1>1, <1>4, <1>6, <1>a, <2>1 DEF NativeCall
  <2>4. Named(t, k.out.tools[t], n)
    BY <1>4, <1>6, <1>9 DEF Named
  <2>5. Touches(base, k, v, t) /\ Named(t, v.out.tools[t], m)
    BY <1>7, <2>3, <2>4, ToolArgsGood
  <2>6. Touches(base, w, v, t)
    BY <1>6, <2>5, TouchesOn
  <2> QED
    BY <1>1, <2>2, <2>5, <2>6
<1>10. CASE Unnamed(x, n) /\ name
  <2>1. ~x.started /\ x.args = <<>> /\ x.held = <<>> /\ x.early = Counted(n) /\ y.named
    BY <1>4, <1>10 DEF Unnamed
  <2>2. PICK s, none : s = StartTool(k, t) /\ none = <<>>
    OBVIOUS
  <2>3. Touches(base, k, s, t) /\ Starts(y, s.out.tools[t])
    <3>1. Idle(k, t)
      BY <1>4, <1>6, <2>1 DEF Idle
    <3> QED
      BY <1>6, <1>7, <2>2, <3>1, StartToolGood
  <2>4. PICK o : o = WithEarly(s, t, none)
    OBVIOUS
  <2>5. /\ Touches(base, s, o, t) /\ o.out.tools[t].early = none
        /\ o.out.tools[t].known = s.out.tools[t].known /\ o.out.tools[t].named = s.out.tools[t].named
        /\ o.out.tools[t].started = s.out.tools[t].started /\ o.out.tools[t].open = s.out.tools[t].open
        /\ o.out.tools[t].args = s.out.tools[t].args /\ o.out.tools[t].held = s.out.tools[t].held
    <3>1. none \in Seq(Nat)
      BY <2>2, EmptySeq
    <3>2. Good(base, s)
      BY <2>3, TouchesGood
    <3> QED
      BY <2>4, <3>1, <3>2, EarlyGood
  <2>6. Named(t, o.out.tools[t], 0)
    BY <1>4, <2>1, <2>2, <2>3, <2>5, CountedWhole DEF Starts, Named
  <2>7. v = ToolArgs(ToolArgs(o, t, y.early), t, data)
    <3>1. o = OpenedCall(k, t)
      BY <2>2, <2>4 DEF OpenedCall, WithEarly
    <3> QED
      BY <1>1, <1>4, <1>6, <1>a, <2>1, <3>1 DEF NativeCall
  <2>8. PICK a : a = ToolArgs(o, t, y.early)
    OBVIOUS
  <2>9. Touches(base, o, a, t) /\ Named(t, a.out.tools[t], n)
    <3>1. Fit(0, y.early, n)
      BY <1>4, <1>8, <2>1, FitAll
    <3>2. Good(base, o)
      BY <2>5, TouchesGood
    <3> QED
      BY <2>6, <2>8, <3>1, <3>2, ToolArgsGood
  <2>10. Touches(base, a, v, t) /\ Named(t, v.out.tools[t], m)
    <3>1. Good(base, a)
      BY <2>9, TouchesGood
    <3>2. v = ToolArgs(a, t, data)
      BY <2>7, <2>8
    <3> QED
      BY <2>9, <3>1, <3>2, ToolArgsGood
  <2>11. Touches(base, w, v, t)
    <3>1. Touches(base, w, s, t)
      BY <1>6, <2>3, TouchesOn
    <3>2. Touches(base, w, o, t)
      BY <2>5, <3>1, TouchesOn
    <3>3. Touches(base, w, a, t)
      BY <2>9, <3>2, TouchesOn
    <3> QED
      BY <2>10, <3>3, TouchesOn
  <2> QED
    BY <1>1, <1>10, <2>10, <2>11
<1>11. CASE Unnamed(x, n) /\ ~name
  <2>1. /\ ~x.named /\ ~x.started /\ ~x.open /\ x.args = <<>> /\ x.held = <<>>
        /\ x.early = Counted(n) /\ ~y.named
    BY <1>4, <1>11 DEF Unnamed
  <2>2. PICK early1 : early1 = y.early \o data
    OBVIOUS
  <2>3. early1 = Counted(m) /\ early1 \in Seq(Nat)
    BY <1>4, <1>8, <2>1, <2>2
  <2>4. v = WithEarly(k, t, early1)
    <3>1. v = [k EXCEPT !.out.tools[t].early = y.early \o data]
      BY <1>1, <1>4, <1>6, <1>a, <2>1 DEF NativeCall
    <3> QED
      BY <2>2, <3>1 DEF WithEarly
  <2>5. /\ Touches(base, k, v, t) /\ v.out.tools[t].early = early1
        /\ v.out.tools[t].known = k.out.tools[t].known /\ v.out.tools[t].named = k.out.tools[t].named
        /\ v.out.tools[t].started = k.out.tools[t].started /\ v.out.tools[t].open = k.out.tools[t].open
        /\ v.out.tools[t].args = k.out.tools[t].args /\ v.out.tools[t].held = k.out.tools[t].held
    BY <1>7, <2>3, <2>4, EarlyGood
  <2>6. Unnamed(v.out.tools[t], m)
    BY <1>4, <1>6, <2>1, <2>3, <2>5 DEF Unnamed
  <2>7. Touches(base, w, v, t)
    BY <1>6, <2>5, TouchesOn
  <2>8. ~Named(t, x, n)
    BY <2>1 DEF Named
  <2> QED
    BY <1>1, <1>11, <2>6, <2>7, <2>8
<1> QED
  BY <1>1, <1>9, <1>10, <1>11

(* A call written as text is whole and closed at once.                     *)
TextDone(x) ==
  /\ x.known /\ x.named /\ x.started /\ ~x.open
  /\ x.args = Whole /\ x.held = <<>> /\ x.early = <<>>

(* A call found in the text is opened, given its arguments and closed.     *)
LEMMA TextCallGood ==
  ASSUME NEW base \in Outputs, NEW w, Good(base, w), Begun(w), NEW t \in Tools,
         t = TextIndex(w.out), Unnamed(w.out.tools[t], 0)
  PROVE  /\ Good(base, TextCall(w)) /\ SaidSame(w.out, TextCall(w).out)
         /\ TextCall(w).out.began = w.out.began
         /\ \A u \in Tools : u # t => TextCall(w).out.tools[u] = w.out.tools[u]
         /\ TextDone(TextCall(w).out.tools[t])
<1>1. PICK c, s, d, v : c = CloseContent(w) /\ s = StartTool(c, t) /\ d = ToolDelta(s, t, Whole)
                        /\ v = StopTool(d, t)
  OBVIOUS
<1>2. TextCall(w) = v
  BY <1>1 DEF TextCall
<1>3. Carries(base, w, c)
  BY <1>1, CloseContentGood
<1>4. Good(base, c) /\ Begun(c) /\ Idle(c, t) /\ Unnamed(c.out.tools[t], 0)
  BY <1>3 DEF Carries, Begun, Idle, Unnamed
<1>5. Touches(base, c, s, t) /\ Starts(c.out.tools[t], s.out.tools[t])
  BY <1>1, <1>4, StartToolGood
<1>6. Touches(base, s, d, t) /\ Adds(s.out.tools[t], d.out.tools[t], Whole)
  <2>1. Good(base, s)
    BY <1>5, TouchesGood
  <2>2. IsWriting(s, t)
    BY <1>5 DEF Starts, IsWriting
  <2>3. Whole \in Seq(Nat)
    BY CountedWhole, CountedTyped
  <2> QED
    BY <1>1, <2>1, <2>2, <2>3, ToolDeltaGood
<1>7. Touches(base, d, v, t) /\ Shuts(d.out.tools[t], v.out.tools[t])
  <2>1. Good(base, d)
    BY <1>6, TouchesGood
  <2> QED
    BY <1>1, <2>1, StopToolGood
<1>8. Touches(base, c, v, t)
  BY <1>5, <1>6, <1>7, TouchesOn
<1>9. TextDone(v.out.tools[t])
  <2>1. Whole \in Seq(Nat)
    BY CountedWhole, CountedTyped
  <2>2. <<>> \o Whole = Whole
    BY <2>1, ConcatEmptySeq
  <2>3. c.out.tools[t].held = <<>> /\ c.out.tools[t].early = <<>>
    BY <1>4, CountedWhole DEF Unnamed
  <2> QED
    BY <1>5, <1>6, <1>7, <2>2, <2>3 DEF Starts, Adds, Shuts, TextDone
<1> QED
  BY <1>2, <1>3, <1>8, <1>9 DEF Carries, Touches, SaidSame

-----------------------------------------------------------------------------
(* The end of an answer.                                                   *)

(* Every call is in InOrder, at its index.                                 *)
LEMMA InOrderTyped ==
  /\ Len(InOrder) = MaxTools /\ Len(InOrder) \in Nat
  /\ \A n \in 1..Len(InOrder) : InOrder[n] \in Tools
  /\ \A t \in Tools : t + 1 \in 1..Len(InOrder) /\ InOrder[t + 1] = t
<1>1. MaxTools \in Nat /\ MaxTools # 0
  BY OutputAssumption
<1>2. PICK s : s = InOrder
  OBVIOUS
<1>3. s = [i \in 1..MaxTools |-> i - 1]
  BY <1>2 DEF InOrder
<1>4. Len(s) = MaxTools
  BY <1>1, <1>3
<1>5. \A n \in 1..MaxTools : s[n] \in Tools
  BY <1>1, <1>3 DEF Tools
<1>6. \A t \in Tools : t + 1 \in 1..MaxTools /\ s[t + 1] = t
  BY <1>1, <1>3 DEF Tools
<1> QED
  BY <1>1, <1>2, <1>4, <1>5, <1>6

(* What is held back, is held back from an open block.                     *)
HeldOpen(o) == \A t \in Tools : o.tools[t].held # <<>> => o.tools[t].open

(* flush of a call: its arguments held back are written.                   *)
LEMMA FlushToolGood ==
  ASSUME NEW base \in Outputs, NEW w, Good(base, w), NEW t \in Tools, HeldOpen(w.out)
  PROVE  Touches(base, w, FlushTool(w, t), t) /\ HeldOpen(FlushTool(w, t).out)
<1>1. PICK v, h : v = FlushTool(w, t) /\ h = w.out.tools[t].held
  OBVIOUS
<1>2. CASE h = <<>>
  <2>1. v = w
    BY <1>1, <1>2 DEF FlushTool
  <2> QED
    BY <1>1, <2>1, TouchesItself
<1>3. CASE h # <<>>
  <2>1. h \in Seq(Nat) /\ IsWriting(w, t)
    BY <1>1, <1>3, ToolsTyped DEF Good, HeldOpen, IsWriting
  <2>2. PICK u, none : u = ToolDelta(w, t, h) /\ none = <<>>
    OBVIOUS
  <2>3. v = WithHeld(u, t, none)
    BY <1>1, <1>3, <2>2 DEF FlushTool, WithHeld
  <2>4. Touches(base, w, u, t)
    BY <2>1, <2>2, ToolDeltaGood
  <2>5. Touches(base, u, v, t) /\ v.out.tools[t].held = none
    <3>1. Good(base, u) /\ none \in Seq(Nat)
      BY <2>2, <2>4, TouchesGood, EmptySeq
    <3> QED
      BY <2>3, <3>1, HeldGood
  <2>6. Touches(base, w, v, t)
    BY <2>4, <2>5, TouchesOn
  <2>7. HeldOpen(v.out)
    BY <2>2, <2>5, <2>6 DEF HeldOpen, Touches
  <2> QED
    BY <1>1, <2>6, <2>7
<1> QED
  BY <1>2, <1>3

(* flush_tool_argument_alias_buffers                                       *)
LEMMA FlushedGood ==
  ASSUME NEW base \in Outputs, NEW w, Good(base, w), HeldOpen(w.out)
  PROVE  /\ Good(base, FlushEach(w, InOrder)) /\ SaidSame(w.out, FlushEach(w, InOrder).out)
         /\ FlushEach(w, InOrder).out.began = w.out.began
<1> DEFINE W == {v \in Writes : /\ Good(base, v) /\ SaidSame(w.out, v.out) /\ HeldOpen(v.out)
                                /\ v.out.began = w.out.began}
<1>1. w \in W
  BY DEF Good, SaidSame
<1>2. \A n \in 1..Len(InOrder) : \A v \in W : FlushTool(v, InOrder[n]) \in W
  <2> SUFFICES ASSUME NEW n \in 1..Len(InOrder), NEW v \in W PROVE FlushTool(v, InOrder[n]) \in W
    OBVIOUS
  <2>1. PICK t, u : t = InOrder[n] /\ u = FlushTool(v, t)
    OBVIOUS
  <2>2. t \in Tools
    BY <2>1, InOrderTyped
  <2>3. Touches(base, v, u, t) /\ HeldOpen(u.out)
    BY <2>1, <2>2, FlushToolGood
  <2>4. u \in Writes
    BY <2>3 DEF Touches, Good
  <2> QED
    BY <2>1, <2>3, <2>4 DEF Touches, SaidSame
<1>3. Len(InOrder) \in Nat
  BY InOrderTyped
<1> HIDE DEF W
<1>4. PICK s : s = InOrder
  OBVIOUS
<1>5. Len(s) \in Nat /\ \A n \in 1..Len(s) : \A v \in W : FlushTool(v, s[n]) \in W
  BY <1>2, <1>3, <1>4
<1>6. \E g : FlushRun(g, W, w, s)
  <2>1. FlushKeeps(W, s)
    BY <1>5 DEF FlushKeeps
  <2> QED
    BY ONLY <1>1, <2>1, FlushToolRuns
<1>7. FlushEach(w, InOrder) \in W
  BY <1>4, <1>5, <1>6 DEF FlushRun
<1> QED
  BY <1>7 DEF W

(* No content is written to, and the calls are as they were but for their   *)
(* blocks, which may be closed.                                            *)
Winding(base, w, v) ==
  /\ Good(base, v) /\ SaidSame(w.out, v.out) /\ v.out.began = w.out.began
  /\ v.out.text = 0 /\ v.out.reasoning = 0
  /\ \A u \in Tools : /\ v.out.tools[u].started = w.out.tools[u].started
                      /\ v.out.tools[u].args = w.out.tools[u].args

(* stop_tool_block while the calls are closed one by one.                  *)
LEMMA WindsOn ==
  ASSUME NEW base \in Outputs, NEW w, NEW v, Winding(base, w, v), NEW t \in Tools
  PROVE  /\ Winding(base, w, StopTool(v, t)) /\ ~StopTool(v, t).out.tools[t].open
         /\ \A u \in Tools : u # t => StopTool(v, t).out.tools[u].open = v.out.tools[u].open
<1>1. PICK x : x = StopTool(v, t)
  OBVIOUS
<1>2. Touches(base, v, x, t) /\ Shuts(v.out.tools[t], x.out.tools[t])
  BY <1>1, StopToolGood DEF Winding
<1> QED
  BY <1>1, <1>2 DEF Winding, Touches, Shuts, SaidSame

(* No block is open.                                                       *)
AllClosed(blocks) == \A b \in DOMAIN blocks : ~blocks[b].open

(* close_all_blocks                                                        *)
LEMMA CloseAllGood ==
  ASSUME NEW base \in Outputs, NEW w, Good(base, w)
  PROVE  Winding(base, w, CloseAll(w)) /\ AllClosed(CloseAll(w).out.blocks)
<1>1. PICK c, v, s, K : c = CloseContent(w) /\ v = CloseAll(w) /\ s = InOrder /\ K = Len(InOrder)
  OBVIOUS
<1>2. v = StopEach(c, s)
  BY <1>1 DEF CloseAll, StopEach
<1>3. Winding(base, w, c)
  BY <1>1, CloseContentGood DEF Winding, Carries
<1> DEFINE W == {u \in Writes : Winding(base, w, u)}
<1>4. c \in W
  BY <1>3 DEF Winding, Good
<1>5. /\ K \in Nat /\ \A n \in 1..K : s[n] \in Tools
      /\ \A t \in Tools : t + 1 \in 1..K /\ s[t + 1] = t
  BY <1>1, InOrderTyped
<1>6. \A n \in 1..K : \A u \in W :
        /\ StopTool(u, s[n]) \in W
        /\ ~StopTool(u, s[n]).out.tools[s[n]].open
        /\ \A t \in Tools : t # s[n] =>
             StopTool(u, s[n]).out.tools[t].open = u.out.tools[t].open
  <2> SUFFICES ASSUME NEW n \in 1..K, NEW u \in W
               PROVE  /\ StopTool(u, s[n]) \in W
                      /\ ~StopTool(u, s[n]).out.tools[s[n]].open
                      /\ \A t \in Tools : t # s[n] =>
                           StopTool(u, s[n]).out.tools[t].open = u.out.tools[t].open
    OBVIOUS
  <2>1. PICK t, x : t = s[n] /\ x = StopTool(u, t)
    OBVIOUS
  <2>2. t \in Tools
    BY <1>5, <2>1
  <2>3. /\ Winding(base, w, x) /\ ~x.out.tools[t].open
        /\ \A r \in Tools : r # t => x.out.tools[r].open = u.out.tools[r].open
    BY <2>1, <2>2, WindsOn
  <2>4. x \in Writes
    BY <2>3 DEF Winding, Good
  <2> QED
    BY <2>1, <2>3, <2>4
<1> HIDE DEF W
<1>7. PICK g \in [0..K -> W] :
        /\ g[0] = c /\ v = g[K]
        /\ \A n \in 1..K : g[n] = StopTool(g[n - 1], s[n])
  <2>1. StopKeeps(W, s)
    BY <1>1, <1>5, <1>6 DEF StopKeeps
  <2>2. \E g : StopRun(g, W, c, s)
    BY ONLY <1>4, <2>1, StopToolRuns
  <2> QED
    BY <1>1, <1>2, <2>2 DEF StopRun
<1> DEFINE Shut == {n \in Nat : n \in 0..K /\ \A k \in 1..n : ~g[n].out.tools[s[k]].open}
<1>8. \A n \in 0..K : n \in Shut
  <2>1. 0 \in Shut
    BY <1>5
  <2>2. \A n \in 0..K : n \in Shut /\ n < K => n + 1 \in Shut
    <3> TAKE n \in 0..K
    <3> HAVE n \in Shut /\ n < K
    <3>1. PICK m, x, y : m = n + 1 /\ x = g[n] /\ y = g[m]
      OBVIOUS
    <3>2. m \in 1..K /\ m - 1 = n /\ m \in Nat /\ m \in 0..K
      BY <1>5, <3>1
    <3>3. y = StopTool(x, s[m]) /\ x \in W
      BY <1>7, <3>1, <3>2
    <3>4. /\ ~y.out.tools[s[m]].open
          /\ \A t \in Tools : t # s[m] => y.out.tools[t].open = x.out.tools[t].open
      BY <1>6, <3>2, <3>3
    <3>5. \A k \in 1..m : ~y.out.tools[s[k]].open
      <4> TAKE k \in 1..m
      <4>1. k = m \/ k \in 1..n
        BY <3>1, <3>2
      <4>2. s[k] \in Tools
        BY <1>5, <3>2, <4>1
      <4>3. k \in 1..n => ~x.out.tools[s[k]].open
        BY <3>1
      <4> QED
        BY <3>4, <4>1, <4>2, <4>3
    <3> QED
      BY <3>1, <3>2, <3>5
  <2> HIDE DEF Shut
  <2> QED
    BY <1>5, <2>1, <2>2, UpTo
<1>9. \A t \in Tools : ~v.out.tools[t].open
  <2> TAKE t \in Tools
  <2>1. K \in Shut /\ t + 1 \in 1..K /\ s[t + 1] = t
    BY <1>5, <1>8
  <2> QED
    BY <1>7, <2>1
<1>10. Winding(base, w, v)
  <2>1. v \in W
    BY <1>5, <1>7
  <2> QED
    BY <2>1 DEF W
<1>11. AllClosed(v.out.blocks)
  <2>1. /\ Owned(v.out) /\ ToolsWrite(v.out) /\ v \in Writes
        /\ v.out.text = 0 /\ v.out.reasoning = 0
    BY <1>10 DEF Winding, Good, OutOK
  <2>2. DOMAIN v.out.blocks = 1..Len(v.out.blocks)
    BY <2>1, WriteTyped
  <2> SUFFICES ASSUME NEW b \in 1..Len(v.out.blocks), v.out.blocks[b].open
               PROVE  FALSE
    BY <2>2 DEF AllClosed
  <2>3. v.out.blocks[b].kind \in Kinds \union {"tool"}
    BY <2>1 DEF Owned
  <2>4. CASE v.out.blocks[b].kind \in Kinds
    <3>1. b = Cursor(v.out, v.out.blocks[b].kind)
      BY <2>1, <2>4 DEF Owned
    <3>2. Cursor(v.out, v.out.blocks[b].kind) = 0
      BY <2>1 DEF Cursor
    <3> QED
      BY <3>1, <3>2
  <2>5. CASE v.out.blocks[b].kind = "tool"
    <3>1. PICK t \in Tools : v.out.tools[t].started /\ v.out.tools[t].block = b
      BY <2>1, <2>5 DEF Owned
    <3>2. v.out.blocks[b].open = v.out.tools[t].open
      BY <2>1, <3>1 DEF ToolsWrite
    <3> QED
      BY <1>9, <3>1, <3>2
  <2> QED
    BY <2>3, <2>4, <2>5
<1> QED
  BY <1>1, <1>10, <1>11

(* What the client knows when the answer has ended: all blocks are closed,  *)
(* it has been told what w says, and its calls are those of w.             *)
Finished(w, c) ==
  /\ c \in Clients /\ c.ok /\ c.ended /\ AllClosed(c.blocks)
  /\ \A k \in Kinds : Spoken(c.blocks, k) = Spoken(w.out.blocks, k)
  /\ \A b \in DOMAIN c.blocks :
       c.blocks[b].kind = "tool" =>
         \E t \in Tools : w.out.tools[t].started /\ c.blocks[b].data = w.out.tools[t].args

(* finish_success                                                          *)
LEMMA FinishGood ==
  ASSUME NEW base \in Outputs, NEW w, Good(base, w), Begun(w)
  PROVE  /\ FinishSuccess(w).events \in Seq(Events)
         /\ Finished(w, Read(View(base), FinishSuccess(w).events))
<1>1. PICK v, f, ev : v = CloseAll(w) /\ f = FinishSuccess(w) /\ ev = Event("end", 0, "none", <<>>)
  OBVIOUS
<1>2. Winding(base, w, v) /\ AllClosed(v.out.blocks)
  BY <1>1, CloseAllGood
<1>3. v \in Writes /\ Shown(base, v) /\ OutOK(v.out) /\ v.out.began /\ v.out \in Outputs
  <2>1. v \in Writes /\ Shown(base, v) /\ OutOK(v.out) /\ v.out.began
    BY <1>2 DEF Winding, Good, Begun
  <2> QED
    BY <2>1, WriteTyped
<1>4. ev \in Events /\ ev.type = "end"
  BY <1>1, EmptySeq DEF Event, Events, Kinds
<1>5. f.events = Append(v.events, ev)
  BY <1>1 DEF FinishSuccess, Write
<1>6. PICK c : c = View(v.out)
  OBVIOUS
<1>7. c \in Clients /\ c.blocks = v.out.blocks /\ c.started /\ ~c.ended /\ c.ok
  BY <1>3, <1>6, ViewTyped
<1>8. f.events \in Seq(Events) /\ Read(View(base), f.events) = Received(c, ev)
  <2>1. v.events \in Seq(Events) /\ View(base) \in Clients
    BY <1>3, WriteTyped, ViewTyped
  <2>2. Read(View(base), v.events) = c
    BY <1>3, <1>6 DEF Shown
  <2>3. Append(v.events, ev) \in Seq(Events)
    BY <1>4, <2>1, AppendProperties
  <2> QED
    BY <1>4, <1>5, <2>1, <2>2, <2>3, ReadMore
<1>9. PICK r : r = Received(c, ev)
  OBVIOUS
<1>10. r \in Clients /\ r.ok /\ r.ended /\ r.blocks = v.out.blocks
  <2>1. Expected(c, ev)
    BY <1>2, <1>4, <1>7 DEF Expected, AllClosed
  <2>2. Recorded(c.blocks, ev) = v.out.blocks
    BY <1>4, <1>7 DEF Recorded
  <2>3. r = [started |-> TRUE, blocks |-> v.out.blocks, ended |-> TRUE, ok |-> TRUE]
    BY <1>4, <1>7, <1>9, <2>1, <2>2 DEF Received
  <2>4. r \in Clients
    BY <1>4, <1>7, <1>9, ReceivedTyped
  <2> QED
    BY <2>3, <2>4
<1>11. \A k \in Kinds : Spoken(v.out.blocks, k) = Spoken(w.out.blocks, k)
  BY <1>2 DEF Winding, SaidSame
<1>12. ASSUME NEW b \in DOMAIN v.out.blocks, v.out.blocks[b].kind = "tool"
       PROVE  \E t \in Tools : w.out.tools[t].started /\ v.out.blocks[b].data = w.out.tools[t].args
  <2>1. b \in 1..Len(v.out.blocks)
    BY <1>3, WriteTyped
  <2>2. PICK t \in Tools : v.out.tools[t].started /\ v.out.tools[t].block = b
    BY <1>3, <1>12, <2>1 DEF OutOK, Owned
  <2>3. v.out.blocks[b].data = v.out.tools[t].args
    BY <1>3, <2>2 DEF OutOK, ToolsWrite
  <2> QED
    BY <1>2, <2>2, <2>3 DEF Winding
<1> QED
  BY <1>1, <1>2, <1>8, <1>9, <1>10, <1>11, <1>12 DEF Finished

(* To say nothing changes nothing.                                         *)
LEMMA SpokenEmpty ==
  ASSUME NEW w \in Writes, NEW kind
  PROVE  Spoken(w.out.blocks, kind) \o <<>> = Spoken(w.out.blocks, kind)
<1>1. w.out.blocks \in Seq(Blocks)
  BY WriteTyped
<1>2. Spoken(w.out.blocks, kind) \in Seq(Nat)
  BY <1>1, SpokenTyped
<1> QED
  BY <1>2, ConcatEmptySeq

(* prepare_completion                                                      *)
LEMMA CompletedGood ==
  ASSUME NEW base \in Outputs, NEW w, Good(base, w), Begun(w), HeldOpen(w.out)
  PROVE  /\ Good(base, Completed(w)) /\ Begun(Completed(w))
         /\ SaidSame(w.out, Completed(w).out)
<1>1. PICK e, s, kind, none : e = EnsureText(w) /\ kind = "text" /\ none = <<>> /\ s = Say(e, kind, none)
  OBVIOUS
<1>2. Carries(base, w, e) /\ e.out.text # 0
  BY <1>1, EnsureTextGood DEF Begun
<1>3. /\ Good(base, s) /\ s.out.began = e.out.began /\ s.out.tools = e.out.tools
      /\ SaidSame(e.out, s.out)
  <2>1. Good(base, e) /\ kind \in Kinds /\ Cursor(e.out, kind) # 0
    BY <1>1, <1>2 DEF Carries, Kinds, Cursor
  <2>2. none \in Seq(Nat)
    BY <1>1, EmptySeq
  <2>3. s = Say(e, kind, none)
    BY <1>1
  <2>4. base \in Outputs
    OBVIOUS
  <2>5. /\ Good(base, s) /\ s.out.began = e.out.began /\ s.out.tools = e.out.tools
        /\ Spoken(s.out.blocks, kind) = Spoken(e.out.blocks, kind) \o none
        /\ \A k \in Kinds : k # kind => Spoken(s.out.blocks, k) = Spoken(e.out.blocks, k)
    BY ONLY <2>1, <2>2, <2>3, <2>4, SayGood
  <2>6. Spoken(e.out.blocks, kind) \o none = Spoken(e.out.blocks, kind)
    BY <1>1, <2>1, SpokenEmpty DEF Good
  <2> QED
    BY <2>5, <2>6 DEF SaidSame
<1>4. Begun(s) /\ HeldOpen(s.out)
  BY <1>2, <1>3 DEF Carries, Begun, HeldOpen
<1>s. SaidSame(w.out, w.out) /\ SaidSame(w.out, s.out)
  BY <1>2, <1>3 DEF Carries, SaidSame
<1>5. PICK u : /\ Good(base, u) /\ Begun(u) /\ HeldOpen(u.out) /\ SaidSame(w.out, u.out)
               /\ Completed(w) = CloseAll(FlushEach(u, InOrder))
  <2>1. Completed(w) = CloseAll(FlushEach(w, InOrder)) \/ Completed(w) = CloseAll(FlushEach(s, InOrder))
    BY <1>1 DEF Completed, FlushEach
  <2> QED
    BY <1>3, <1>4, <1>s, <2>1
<1>6. PICK v : v = FlushEach(u, InOrder)
  OBVIOUS
<1>7. Good(base, v) /\ v.out.began /\ SaidSame(u.out, v.out)
  BY <1>5, <1>6, FlushedGood DEF Begun
<1>8. Winding(base, v, CloseAll(v))
  BY <1>7, CloseAllGood
<1> QED
  BY <1>5, <1>6, <1>7, <1>8 DEF Winding, Begun, SaidSame

(* What is shown of an answer is closed: what it says stays, and the client *)
(* knows it.                                                               *)
Closing(base, w) ==
  /\ w \in Writes /\ Shown(base, w) /\ w.out.began = base.began
  /\ Len(w.out.blocks) = Len(base.blocks) /\ SaidSame(base, w.out)

(* One block closed while all of them are (close_unclosed_blocks).         *)
LEMMA CloseBlockGood ==
  ASSUME NEW base \in Outputs, base.began, NEW w, Closing(base, w), NEW c \in 1..Len(base.blocks)
  PROVE  /\ Closing(base, CloseBlock(w, c)) /\ ~CloseBlock(w, c).out.blocks[c].open
         /\ \A b \in 1..Len(base.blocks) :
              b # c => CloseBlock(w, c).out.blocks[b].open = w.out.blocks[b].open
<1>0. /\ w \in Writes /\ w.out \in Outputs /\ w.out.blocks \in Seq(Blocks)
      /\ Len(w.out.blocks) \in Nat /\ c \in 1..Len(w.out.blocks) /\ w.out.began
      /\ w.out.blocks[c] \in Blocks
      /\ \A b \in 1..Len(w.out.blocks) : w.out.blocks[b].open \in BOOLEAN
  <2>1. w \in Writes /\ c \in 1..Len(w.out.blocks) /\ w.out.began
    BY DEF Closing
  <2> QED
    BY <2>1, WriteTyped
<1>1. PICK v : v = CloseBlock(w, c)
  OBVIOUS
<1>2. CASE ~w.out.blocks[c].open
  <2>1. v = w
    BY <1>1, <1>2 DEF CloseBlock
  <2> QED
    BY <1>1, <1>2, <2>1
<1>3. CASE w.out.blocks[c].open
  <2>1. PICK kind, ev, x : kind = w.out.blocks[c].kind /\ ev = Event("close", c, kind, <<>>)
                           /\ x = w.out.blocks[c]
    OBVIOUS
  <2>2. ev \in Events /\ ev.type = "close" /\ ev.block = c
    <3>1. kind \in Kinds \union {"tool", "none"} /\ c \in Nat
      BY <1>0, <2>1 DEF Blocks
    <3> QED
      BY <2>1, <3>1, EmptySeq DEF Event, Events
  <2>3. v = Write(w, ev)
    BY <1>1, <1>3, <2>1 DEF CloseBlock
  <2>4. v = Made(w.out.began, Recorded(w.out.blocks, ev), w.out.text, w.out.reasoning, w.out.tools,
                 Append(w.events, ev))
    <3>1. w = Made(w.out.began, w.out.blocks, w.out.text, w.out.reasoning, w.out.tools, w.events)
      BY <1>0, MadeOfParts
    <3> QED
      BY ONLY <2>3, <3>1, MadeChanged
  <2>5. /\ v.out.began = w.out.began /\ v.out.blocks = Recorded(w.out.blocks, ev)
        /\ v.events = Append(w.events, ev)
    BY ONLY <2>4 DEF Made
  <2>6. v.out.blocks \in Seq(Blocks) /\ Changed(w.out.blocks, v.out.blocks, c, Closed(x))
    BY <1>0, <2>1, <2>2, <2>5, RecordedFacts
  <2>7. v \in Writes
    <3>1. /\ w.out.text \in Nat /\ w.out.reasoning \in Nat /\ w.out.tools \in [Tools -> ToolStates]
          /\ w.out.began \in BOOLEAN
      BY <1>0, WriteTyped
    <3>2. v = Made(w.out.began, v.out.blocks, w.out.text, w.out.reasoning, w.out.tools,
                   Append(w.events, ev))
      BY <2>4, <2>5
    <3> QED
      BY ONLY <1>0, <2>2, <2>6, <3>1, <3>2, MadeFrom
  <2>8. Shown(base, v)
    <3>1. OneMore(w, v, ev)
      BY <1>0, <2>2, <2>5, <2>7 DEF OneMore
    <3>2. Shown(base, w) /\ v.out.began /\ ev.type # "end" /\ ev.type # "start" /\ ev.type # "open"
          /\ ev.type # "delta" /\ w.out.blocks[ev.block].open /\ base \in Outputs
      BY <1>0, <1>3, <2>2, <2>5 DEF Closing
    <3> QED
      BY <1>0, <3>1, <3>2, ReadWritten
  <2>9. SaidSame(w.out, v.out)
    <3> SUFFICES ASSUME NEW kind1 \in Kinds
                 PROVE  Spoken(v.out.blocks, kind1) = Spoken(w.out.blocks, kind1)
      BY DEF SaidSame
    <3> QED
      BY <1>0, <2>1, <2>6, SpokenClosed
  <2>10. /\ Len(v.out.blocks) = Len(w.out.blocks)
         /\ \A b \in 1..Len(w.out.blocks) : b # c => v.out.blocks[b] = w.out.blocks[b]
         /\ ~v.out.blocks[c].open
    BY <2>6 DEF Changed, Closed
  <2> QED
    BY <1>1, <2>5, <2>7, <2>8, <2>9, <2>10 DEF Closing, SaidSame
<1> QED
  BY <1>2, <1>3


(* What a failure leaves to the client: all is closed, it has been told    *)
(* what the output says, and the answer is not at its end.                 *)
Shutdown(o, c) ==
  /\ c \in Clients /\ c.ok /\ ~c.ended /\ AllClosed(c.blocks)
  /\ \A k \in Kinds : Spoken(c.blocks, k) = Spoken(o.blocks, k)

(* close_unclosed_blocks                                                   *)
LEMMA CloseUnclosedGood ==
  ASSUME NEW base \in Outputs, OutOK(base)
  PROVE  /\ CloseUnclosed(Nothing(base)).events \in Seq(Events)
         /\ Shutdown(base, Read(View(base), CloseUnclosed(Nothing(base)).events))
<1>1. PICK w, K, s : w = Nothing(base) /\ K = Len(base.blocks)
                     /\ s = Reverse([i \in 1..Len(base.blocks) |-> i])
  OBVIOUS
<1>2. K \in Nat /\ DOMAIN base.blocks = 1..K /\ View(base) \in Clients /\ base.blocks \in Seq(Blocks)
  BY <1>1, OutTyped, ViewTyped, LenProperties
<1>3. s = [n \in 1..K |-> K - n + 1] /\ Len(s) = K
  <2>1. PICK r : r = [i \in 1..K |-> i]
    OBVIOUS
  <2>2. Len(r) = K /\ \A n \in 1..K : r[(K - n) + 1] = K - n + 1
    BY <1>2, <2>1
  <2>3. s = [n \in 1..K |-> r[(K - n) + 1]]
    BY <1>1, <2>1, <2>2 DEF Reverse
  <2> QED
    BY <1>2, <2>2, <2>3
<1>4. \A n \in 1..K : s[n] \in 1..K
  BY <1>2, <1>3
<1>5. \A b \in 1..K : K - b + 1 \in 1..K /\ s[K - b + 1] = b
  BY <1>2, <1>3
<1>6. Closing(base, w)
  <2>1. PICK none : none = <<>>
    OBVIOUS
  <2>2. w.out = base /\ w.events = none /\ w = [out |-> base, events |-> none]
    BY <1>1, <2>1 DEF Nothing
  <2>3. w \in Writes
    BY <2>1, <2>2, EmptySeq DEF Writes
  <2>4. Read(View(base), none) = View(base)
    BY <1>2, <2>1, ReadNothing
  <2> QED
    BY <2>2, <2>3, <2>4 DEF Closing, Shown, SaidSame
<1> DEFINE W == {u \in Writes : Closing(base, u)}
<1>7. w \in W
  BY <1>6 DEF Closing
<1>8. \A n \in 1..K : \A u \in W :
        /\ CloseBlock(u, s[n]) \in W
        /\ ~CloseBlock(u, s[n]).out.blocks[s[n]].open
        /\ \A b \in 1..K : b # s[n] =>
             CloseBlock(u, s[n]).out.blocks[b].open = u.out.blocks[b].open
  <2> SUFFICES ASSUME NEW n \in 1..K, NEW u \in W
               PROVE  /\ CloseBlock(u, s[n]) \in W
                      /\ ~CloseBlock(u, s[n]).out.blocks[s[n]].open
                      /\ \A b \in 1..K : b # s[n] =>
                           CloseBlock(u, s[n]).out.blocks[b].open = u.out.blocks[b].open
    OBVIOUS
  <2>1. PICK c, x : c = s[n] /\ x = CloseBlock(u, c)
    OBVIOUS
  <2>2. c \in 1..Len(base.blocks) /\ base.began
    <3>1. c \in 1..K
      BY <1>4, <2>1
    <3>2. base.blocks # <<>>
      BY <1>1, <1>2, <3>1
    <3> QED
      BY <1>1, <3>1, <3>2 DEF OutOK
  <2>3. /\ Closing(base, x) /\ ~x.out.blocks[c].open
        /\ \A b \in 1..K : b # c => x.out.blocks[b].open = u.out.blocks[b].open
    <3>1. Closing(base, u) /\ base \in Outputs
      OBVIOUS
    <3>2. base.began /\ c \in 1..Len(base.blocks)
      BY <2>2
    <3>3. /\ Closing(base, CloseBlock(u, c)) /\ ~CloseBlock(u, c).out.blocks[c].open
          /\ \A b \in 1..Len(base.blocks) :
               b # c => CloseBlock(u, c).out.blocks[b].open = u.out.blocks[b].open
      BY ONLY <3>1, <3>2, CloseBlockGood
    <3> QED
      BY <1>1, <2>1, <3>3
  <2>4. x \in Writes
    BY <2>3 DEF Closing
  <2> QED
    BY <2>1, <2>3, <2>4
<1> HIDE DEF W
<1>9. PICK v : v = CloseEach(w, s)
  OBVIOUS
<1>10. PICK g \in [0..K -> W] :
         /\ g[0] = w /\ v = g[K]
         /\ \A n \in 1..K : g[n] = CloseBlock(g[n - 1], s[n])
  <2>1. CloseKeeps(W, s)
    BY <1>2, <1>3, <1>8 DEF CloseKeeps
  <2>2. \E g : CloseRun(g, W, w, s)
    BY ONLY <1>7, <2>1, CloseBlockRuns
  <2> QED
    BY <1>3, <1>9, <2>2 DEF CloseRun
<1> DEFINE Shut == {n \in Nat : n \in 0..K /\ \A k \in 1..n : ~g[n].out.blocks[s[k]].open}
<1>11. \A n \in 0..K : n \in Shut
  <2>1. 0 \in Shut
    BY <1>2
  <2>2. \A n \in 0..K : n \in Shut /\ n < K => n + 1 \in Shut
    <3> TAKE n \in 0..K
    <3> HAVE n \in Shut /\ n < K
    <3>1. PICK m, x, y : m = n + 1 /\ x = g[n] /\ y = g[m]
      OBVIOUS
    <3>2. m \in 1..K /\ m - 1 = n /\ m \in Nat /\ m \in 0..K
      BY <1>2, <3>1
    <3>3. y = CloseBlock(x, s[m]) /\ x \in W
      BY <1>10, <3>1, <3>2
    <3>4. /\ ~y.out.blocks[s[m]].open
          /\ \A b \in 1..K : b # s[m] => y.out.blocks[b].open = x.out.blocks[b].open
      BY <1>8, <3>2, <3>3
    <3>5. \A k \in 1..m : ~y.out.blocks[s[k]].open
      <4> TAKE k \in 1..m
      <4>1. k = m \/ k \in 1..n
        BY <3>1, <3>2
      <4>2. s[k] \in 1..K
        <5>1. k \in 1..K
          BY <1>2, <3>2
        <5> QED
          BY <1>4, <5>1
      <4>3. k \in 1..n => ~x.out.blocks[s[k]].open
        BY <3>1
      <4> QED
        BY <3>4, <4>1, <4>2, <4>3
    <3> QED
      BY <3>1, <3>2, <3>5
  <2> HIDE DEF Shut
  <2> QED
    BY <1>2, <2>1, <2>2, UpTo
<1>12. \A b \in 1..K : ~v.out.blocks[b].open
  <2> TAKE b \in 1..K
  <2>1. K \in Shut /\ K - b + 1 \in 1..K /\ s[K - b + 1] = b
    BY <1>2, <1>5, <1>11
  <2> QED
    BY <1>10, <2>1
<1>13. Closing(base, v) /\ v \in Writes
  <2>1. v \in W
    BY <1>2, <1>10
  <2> QED
    BY <2>1 DEF W
<1>14. CloseUnclosed(w).events = v.events
  <2>1. w.out.blocks = base.blocks
    BY <1>1 DEF Nothing
  <2>2. v = Through(CloseBlock, w, Reverse([i \in 1..Len(w.out.blocks) |-> i]))
    BY <1>1, <1>9, <2>1 DEF CloseEach
  <2>3. v = [out |-> v.out, events |-> v.events]
    BY <1>13 DEF Writes
  <2> HIDE DEF Through
  <2> QED
    BY <2>2, <2>3 DEF CloseUnclosed
<1>15. v.events \in Seq(Events) /\ v.out \in Outputs /\ DOMAIN v.out.blocks = 1..K
  BY <1>1, <1>13, WriteTyped DEF Closing
<1>16. Read(View(base), v.events) = View(v.out)
  BY <1>13 DEF Closing, Shown
<1>17. Shutdown(base, View(v.out))
  <2>1. AllClosed(v.out.blocks)
    BY <1>12, <1>15 DEF AllClosed
  <2>2. \A k \in Kinds : Spoken(v.out.blocks, k) = Spoken(base.blocks, k)
    BY <1>13 DEF Closing, SaidSame
  <2> QED
    BY <1>15, <2>1, <2>2, ViewTyped DEF Shutdown
<1> QED
  BY <1>1, <1>14, <1>15, <1>16, <1>17

-----------------------------------------------------------------------------
(* The repair of calls.                                                    *)

(* The arguments of a call are what the upstream has sent of them, and      *)
(* those of a call that is closed are whole.                               *)
PartOrWhole(x) ==
  /\ \E n \in 0..2 : x.args = Counted(n)
  /\ x.started /\ ~x.open => x.args = Whole

(* Every call is part or whole, and whole once it is closed.               *)
StoppedWhole(o) == \A t \in Tools : PartOrWhole(o.tools[t])

(* What is left of whole arguments.                                        *)
LEMMA CountedRest ==
  ASSUME NEW n \in Nat, NEW m \in Nat, n <= m
  PROVE  /\ SubSeq(Counted(m), 1, n) = Counted(n)
         /\ SubSeq(Counted(m), n + 1, m) \in Seq(Nat)
         /\ Counted(n) \o SubSeq(Counted(m), n + 1, m) = Counted(m)
<1>1. PICK s : s = Counted(m)
  OBVIOUS
<1>2. s \in Seq(Nat) /\ Len(s) = m
  BY <1>1, CountedTyped
<1>3. \A i \in 1..m : s[i] = i
  BY <1>1 DEF Counted
<1>4. SubSeq(s, 1, n) = Counted(n)
  <2>1. PICK a, b, one : a = SubSeq(s, one, n) /\ b = Counted(n) /\ one = 1
    OBVIOUS
  <2>2. one \in Int /\ n \in Int /\ \A i \in one..n : s[i] \in Nat
    BY <1>3, <2>1
  <2>3. /\ a \in Seq(Nat) /\ Len(a) = (IF one <= n THEN n - one + 1 ELSE 0)
        /\ \A i \in 1..(n - one + 1) : a[i] = s[one + i - 1]
    BY <2>1, <2>2, SubSeqProperties
  <2>4. Len(a) = n /\ \A i \in 1..n : a[i] = i
    BY <1>3, <2>1, <2>3
  <2>5. b \in Seq(Nat) /\ Len(b) = n
    BY <2>1, CountedTyped
  <2>6. \A i \in 1..n : b[i] = i
    BY <2>1 DEF Counted
  <2>7. a = b
    BY <2>3, <2>4, <2>5, <2>6, SeqEqual
  <2> QED
    BY <2>1, <2>7
<1>5. SubSeq(s, n + 1, m) \in Seq(Nat)
  <2>1. PICK a, k : a = SubSeq(s, k, m) /\ k = n + 1
    OBVIOUS
  <2>2. k \in Int /\ m \in Int /\ \A i \in k..m : s[i] \in Nat
    BY <1>3, <2>1
  <2>3. a \in Seq(Nat)
    BY <2>1, <2>2, SubSeqProperties
  <2> QED
    BY <2>1, <2>3
<1>6. SubSeq(s, 1, n) \o SubSeq(s, n + 1, m) = s
  <2>1. PICK one : one = 1
    OBVIOUS
  <2>2. one \in 1..Len(s) + 1 /\ n \in (one - 1)..Len(s) /\ m \in n..Len(s)
    BY <1>2, <2>1
  <2>3. SubSeq(s, one, n) \o SubSeq(s, n + 1, m) = SubSeq(s, one, m)
    BY <1>2, <2>2, ConcatAdjacentSubSeq
  <2>4. SubSeq(s, 1, Len(s)) = s
    BY <1>2, SubSeqFull
  <2> QED
    BY <1>2, <2>1, <2>3, <2>4
<1> QED
  BY <1>1, <1>4, <1>5, <1>6

(* What of a whole call is not yet there completes it.                     *)
LEMMA RestOfWhole ==
  ASSUME NEW n \in 0..1
  PROVE  /\ SubSeq(Whole, n + 1, 2) \in Seq(Nat)
         /\ Counted(n) \o SubSeq(Whole, n + 1, 2) = Whole
<1>1. PICK two \in Nat : two = 2
  OBVIOUS
<1>2. n \in Nat /\ n <= two
  BY <1>1
<1>3. /\ SubSeq(Counted(two), n + 1, two) \in Seq(Nat)
      /\ Counted(n) \o SubSeq(Counted(two), n + 1, two) = Counted(two)
  BY <1>2, CountedRest
<1> QED
  BY <1>1, <1>3, CountedWhole

(* From x to y a call that had started got its whole arguments.            *)
Completes(x, y) ==
  /\ y.started = x.started /\ PartOrWhole(y)
  /\ x.started => y.args = Whole

(* accept_tool_json_repair, and the delta that completes a call             *)
LEMMA RepairToolGood ==
  ASSUME NEW base \in Outputs, NEW w, Good(base, w), NEW t \in Tools, PartOrWhole(w.out.tools[t])
  PROVE  /\ Touches(base, w, RepairTool(w, t), t)
         /\ Completes(w.out.tools[t], RepairTool(w, t).out.tools[t])
<1>1. PICK v, x : v = RepairTool(w, t) /\ x = w.out.tools[t]
  OBVIOUS
<1>2. x \in ToolStates /\ x.started \in BOOLEAN /\ x.open \in BOOLEAN
  BY <1>1, ToolsTyped DEF Good
<1>3. CASE ~(x.started /\ x.args # Whole)
  <2>1. v = w
    BY <1>1, <1>3 DEF RepairTool
  <2>2. Completes(x, x)
    BY <1>1, <1>3 DEF Completes
  <2> QED
    BY <1>1, <2>1, <2>2, TouchesItself
<1>4. CASE x.started /\ x.args # Whole
  <2>1. PICK n \in 0..2 : x.args = Counted(n)
    BY <1>1 DEF PartOrWhole
  <2>2. n \in 0..1 /\ n \in Nat
    BY <1>4, <2>1, CountedWhole
  <2>3. PICK data : data = SubSeq(Whole, n + 1, 2)
    OBVIOUS
  <2>4. data \in Seq(Nat) /\ x.args \o data = Whole
    BY <2>1, <2>2, <2>3, RestOfWhole
  <2>5. IsWriting(w, t)
    BY <1>1, <1>4 DEF PartOrWhole, IsWriting
  <2>6. v = ToolDelta(w, t, data)
    <3>1. Len(x.args) = n /\ Len(Whole) = 2
      BY <2>1, <2>2, CountedTyped, CountedWhole
    <3> QED
      BY <1>1, <1>4, <2>3, <3>1 DEF RepairTool, JoinRepair
  <2>7. Touches(base, w, v, t) /\ Adds(x, v.out.tools[t], data)
    BY <1>1, <2>4, <2>5, <2>6, ToolDeltaGood
  <2>8. Completes(x, v.out.tools[t])
    <3>1. PICK y : y = v.out.tools[t]
      OBVIOUS
    <3>2. y \in ToolStates /\ y.started \in BOOLEAN /\ y.open \in BOOLEAN
      <4>1. v \in Writes
        BY <2>7 DEF Touches, Good
      <4> QED
        BY <3>1, <4>1, ToolsTyped
    <3>3. y.started /\ y.open /\ y.args = Whole
      BY <2>4, <2>7, <3>1 DEF Adds
    <3>4. \E k \in 0..2 : y.args = Counted(k)
      BY <3>3, CountedWhole
    <3> QED
      BY <1>2, <1>4, <3>1, <3>2, <3>3, <3>4 DEF Completes, PartOrWhole
  <2> QED
    BY <1>1, <2>7, <2>8
<1> QED
  BY <1>3, <1>4

(* _repair_tool_args, for one call after the other                          *)
LEMMA RepairedGood ==
  ASSUME NEW base \in Outputs, NEW w, Good(base, w), StoppedWhole(w.out)
  PROVE  /\ Good(base, Repaired(w)) /\ Repaired(w).out.began = w.out.began
         /\ \A t \in Tools : Repaired(w).out.tools[t].started => Repaired(w).out.tools[t].args = Whole
         /\ SaidSame(w.out, Repaired(w).out)
<1>1. PICK v, s, K : v = Repaired(w) /\ s = InOrder /\ K = Len(InOrder)
  OBVIOUS
<1>2. v = RepairEach(w, s)
  BY <1>1 DEF Repaired, RepairEach
<1> DEFINE W == {u \in Writes : /\ Good(base, u) /\ StoppedWhole(u.out)
                               /\ u.out.began = w.out.began /\ SaidSame(w.out, u.out)}
<1>4. w \in W
  BY DEF Good, SaidSame
<1>5. /\ K \in Nat /\ \A n \in 1..K : s[n] \in Tools
      /\ \A t \in Tools : t + 1 \in 1..K /\ s[t + 1] = t
  BY <1>1, InOrderTyped
<1>6. \A n \in 1..K : \A u \in W :
        /\ RepairTool(u, s[n]) \in W
        /\ Completes(u.out.tools[s[n]], RepairTool(u, s[n]).out.tools[s[n]])
        /\ \A t \in Tools : t # s[n] => RepairTool(u, s[n]).out.tools[t] = u.out.tools[t]
  <2> SUFFICES ASSUME NEW n \in 1..K, NEW u \in W
               PROVE  /\ RepairTool(u, s[n]) \in W
                      /\ Completes(u.out.tools[s[n]], RepairTool(u, s[n]).out.tools[s[n]])
                      /\ \A t \in Tools : t # s[n] => RepairTool(u, s[n]).out.tools[t] = u.out.tools[t]
    OBVIOUS
  <2>1. PICK t, x : t = s[n] /\ x = RepairTool(u, t)
    OBVIOUS
  <2>2. t \in Tools /\ Good(base, u) /\ base \in Outputs /\ PartOrWhole(u.out.tools[t])
    BY <1>5, <2>1 DEF StoppedWhole
  <2>3. Touches(base, u, x, t) /\ Completes(u.out.tools[t], x.out.tools[t])
    BY ONLY <2>1, <2>2, RepairToolGood
  <2>4. x \in Writes /\ Good(base, x) /\ x.out.began = w.out.began /\ SaidSame(w.out, x.out)
    BY <2>3 DEF Touches, Good, SaidSame
  <2>5. StoppedWhole(x.out)
    BY <2>1, <2>3 DEF StoppedWhole, Touches, Completes
  <2> QED
    BY <2>1, <2>3, <2>4, <2>5 DEF Touches
<1> HIDE DEF W
<1>7. PICK g \in [0..K -> W] :
        /\ g[0] = w /\ v = g[K]
        /\ \A n \in 1..K : g[n] = RepairTool(g[n - 1], s[n])
  <2>1. RepairKeeps(W, s)
    BY <1>1, <1>5, <1>6 DEF RepairKeeps
  <2>2. \E g : RepairRun(g, W, w, s)
    BY ONLY <1>4, <2>1, RepairToolRuns
  <2> QED
    BY <1>1, <1>2, <2>2 DEF RepairRun
<1> DEFINE Done == {n \in Nat : n \in 0..K /\ \A k \in 1..n :
                      g[n].out.tools[s[k]].started => g[n].out.tools[s[k]].args = Whole}
<1>8. \A n \in 0..K : n \in Done
  <2>1. 0 \in Done
    BY <1>5
  <2>2. \A n \in 0..K : n \in Done /\ n < K => n + 1 \in Done
    <3> TAKE n \in 0..K
    <3> HAVE n \in Done /\ n < K
    <3>1. PICK m, x, y : m = n + 1 /\ x = g[n] /\ y = g[m]
      OBVIOUS
    <3>2. m \in 1..K /\ m - 1 = n /\ m \in Nat /\ m \in 0..K
      BY <1>5, <3>1
    <3>3. y = RepairTool(x, s[m]) /\ x \in W
      BY <1>7, <3>1, <3>2
    <3>4. /\ Completes(x.out.tools[s[m]], y.out.tools[s[m]])
          /\ \A t \in Tools : t # s[m] => y.out.tools[t] = x.out.tools[t]
      BY <1>6, <3>2, <3>3
    <3>5. \A k \in 1..m : y.out.tools[s[k]].started => y.out.tools[s[k]].args = Whole
      <4> TAKE k \in 1..m
      <4>1. k = m \/ k \in 1..n
        BY <3>1, <3>2
      <4>2. s[k] \in Tools
        <5>1. k \in 1..K
          BY <1>5, <3>2
        <5> QED
          BY <1>5, <5>1
      <4>3. k \in 1..n => (x.out.tools[s[k]].started => x.out.tools[s[k]].args = Whole)
        BY <3>1
      <4>4. y.out.tools[s[m]].started => y.out.tools[s[m]].args = Whole
        BY <3>4 DEF Completes
      <4>5. s[k] # s[m] => y.out.tools[s[k]] = x.out.tools[s[k]]
        BY <3>4, <4>2
      <4> QED
        BY <4>1, <4>3, <4>4, <4>5
    <3> QED
      BY <3>1, <3>2, <3>5
  <2> HIDE DEF Done
  <2> QED
    BY <1>5, <2>1, <2>2, UpTo
<1>9. \A t \in Tools : v.out.tools[t].started => v.out.tools[t].args = Whole
  <2> TAKE t \in Tools
  <2>1. K \in Done /\ t + 1 \in 1..K /\ s[t + 1] = t
    BY <1>5, <1>8
  <2> QED
    BY <1>7, <2>1
<1>10. Good(base, v) /\ v.out.began = w.out.began /\ SaidSame(w.out, v.out)
  <2>1. v \in W
    BY <1>5, <1>7
  <2> QED
    BY <2>1 DEF W
<1> QED
  BY <1>1, <1>9, <1>10

-----------------------------------------------------------------------------
(* What a model that was asked to go on adds to what it has said.           *)

(* Parts of a sequence.                                                    *)
LEMMA Part ==
  ASSUME NEW s \in Seq(Nat), NEW a \in Nat, a >= 1, NEW b \in Nat, b <= Len(s), a <= b + 1
  PROVE  /\ SubSeq(s, a, b) \in Seq(Nat) /\ Len(SubSeq(s, a, b)) = b - a + 1
         /\ \A i \in 1..(b - a + 1) : SubSeq(s, a, b)[i] = s[a + i - 1]
<1>1. Len(s) \in Nat
  BY LenProperties
<1>2. a \in Int /\ b \in Int /\ \A i \in a..b : s[i] \in Nat
  <2> SUFFICES ASSUME NEW i \in a..b PROVE s[i] \in Nat
    OBVIOUS
  <2>1. i \in 1..Len(s)
    BY <1>1
  <2> QED
    BY <2>1, ElementOfSeq
<1>3. /\ SubSeq(s, a, b) \in Seq(Nat)
      /\ Len(SubSeq(s, a, b)) = (IF a <= b THEN b - a + 1 ELSE 0)
      /\ \A i \in 1..(b - a + 1) : SubSeq(s, a, b)[i] = s[a + i - 1]
  BY <1>2, SubSeqProperties
<1> QED
  BY <1>3

(* Sequences of a length are the same when they have the same letters.      *)
LEMMA SameLetters ==
  ASSUME NEW x \in Seq(Nat), NEW y \in Seq(Nat), Len(x) = Len(y)
  PROVE  x = y <=> \A i \in 1..Len(x) : x[i] = y[i]
<1>1. (\A i \in 1..Len(x) : x[i] = y[i]) => x = y
  BY SeqEqual
<1> QED
  BY <1>1

(* The last letters of s are those t begins with.                          *)
Meets(s, t, n) ==
  n <= Len(s) /\ n <= Len(t) /\ \A i \in 1..n : s[Len(s) - n + i] = t[i]

(* An overlap is what their letters make it.                               *)
LEMMA OverlapsMeet ==
  ASSUME NEW said \in Seq(Nat), NEW more \in Seq(Nat), NEW j \in Nat
  PROVE  j \in Overlaps(said, more) <=> j # 0 /\ Meets(said, more, j)
<1>1. PICK n, m, one, p : n = Len(said) /\ m = Len(more) /\ one = 1 /\ p = n - j + 1
  OBVIOUS
<1>2. n \in Nat /\ m \in Nat
  BY <1>1, LenProperties
<1>3. ASSUME j <= n, j <= m
      PROVE  SubSeq(more, one, j) = SubSeq(said, p, n) <=> \A i \in 1..j : said[n - j + i] = more[i]
  <2>1. /\ one \in Nat /\ one >= 1 /\ one <= j + 1 /\ j <= Len(more)
        /\ p \in Nat /\ p >= 1 /\ p <= n + 1 /\ n <= Len(said)
        /\ j = j - one + 1 /\ j = n - p + 1
    BY <1>1, <1>2, <1>3
  <2>2. PICK x, y : x = SubSeq(more, one, j) /\ y = SubSeq(said, p, n)
    OBVIOUS
  <2>3. x \in Seq(Nat) /\ Len(x) = j /\ \A i \in 1..j : x[i] = more[one + i - 1]
    <3>1. /\ SubSeq(more, one, j) \in Seq(Nat) /\ Len(SubSeq(more, one, j)) = j - one + 1
          /\ \A i \in 1..(j - one + 1) : SubSeq(more, one, j)[i] = more[one + i - 1]
      BY ONLY more \in Seq(Nat), j \in Nat, <2>1, Part
    <3> QED
      BY <2>1, <2>2, <3>1
  <2>4. y \in Seq(Nat) /\ Len(y) = j /\ \A i \in 1..j : y[i] = said[p + i - 1]
    <3>1. /\ SubSeq(said, p, n) \in Seq(Nat) /\ Len(SubSeq(said, p, n)) = n - p + 1
          /\ \A i \in 1..(n - p + 1) : SubSeq(said, p, n)[i] = said[p + i - 1]
      BY ONLY said \in Seq(Nat), <1>2, <2>1, Part
    <3> QED
      BY <2>1, <2>2, <3>1
  <2>5. \A i \in 1..j : x[i] = more[i] /\ y[i] = said[n - j + i]
    <3> TAKE i \in 1..j
    <3>1. one + i - 1 = i /\ p + i - 1 = n - j + i
      BY <1>1, <1>2
    <3> QED
      BY <2>3, <2>4, <3>1
  <2>6. x = y <=> \A i \in 1..j : x[i] = y[i]
    BY <2>3, <2>4, SameLetters
  <2> QED
    BY <2>2, <2>5, <2>6
<1>4. j \in Overlaps(said, more)
        <=> j \in 1..m /\ j <= n /\ SubSeq(more, one, j) = SubSeq(said, p, n)
  BY <1>1 DEF Overlaps
<1>5. Meets(said, more, j) <=> j <= n /\ j <= m /\ \A i \in 1..j : said[n - j + i] = more[i]
  BY <1>1 DEF Meets
<1>6. CASE j <= n /\ j <= m
  <2>1. SubSeq(more, one, j) = SubSeq(said, p, n) <=> Meets(said, more, j)
    BY <1>3, <1>5, <1>6
  <2>2. j \in 1..m <=> j # 0
    BY <1>2, <1>6
  <2> QED
    BY <1>4, <1>6, <2>1, <2>2
<1>7. CASE ~(j <= n /\ j <= m)
  BY <1>2, <1>4, <1>5, <1>7
<1> QED
  BY <1>6, <1>7

(* What begins with all that was said overlaps with all of it.             *)
LEMMA PrefixMeets ==
  ASSUME NEW said \in Seq(Nat), NEW more \in Seq(Nat)
  PROVE  IsPrefix(said, more) <=> Meets(said, more, Len(said))
<1>1. PICK n, m, one : n = Len(said) /\ m = Len(more) /\ one = 1
  OBVIOUS
<1>2. n \in Nat /\ m \in Nat
  BY <1>1, LenProperties
<1>3. ASSUME n <= m
      PROVE  SubSeq(said, one, n) = SubSeq(more, one, n) <=> \A i \in 1..n : said[n - n + i] = more[i]
  <2>1. /\ one \in Nat /\ one >= 1 /\ one <= n + 1 /\ n <= Len(said) /\ n <= Len(more)
        /\ n = n - one + 1
    BY <1>1, <1>2, <1>3
  <2>2. PICK x, y : x = SubSeq(said, one, n) /\ y = SubSeq(more, one, n)
    OBVIOUS
  <2>3. x \in Seq(Nat) /\ Len(x) = n /\ \A i \in 1..n : x[i] = said[one + i - 1]
    <3>1. /\ SubSeq(said, one, n) \in Seq(Nat) /\ Len(SubSeq(said, one, n)) = n - one + 1
          /\ \A i \in 1..(n - one + 1) : SubSeq(said, one, n)[i] = said[one + i - 1]
      BY ONLY said \in Seq(Nat), <1>2, <2>1, Part
    <3> QED
      BY <2>1, <2>2, <3>1
  <2>4. y \in Seq(Nat) /\ Len(y) = n /\ \A i \in 1..n : y[i] = more[one + i - 1]
    <3>1. /\ SubSeq(more, one, n) \in Seq(Nat) /\ Len(SubSeq(more, one, n)) = n - one + 1
          /\ \A i \in 1..(n - one + 1) : SubSeq(more, one, n)[i] = more[one + i - 1]
      BY ONLY more \in Seq(Nat), <1>2, <2>1, Part
    <3> QED
      BY <2>1, <2>2, <3>1
  <2>5. \A i \in 1..n : x[i] = said[n - n + i] /\ y[i] = more[i]
    <3> TAKE i \in 1..n
    <3>1. one + i - 1 = i /\ n - n + i = i
      BY <1>1, <1>2
    <3> QED
      BY <2>3, <2>4, <3>1
  <2>6. x = y <=> \A i \in 1..n : x[i] = y[i]
    BY <2>3, <2>4, SameLetters
  <2> QED
    BY <2>2, <2>5, <2>6
<1>4. IsPrefix(said, more) <=> n <= m /\ SubSeq(said, one, n) = SubSeq(more, one, n)
  BY <1>1 DEF IsPrefix
<1> QED
  BY <1>1, <1>2, <1>3, <1>4 DEF Meets

(* The longest overlap is cut off.                                         *)
Cut(said, more, j) ==
  /\ j \in 0..Len(more) /\ Meets(said, more, j)
  /\ \A i \in Nat : Meets(said, more, i) => i <= j

(* There is a longest one.                                                 *)
LEMMA LongestCut ==
  ASSUME NEW said \in Seq(Nat), NEW more \in Seq(Nat)
  PROVE  \E j : Cut(said, more, j)
<1>1. PICK m : m = Len(more)
  OBVIOUS
<1>2. m \in Nat /\ Len(said) \in Nat
  BY <1>1, LenProperties
<1> DEFINE S == {k \in 0..m : Meets(said, more, m - k)}
<1>3. S \in SUBSET Nat
  BY <1>2
<1>4. Meets(said, more, 0)
  BY <1>1, <1>2 DEF Meets
<1>5. m \in S
  <2>1. m - m = 0 /\ m \in 0..m
    BY <1>2
  <2> QED
    BY <1>4, <2>1
<1>6. PICK k \in S : \A i \in S : k <= i
  BY <1>3, <1>5, Least
<1>7. ASSUME NEW i \in Nat, Meets(said, more, i) PROVE i <= m - k
  <2>1. i <= m
    BY <1>1, <1>7 DEF Meets
  <2>2. m - i \in 0..m /\ m - (m - i) = i
    BY <1>2, <2>1
  <2>3. m - i \in S
    BY <1>7, <2>2
  <2>4. k <= m - i /\ k \in Nat
    BY <1>3, <1>6, <2>3
  <2> QED
    BY <1>2, <2>4
<1>8. m - k \in 0..m /\ Meets(said, more, m - k)
  BY <1>2, <1>6
<1> QED
  BY <1>1, <1>7, <1>8 DEF Cut

(* continuation_suffix cuts the longest overlap off what came, by accident  *)
(* or not; what overlaps nowhere is taken whole if it is short, or dropped. *)
LEMMA SuffixCuts ==
  ASSUME NEW said \in Seq(Nat), NEW more \in Seq(Nat), NEW short \in BOOLEAN,
         NEW j, Cut(said, more, j)
  PROVE  \/ Suffix(said, more, short) = SubSeq(more, j + 1, Len(more))
         \/ Suffix(said, more, short) = <<>> /\ j = 0 /\ ~short
<1>1. PICK n, m, u, h : /\ n = Len(said) /\ m = Len(more) /\ u = Suffix(said, more, short)
                        /\ h = j + 1
  OBVIOUS
<1>2. n \in Nat /\ m \in Nat /\ j \in Nat /\ j <= m /\ h \in Nat
  BY <1>1, LenProperties DEF Cut
<1>3. CASE more = <<>>
  <2>1. u = <<>> /\ m = 0 /\ j = 0
    BY <1>1, <1>2, <1>3, EmptySeq DEF Suffix
  <2>2. SubSeq(more, h, m) = <<>>
    BY <1>1, <1>2, <2>1, SubSeqEmpty
  <2> QED
    BY <1>1, <2>1, <2>2
<1>4. CASE more # <<>> /\ IsPrefix(said, more)
  <2>1. Meets(said, more, n)
    BY <1>1, <1>4, PrefixMeets
  <2>2. j = n
    <3>1. n <= j
      BY <1>2, <2>1 DEF Cut
    <3>2. j <= n
      BY <1>1 DEF Cut, Meets
    <3> QED
      BY <1>2, <3>1, <3>2
  <2>3. u = SubSeq(more, n + 1, m)
    BY <1>1, <1>4 DEF Suffix
  <2> QED
    BY <1>1, <2>2, <2>3
<1>5. CASE more # <<>> /\ ~IsPrefix(said, more) /\ Overlaps(said, more) # {}
  <2>1. PICK i \in Overlaps(said, more) : TRUE
    BY <1>5
  <2>2. i \in Nat /\ i # 0 /\ Meets(said, more, i)
    <3>1. i \in 1..Len(more)
      BY <2>1 DEF Overlaps
    <3>2. i \in Nat
      BY <3>1, <1>1, <1>2
    <3> QED
      BY <2>1, <3>2, OverlapsMeet
  <2>3. j # 0
    BY <1>2, <2>2 DEF Cut
  <2>4. j \in Overlaps(said, more)
    BY <1>2, <2>3, OverlapsMeet DEF Cut
  <2>5. \A p \in Overlaps(said, more) : p \in Nat /\ p <= j
    <3> TAKE p \in Overlaps(said, more)
    <3>1. p \in 1..Len(more)
      BY DEF Overlaps
    <3>2. p \in Nat
      BY <3>1, <1>1, <1>2
    <3>3. Meets(said, more, p)
      BY <3>2, OverlapsMeet
    <3> QED
      BY <3>2, <3>3 DEF Cut
  <2>6. PICK c : c = (CHOOSE p \in Overlaps(said, more) : \A q \in Overlaps(said, more) : q <= p)
    OBVIOUS
  <2>7. c = j
    <3>1. c \in Overlaps(said, more) /\ \A q \in Overlaps(said, more) : q <= c
      BY <2>4, <2>5, <2>6
    <3> QED
      BY <1>2, <2>4, <2>5, <3>1
  <2>8. u = SubSeq(more, c + 1, m)
    BY <1>1, <1>5, <2>6 DEF Suffix
  <2> QED
    BY <1>1, <2>7, <2>8
<1>6. CASE more # <<>> /\ ~IsPrefix(said, more) /\ Overlaps(said, more) = {}
  <2>1. j = 0
    <3>1. j # 0 => j \in Overlaps(said, more)
      BY <1>2, OverlapsMeet DEF Cut
    <3> QED
      BY <1>6, <3>1
  <2>2. u = IF short THEN more ELSE <<>>
    BY <1>1, <1>6 DEF Suffix
  <2>3. SubSeq(more, 1, Len(more)) = more
    BY SubSeqFull
  <2> QED
    BY <1>1, <2>1, <2>2, <2>3
<1> QED
  BY <1>3, <1>4, <1>5, <1>6

(* The end of t is s.                                                      *)
EndsWith(t, s) ==
  Len(s) <= Len(t) /\ \A i \in 1..Len(s) : t[Len(t) - Len(s) + i] = s[i]

(* The letters of two sequences, one after the other.                      *)
LEMMA Joins ==
  ASSUME NEW s \in Seq(Nat), NEW t \in Seq(Nat)
  PROVE  /\ s \o t \in Seq(Nat) /\ Len(s \o t) = Len(s) + Len(t)
         /\ Len(s) \in Nat /\ Len(t) \in Nat
         /\ \A i \in 1..Len(s) : (s \o t)[i] = s[i]
         /\ \A i \in 1..Len(t) : (s \o t)[Len(s) + i] = t[i]
<1>1. Len(s) \in Nat /\ Len(t) \in Nat
  BY LenProperties
<1>2. /\ s \o t \in Seq(Nat) /\ Len(s \o t) = Len(s) + Len(t)
      /\ \A i \in 1..(Len(s) + Len(t)) : (s \o t)[i] = IF i <= Len(s) THEN s[i] ELSE t[i - Len(s)]
  BY ConcatProperties
<1>3. ASSUME NEW i \in 1..Len(s) PROVE (s \o t)[i] = s[i]
  <2>1. i \in 1..(Len(s) + Len(t)) /\ i <= Len(s)
    BY <1>1
  <2> QED
    BY <1>2, <2>1
<1>4. ASSUME NEW i \in 1..Len(t) PROVE (s \o t)[Len(s) + i] = t[i]
  <2>1. PICK k : k = Len(s) + i
    OBVIOUS
  <2>2. k \in 1..(Len(s) + Len(t)) /\ ~(k <= Len(s)) /\ k - Len(s) = i
    BY <1>1, <2>1
  <2> QED
    BY <1>2, <2>1, <2>2
<1> QED
  BY <1>1, <1>2, <1>3, <1>4

(* continuation_suffix makes the shortest text that begins with what was    *)
(* said and ends with what came, whatever letters the two have in common by *)
(* accident; only what has none, and is too long, is dropped instead.       *)
THEOREM SuffixShortest ==
  ASSUME NEW said \in Seq(Nat), NEW more \in Seq(Nat), NEW short \in BOOLEAN
  PROVE  \/ /\ IsPrefix(said, said \o Suffix(said, more, short))
            /\ EndsWith(said \o Suffix(said, more, short), more)
            /\ \A t \in Seq(Nat) : IsPrefix(said, t) /\ EndsWith(t, more) =>
                 Len(said \o Suffix(said, more, short)) <= Len(t)
         \/ Suffix(said, more, short) = <<>> /\ Overlaps(said, more) = {} /\ ~short
<1>1. PICK n, m, u, r : n = Len(said) /\ m = Len(more) /\ u = Suffix(said, more, short) /\ r = said \o u
  OBVIOUS
<1>2. n \in Nat /\ m \in Nat
  BY <1>1, LenProperties
<1>3. PICK j : Cut(said, more, j)
  BY LongestCut
<1>4. j \in 0..m /\ j \in Nat /\ j <= n /\ j <= m /\ \A i \in 1..j : said[n - j + i] = more[i]
  BY <1>1, <1>2, <1>3 DEF Cut, Meets
<1>5. CASE u = <<>> /\ j = 0 /\ ~short
  <2>1. ASSUME NEW i \in Overlaps(said, more) PROVE FALSE
    <3>1. i \in 1..Len(more)
      BY DEF Overlaps
    <3>2. i \in Nat
      BY <3>1, <1>1, <1>2
    <3>3. i # 0 /\ i <= j
      BY <1>3, <3>2, OverlapsMeet DEF Cut
    <3> QED
      BY <1>5, <3>2, <3>3
  <2> QED
    BY <1>1, <1>5, <2>1
<1>6. CASE u = SubSeq(more, j + 1, Len(more))
  <2>1. u \in Seq(Nat) /\ Len(u) = m - j /\ \A i \in 1..(m - j) : u[i] = more[j + i]
    <3>1. PICK h : h = j + 1
      OBVIOUS
    <3>2. h \in Nat /\ h >= 1 /\ m \in Nat /\ m <= Len(more) /\ h <= m + 1
      BY <1>1, <1>2, <1>4, <3>1
    <3>3. /\ SubSeq(more, h, m) \in Seq(Nat) /\ Len(SubSeq(more, h, m)) = m - h + 1
          /\ \A i \in 1..(m - h + 1) : SubSeq(more, h, m)[i] = more[h + i - 1]
      BY ONLY more \in Seq(Nat), <3>2, Part
    <3>4. m - h + 1 = m - j
      BY <1>2, <1>4, <3>1
    <3>5. ASSUME NEW i \in 1..(m - j) PROVE h + i - 1 = j + i
      <4>1. i \in Int /\ j \in Int
        BY <1>2, <1>4
      <4> QED
        BY <3>1, <4>1
    <3> QED
      BY <1>1, <1>6, <3>1, <3>3, <3>4, <3>5
  <2>2. /\ r \in Seq(Nat) /\ Len(r) = n + (m - j)
        /\ \A i \in 1..n : r[i] = said[i]
        /\ \A i \in 1..(m - j) : r[n + i] = u[i]
    BY <1>1, <2>1, Joins
  <2>3. IsPrefix(said, r)
    <3>1. n <= Len(r) /\ \A i \in 1..n : said[n - n + i] = r[i]
      <4>1. \A i \in 1..n : n - n + i = i
        BY <1>2
      <4> QED
        BY <1>2, <1>4, <2>2, <4>1
    <3>2. Meets(said, r, n)
      BY <1>1, <3>1 DEF Meets
    <3> QED
      BY <1>1, <2>2, <3>2, PrefixMeets
  <2>4. EndsWith(r, more)
    <3>1. m <= Len(r)
      BY <1>2, <1>4, <2>2
    <3>2. ASSUME NEW i \in 1..m PROVE r[Len(r) - m + i] = more[i]
      <4>1. PICK k : k = Len(r) - m + i
        OBVIOUS
      <4>2. k = n - j + i
        BY <1>2, <1>4, <2>2, <4>1
      <4>3. CASE i <= j
        <5>1. k \in 1..n /\ i \in 1..j
          BY <1>2, <1>4, <4>2, <4>3
        <5> QED
          BY <1>4, <2>2, <4>1, <4>2, <5>1
      <4>4. CASE i > j
        <5>1. PICK l : l = i - j
          OBVIOUS
        <5>2. l \in 1..(m - j) /\ k = n + l /\ j + l = i
          BY <1>2, <1>4, <4>2, <4>4, <5>1
        <5> QED
          BY <2>1, <2>2, <4>1, <5>2
      <4> QED
        BY <1>4, <4>3, <4>4
    <3> QED
      BY <1>1, <3>1, <3>2 DEF EndsWith
  <2>5. ASSUME NEW t \in Seq(Nat), IsPrefix(said, t), EndsWith(t, more)
        PROVE  Len(r) <= Len(t)
    <3> SUFFICES ASSUME Len(t) < Len(r) PROVE FALSE
      BY <2>2, LenProperties
    <3>1. PICK l, i : l = Len(t) /\ i = n + m - l
      OBVIOUS
    <3>2. l \in Nat /\ n <= l /\ \A k \in 1..n : said[k] = t[k]
      <4>1. Meets(said, t, n)
        BY <1>1, <2>5, PrefixMeets
      <4>2. \A k \in 1..n : n - n + k = k
        BY <1>2
      <4> QED
        BY <1>1, <3>1, <4>1, <4>2, LenProperties DEF Meets
    <3>3. m <= l /\ \A k \in 1..m : t[l - m + k] = more[k]
      BY <1>1, <2>5, <3>1 DEF EndsWith
    <3>4. i \in Nat /\ i <= n /\ i <= m /\ i > j /\ l - m = n - i
      <4>1. j \in Nat /\ j <= n /\ j <= m /\ l \in Nat /\ n <= l /\ m <= l /\ l < n + (m - j)
        BY <1>4, <2>2, <3>1, <3>2, <3>3
      <4> QED
        BY ONLY <1>2, <3>1, <4>1
    <3>5. \A k \in 1..i : said[n - i + k] = more[k]
      <4> TAKE k \in 1..i
      <4>1. PICK q : q = n - i + k
        OBVIOUS
      <4>2. q \in 1..n /\ k \in 1..m /\ l - m + k = q
        BY <1>2, <3>2, <3>4, <4>1
      <4> QED
        BY <3>2, <3>3, <4>1, <4>2
    <3>6. Meets(said, more, i)
      BY <1>1, <3>4, <3>5 DEF Meets
    <3> QED
      BY <1>3, <1>4, <3>4, <3>6 DEF Cut
  <2> QED
    BY <1>1, <2>3, <2>4, <2>5
<1> QED
  BY <1>1, <1>3, <1>5, <1>6, SuffixCuts

(* What comes says the text again from the letter after a on: no overlap of *)
(* the letters reaches further than that.                                  *)
NoAccident(said, more, a) == \A j \in Overlaps(said, more) : a + j <= Len(said)

(* continuation_suffix joins what the model means to say as it was meant,   *)
(* with nothing twice and nothing left out, where no accident of the letters *)
(* misleads it and the continuation does not break off before what was said; *)
(* or drops what comes, when it repeats nothing and is too long.            *)
THEOREM SuffixGood ==
  ASSUME NEW meant \in Seq(Nat), NEW a \in Nat, NEW n \in Nat, NEW b \in Nat,
         a <= n, n <= b, b <= Len(meant), NEW short \in BOOLEAN,
         NoAccident(SubSeq(meant, 1, n), SubSeq(meant, a + 1, b), a)
  PROVE  \/ Suffix(SubSeq(meant, 1, n), SubSeq(meant, a + 1, b), short) = SubSeq(meant, n + 1, b)
         \/ /\ Suffix(SubSeq(meant, 1, n), SubSeq(meant, a + 1, b), short) = <<>>
            /\ a = n /\ ~short
<1>1. PICK one, h, said, more, u : /\ one = 1 /\ h = a + 1 /\ said = SubSeq(meant, one, n)
                                   /\ more = SubSeq(meant, h, b) /\ u = Suffix(said, more, short)
  OBVIOUS
<1>2. /\ one \in Nat /\ one >= 1 /\ one <= n + 1 /\ h \in Nat /\ h >= 1 /\ h <= b + 1
      /\ n <= Len(meant) /\ n - one + 1 = n /\ b - h + 1 = b - a
  BY <1>1, LenProperties
<1>3. said \in Seq(Nat) /\ Len(said) = n /\ \A i \in 1..n : said[i] = meant[i]
  <2>1. /\ SubSeq(meant, one, n) \in Seq(Nat) /\ Len(SubSeq(meant, one, n)) = n - one + 1
        /\ \A i \in 1..(n - one + 1) : SubSeq(meant, one, n)[i] = meant[one + i - 1]
    BY ONLY meant \in Seq(Nat), n \in Nat, <1>2, Part
  <2>2. \A i \in 1..n : one + i - 1 = i
    BY <1>1
  <2> QED
    BY <1>1, <1>2, <2>1, <2>2
<1>4. more \in Seq(Nat) /\ Len(more) = b - a /\ \A i \in 1..(b - a) : more[i] = meant[a + i]
  <2>1. /\ SubSeq(meant, h, b) \in Seq(Nat) /\ Len(SubSeq(meant, h, b)) = b - h + 1
        /\ \A i \in 1..(b - h + 1) : SubSeq(meant, h, b)[i] = meant[h + i - 1]
    BY ONLY meant \in Seq(Nat), b \in Nat, b <= Len(meant), <1>2, Part
  <2>2. \A i \in 1..(b - a) : h + i - 1 = a + i
    BY <1>1
  <2> QED
    BY <1>1, <1>2, <2>1, <2>2
<1>5. PICK j : Cut(said, more, j)
  BY <1>3, <1>4, LongestCut
<1>6. j \in Nat /\ j <= b - a
  BY <1>4, <1>5 DEF Cut
<1>7. j = n - a
  <2>1. PICK d : d = n - a
    OBVIOUS
  <2>2. d \in Nat /\ d <= n /\ d <= b - a
    BY <2>1
  <2>3. \A i \in 1..d : said[n - d + i] = more[i]
    <3> TAKE i \in 1..d
    <3>1. PICK k : k = n - d + i
      OBVIOUS
    <3>2. k \in 1..n /\ k = a + i /\ i \in 1..(b - a)
      BY <2>1, <2>2, <3>1
    <3> QED
      BY <1>3, <1>4, <3>1, <3>2
  <2>4. Meets(said, more, d)
    BY <1>3, <1>4, <2>2, <2>3 DEF Meets
  <2>5. d <= j
    BY <1>5, <2>2, <2>4 DEF Cut
  <2>6. j # 0 => j \in Overlaps(said, more)
    BY <1>3, <1>4, <1>5, <1>6, OverlapsMeet DEF Cut
  <2>7. j # 0 => a + j <= n
    <3>1. NoAccident(said, more, a)
      BY <1>1
    <3> QED
      BY <1>3, <2>6, <3>1 DEF NoAccident
  <2> QED
    BY <1>6, <2>1, <2>2, <2>5, <2>7
<1>8. SubSeq(more, j + 1, Len(more)) = SubSeq(meant, n + 1, b)
  <2>1. PICK p, q, l, x, y : /\ p = j + 1 /\ q = n + 1 /\ l = b - n
                             /\ x = SubSeq(more, p, Len(more)) /\ y = SubSeq(meant, q, b)
    OBVIOUS
  <2>2. PICK m \in Nat : m = Len(more)
    BY <1>4, LenProperties
  <2>3. /\ p \in Nat /\ p >= 1 /\ p <= m + 1 /\ m <= Len(more) /\ q \in Nat /\ q >= 1 /\ q <= b + 1
        /\ m - p + 1 = l /\ b - q + 1 = l /\ l \in Nat
    BY <1>4, <1>6, <1>7, <2>1, <2>2
  <2>4. x \in Seq(Nat) /\ Len(x) = l /\ \A i \in 1..l : x[i] = more[p + i - 1]
    <3>1. /\ SubSeq(more, p, m) \in Seq(Nat) /\ Len(SubSeq(more, p, m)) = m - p + 1
          /\ \A i \in 1..(m - p + 1) : SubSeq(more, p, m)[i] = more[p + i - 1]
      BY ONLY <1>4, m \in Nat, <2>3, Part
    <3> QED
      BY <2>1, <2>2, <2>3, <3>1
  <2>5. y \in Seq(Nat) /\ Len(y) = l /\ \A i \in 1..l : y[i] = meant[q + i - 1]
    <3>1. /\ SubSeq(meant, q, b) \in Seq(Nat) /\ Len(SubSeq(meant, q, b)) = b - q + 1
          /\ \A i \in 1..(b - q + 1) : SubSeq(meant, q, b)[i] = meant[q + i - 1]
      BY ONLY meant \in Seq(Nat), b \in Nat, b <= Len(meant), <2>3, Part
    <3> QED
      BY <2>1, <2>3, <3>1
  <2>6. \A i \in 1..l : x[i] = y[i]
    <3> TAKE i \in 1..l
    <3>1. PICK k : k = p + i - 1
      OBVIOUS
    <3>2. k \in 1..(b - a) /\ a + k = q + i - 1
      BY <1>6, <1>7, <2>1, <2>3, <3>1
    <3> QED
      BY <1>4, <2>4, <2>5, <3>1, <3>2
  <2>7. x = y
    BY <2>4, <2>5, <2>6, SameLetters
  <2> QED
    BY <2>1, <2>7
<1>9. u = SubSeq(more, j + 1, Len(more)) \/ (u = <<>> /\ j = 0 /\ ~short)
  <2>1. said \in Seq(Nat) /\ more \in Seq(Nat) /\ short \in BOOLEAN /\ Cut(said, more, j)
    BY <1>3, <1>4, <1>5
  <2>2. \/ Suffix(said, more, short) = SubSeq(more, j + 1, Len(more))
        \/ Suffix(said, more, short) = <<>> /\ j = 0 /\ ~short
    BY ONLY <2>1, SuffixCuts
  <2> QED
    BY <1>1, <2>2
<1>10. u = SubSeq(meant, n + 1, b) \/ (u = <<>> /\ a = n /\ ~short)
  <2>1. j = 0 => a = n
    BY <1>7
  <2> QED
    BY <1>8, <1>9, <2>1
<1>11. u = Suffix(SubSeq(meant, 1, n), SubSeq(meant, a + 1, b), short)
  BY <1>1
<1> QED
  BY <1>10, <1>11

-----------------------------------------------------------------------------
(* What the model means to say.                                            *)

(* What is said is the beginning of it,                                    *)
Means(kind, said) == \E n \in 0..Len(Meant[kind]) : said = SubSeq(Meant[kind], 1, n)

(* for these kinds of blocks.                                              *)
InOrderSaid(kinds, blocks) == \A kind \in kinds : Means(kind, Spoken(blocks, kind))

(* It is letters.                                                          *)
LEMMA MeantTyped ==
  ASSUME NEW kind \in Kinds
  PROVE  Meant[kind] \in Seq(Nat) /\ Len(Meant[kind]) \in Nat
<1>1. Meant[kind] \in Seq(Nat)
  BY StreamAssumption
<1> QED
  BY <1>1, LenProperties

(* A part of it, and the next one.                                         *)
LEMMA MeansOn ==
  ASSUME NEW kind \in Kinds, NEW n \in Nat, NEW b \in Nat, n <= b, b <= Len(Meant[kind])
  PROVE  /\ SubSeq(Meant[kind], 1, n) \in Seq(Nat) /\ Len(SubSeq(Meant[kind], 1, n)) = n
         /\ SubSeq(Meant[kind], n + 1, b) \in Seq(Nat)
         /\ SubSeq(Meant[kind], 1, n) \o SubSeq(Meant[kind], n + 1, b) = SubSeq(Meant[kind], 1, b)
         /\ Means(kind, SubSeq(Meant[kind], 1, n) \o SubSeq(Meant[kind], n + 1, b))
<1>1. PICK s, one, m : s = Meant[kind] /\ one = 1 /\ m = n + 1
  OBVIOUS
<1>2. s \in Seq(Nat) /\ Len(s) \in Nat /\ b <= Len(s) /\ n <= Len(s)
  BY <1>1, MeantTyped
<1>3. /\ one \in Nat /\ one >= 1 /\ one <= n + 1 /\ m \in Nat /\ m >= 1 /\ m <= b + 1
      /\ n - one + 1 = n
  BY <1>1
<1>4. SubSeq(s, one, n) \in Seq(Nat) /\ Len(SubSeq(s, one, n)) = n - one + 1
  BY ONLY <1>2, <1>3, n \in Nat, Part
<1>5. SubSeq(s, m, b) \in Seq(Nat)
  BY ONLY <1>2, <1>3, b \in Nat, Part
<1>6. SubSeq(s, one, n) \o SubSeq(s, n + 1, b) = SubSeq(s, one, b)
  <2>1. one \in 1..Len(s) + 1 /\ n \in (one - 1)..Len(s) /\ b \in n..Len(s)
    BY <1>1, <1>2
  <2> QED
    BY ONLY <1>2, <2>1, ConcatAdjacentSubSeq
<1>7. b \in 0..Len(s)
  BY <1>2
<1> QED
  BY <1>1, <1>3, <1>4, <1>5, <1>6, <1>7 DEF Means

(* Who has said nothing has not said anything else.                        *)
LEMMA NothingMeans == InOrderSaid(Kinds, <<>>)
<1> SUFFICES ASSUME NEW kind \in Kinds PROVE Means(kind, Spoken(<<>>, kind))
  BY DEF InOrderSaid
<1>1. PICK zero, one, s : zero = 0 /\ one = 1 /\ s = Meant[kind]
  OBVIOUS
<1>2. zero \in 0..Len(s)
  BY <1>1, MeantTyped
<1>3. SubSeq(s, one, zero) = <<>>
  <2>1. one \in Int /\ zero \in Int /\ zero < one
    BY <1>1
  <2> QED
    BY ONLY <2>1, SubSeqEmpty
<1> QED
  BY <1>1, <1>2, <1>3, SpokenNothing DEF Means

(* What says the same means the same.                                      *)
LEMMA SameMeans ==
  ASSUME NEW kinds, kinds \subseteq Kinds, NEW a, NEW b, InOrderSaid(kinds, a),
         \A kind \in Kinds : Spoken(b, kind) = Spoken(a, kind)
  PROVE  InOrderSaid(kinds, b)
  BY DEF InOrderSaid

(* What means what the model does is a prefix of it.                       *)
LEMMA MeansPrefix ==
  ASSUME NEW kind \in Kinds, NEW said, Means(kind, said)
  PROVE  IsPrefix(said, Meant[kind])
<1>1. PICK n \in 0..Len(Meant[kind]) : said = SubSeq(Meant[kind], 1, n)
  BY DEF Means
<1>2. n \in Nat /\ n <= n /\ n <= Len(Meant[kind])
  BY <1>1, MeantTyped
<1>3. Len(said) = n /\ said \in Seq(Nat)
  BY <1>1, <1>2, MeansOn
<1>4. SubSeq(said, 1, Len(said)) = said
  BY <1>3, SubSeqFull
<1> QED
  BY <1>1, <1>2, <1>3, <1>4 DEF IsPrefix

(* What the model says next.                                               *)
LEMMA NextPiece ==
  ASSUME NEW kind \in Kinds, Means(kind, Spoken(out.blocks, kind)), Unsaid(kind) # <<>>
  PROVE  /\ <<Head(Unsaid(kind))>> \in Seq(Nat)
         /\ Means(kind, Spoken(out.blocks, kind) \o <<Head(Unsaid(kind))>>)
<1>0. PICK s : s = Meant[kind]
  OBVIOUS
<1>1. PICK n \in 0..Len(s) : Spoken(out.blocks, kind) = SubSeq(s, 1, n)
  BY <1>0 DEF Means
<1>2. s \in Seq(Nat) /\ Len(s) \in Nat /\ n \in Nat /\ n <= Len(s) /\ n <= n
  BY <1>0, <1>1, MeantTyped
<1>3. Len(Spoken(out.blocks, kind)) = n
  BY <1>0, <1>1, <1>2, MeansOn
<1>4. PICK m, l, rest : m = n + 1 /\ l = Len(s) /\ rest = SubSeq(s, m, l)
  OBVIOUS
<1>5. Unsaid(kind) = rest
  BY <1>0, <1>3, <1>4 DEF Unsaid
<1>6. /\ rest \in Seq(Nat) /\ Len(rest) = l - m + 1
      /\ \A i \in 1..(l - m + 1) : rest[i] = s[m + i - 1]
  <2>1. m \in Nat /\ m >= 1 /\ l \in Nat /\ l <= Len(s) /\ m <= l + 1
    BY <1>2, <1>4
  <2> QED
    BY ONLY <1>2, <1>4, <2>1, Part
<1>7. l - m + 1 # 0
  BY <1>5, <1>6, EmptySeq
<1>8. m <= l /\ Head(rest) = s[m] /\ s[m] \in Nat
  <2>1. PICK one : one = 1
    OBVIOUS
  <2>2. l - m + 1 \in Nat
    BY <1>6, LenProperties
  <2>3. one \in 1..(l - m + 1) /\ m + one - 1 = m /\ m <= l /\ m \in 1..Len(s)
    BY <1>2, <1>4, <1>7, <2>1, <2>2
  <2>4. Head(rest) = rest[one]
    BY <1>6, <2>1, HeadTailProperties
  <2>5. rest[one] = s[m]
    BY <1>6, <2>3
  <2>6. s[m] \in Nat
    BY <1>2, <2>3, ElementOfSeq
  <2> QED
    BY <2>3, <2>4, <2>5, <2>6
<1>9. <<s[m]>> = SubSeq(s, m, m)
  <2>1. PICK x : x = SubSeq(s, m, m)
    OBVIOUS
  <2>2. m \in Nat /\ m >= 1 /\ m <= Len(s) /\ m <= m + 1 /\ m - m + 1 = 1
    BY <1>2, <1>4, <1>8
  <2>3. x \in Seq(Nat) /\ Len(x) = m - m + 1 /\ \A i \in 1..(m - m + 1) : x[i] = s[m + i - 1]
    BY ONLY <1>2, <2>1, <2>2, Part
  <2>4. PICK one : one = 1
    OBVIOUS
  <2>5. one \in 1..(m - m + 1) /\ m + one - 1 = m
    BY <2>2, <2>4
  <2>6. Len(x) = 1 /\ x[1] = s[m]
    BY <2>2, <2>3, <2>4, <2>5
  <2>7. PICK y : y = <<s[m]>>
    OBVIOUS
  <2>8. y \in Seq(Nat) /\ Len(y) = 1 /\ y[1] = s[m]
    BY <1>8, <2>7
  <2>9. x = y
    <3>1. \A i \in 1..1 : x[i] = y[i]
      BY <2>6, <2>8
    <3> QED
      BY <2>3, <2>6, <2>8, <3>1, SameLetters
  <2> QED
    BY <2>1, <2>7, <2>9
<1>10. Means(kind, SubSeq(s, 1, n) \o SubSeq(s, n + 1, m))
  <2>1. m \in Nat /\ n <= m /\ m <= Len(s)
    BY <1>2, <1>4, <1>8
  <2> QED
    BY <1>0, <1>1, <1>2, <2>1, MeansOn
<1>11. SubSeq(s, n + 1, m) = <<Head(Unsaid(kind))>>
  <2>1. Head(Unsaid(kind)) = s[m]
    BY <1>5, <1>8
  <2> QED
    BY <1>4, <1>9, <2>1
<1>12. <<Head(Unsaid(kind))>> \in Seq(Nat)
  <2>1. PICK l1 : l1 = Head(Unsaid(kind))
    OBVIOUS
  <2>2. l1 \in Nat
    BY <1>5, <1>8, <2>1
  <2>3. <<l1>> \in Seq(Nat)
    BY <2>2
  <2> QED
    BY <2>1, <2>3
<1> QED
  BY <1>1, <1>10, <1>11, <1>12

(* What a model that was asked to go on says is joined to what it said: it  *)
(* goes on with what it means to say, unless its letters mislead.          *)
LEMMA JoinedGood ==
  ASSUME NEW kind \in Kinds, Means(kind, Spoken(out.blocks, kind)),
         NEW c \in Continuations(kind), NEW short \in BOOLEAN
  PROVE  /\ Joined(kind, Passage(kind, c), short) \in Seq(Nat)
         /\ ~Misleads(kind, c) =>
              Means(kind, Spoken(out.blocks, kind) \o Joined(kind, Passage(kind, c), short))
<1>0. PICK s : s = Meant[kind]
  OBVIOUS
<1>1. PICK n \in 0..Len(s) : Spoken(out.blocks, kind) = SubSeq(s, 1, n)
  BY <1>0 DEF Means
<1>2. s \in Seq(Nat) /\ Len(s) \in Nat /\ n \in Nat /\ n <= Len(s) /\ n <= n
  BY <1>0, <1>1, MeantTyped
<1>3. PICK said : said = Spoken(out.blocks, kind)
  OBVIOUS
<1>4. said = SubSeq(s, 1, n) /\ said \in Seq(Nat) /\ Len(said) = n
  BY <1>0, <1>1, <1>2, <1>3, MeansOn
<1>5. PICK a, b, h, more, u :
        /\ a = c.from /\ b = c.to /\ h = a + 1 /\ more = SubSeq(s, h, b)
        /\ u = Joined(kind, more, short)
  OBVIOUS
<1>6. a \in Nat /\ a <= n /\ b \in Nat /\ b <= Len(s) /\ a <= b /\ h \in Nat /\ h >= 1 /\ h <= b + 1
  BY <1>0, <1>2, <1>3, <1>4, <1>5 DEF Continuations
<1>7. more = Passage(kind, c) /\ u = Suffix(said, more, short)
  BY <1>0, <1>3, <1>5 DEF Passage, Joined
<1>8. more \in Seq(Nat) /\ Len(more) = b - h + 1
  BY ONLY <1>2, <1>5, <1>6, Part
<1>9. u \in Seq(Nat)
  <2>1. PICK j : Cut(said, more, j)
    BY <1>4, <1>8, LongestCut
  <2>2. u = SubSeq(more, j + 1, Len(more)) \/ u = <<>>
    BY ONLY <1>4, <1>7, <1>8, <2>1, SuffixCuts, short \in BOOLEAN
  <2>3. SubSeq(more, j + 1, Len(more)) \in Seq(Nat)
    <3>1. PICK k, l : k = j + 1 /\ l = Len(more)
      OBVIOUS
    <3>2. k \in Nat /\ k >= 1 /\ l \in Nat /\ l <= Len(more) /\ k <= l + 1
      BY <1>6, <1>8, <2>1, <3>1 DEF Cut
    <3>3. SubSeq(more, k, l) \in Seq(Nat)
      BY ONLY <1>8, <3>2, Part
    <3> QED
      BY <3>1, <3>3
  <2> QED
    BY <2>2, <2>3, EmptySeq
<1>10. ASSUME ~Misleads(kind, c) PROVE Means(kind, said \o u)
  <2>1. \/ a = b
        \/ n <= b /\ \A j \in Overlaps(said, more) : ~(a + j > n)
    <3>1. ~/\ c.from < c.to
           /\ \/ c.to < Len(Spoken(out.blocks, kind))
              \/ \E j \in Overlaps(Spoken(out.blocks, kind), Passage(kind, c)) :
                   c.from + j > Len(Spoken(out.blocks, kind))
      BY <1>10 DEF Misleads
    <3>2. ~(a < b /\ (b < n \/ \E j \in Overlaps(said, more) : a + j > n))
      BY <1>3, <1>4, <1>5, <1>7, <3>1
    <3>3. ~(a < b) => a = b
      BY <1>6
    <3>4. ~(b < n) => n <= b
      BY <1>2, <1>6
    <3> QED
      BY ONLY <3>2, <3>3, <3>4
  <2>2. ASSUME u = <<>> PROVE Means(kind, said \o u)
    <3>1. said \o <<>> = said
      BY <1>4, ConcatEmptySeq
    <3> QED
      BY <1>0, <1>1, <1>3, <2>2, <3>1 DEF Means
  <2>3. CASE a = b
    <3>1. more = <<>>
      <4>1. h \in Int /\ b \in Int /\ b < h
        BY <1>5, <1>6, <2>3
      <4> QED
        BY ONLY <1>5, <4>1, SubSeqEmpty
    <3>2. u = <<>>
      BY <1>7, <3>1 DEF Suffix
    <3> QED
      BY <2>2, <3>2
  <2>4. CASE n <= b /\ \A j \in Overlaps(said, more) : ~(a + j > n)
    <3>1. NoAccident(SubSeq(s, 1, n), SubSeq(s, a + 1, b), a)
      <4>1. \A j \in Overlaps(said, more) : j \in Nat
        BY DEF Overlaps
      <4>2. \A j \in Overlaps(said, more) : a + j <= n
        BY <1>2, <1>6, <2>4, <4>1
      <4>3. NoAccident(said, more, a)
        BY <1>4, <4>2 DEF NoAccident
      <4> QED
        BY <1>4, <1>5, <4>3
    <3>2. \/ Suffix(SubSeq(s, 1, n), SubSeq(s, a + 1, b), short) = SubSeq(s, n + 1, b)
          \/ /\ Suffix(SubSeq(s, 1, n), SubSeq(s, a + 1, b), short) = <<>>
             /\ a = n /\ ~short
      <4>1. n <= b
        BY <2>4
      <4>2. short \in BOOLEAN
        OBVIOUS
      <4> QED
        BY ONLY <1>2, <1>6, <3>1, <4>1, <4>2, SuffixGood
    <3>3. u = SubSeq(s, n + 1, b) \/ u = <<>>
      BY <1>4, <1>5, <1>7, <3>2
    <3>4. Means(kind, said \o SubSeq(s, n + 1, b))
      BY <1>0, <1>2, <1>4, <1>6, <2>4, MeansOn
    <3> QED
      BY <2>2, <3>3, <3>4
  <2> QED
    BY <2>1, <2>3, <2>4
<1>11. u = Joined(kind, Passage(kind, c), short)
  BY <1>5, <1>7
<1> QED
  BY <1>3, <1>9, <1>10, <1>11

(* The new reasoning is written, then the new text,                        *)
Thought(w, reasoning) ==
  IF reasoning = <<>> THEN w ELSE Say(EnsureReasoning(w), "reasoning", reasoning)

Worded(w, text) == IF text = <<>> THEN w ELSE Say(EnsureText(w), "text", text)

(* v is w, with the same calls, and has said some more of the kind.         *)
SaysMore(base, w, v, kind, more) ==
  /\ Good(base, v) /\ v.out.began = w.out.began /\ v.out.tools = w.out.tools
  /\ Spoken(v.out.blocks, kind) = Spoken(w.out.blocks, kind) \o more
  /\ \A k \in Kinds : k # kind => Spoken(v.out.blocks, k) = Spoken(w.out.blocks, k)

(* The reasoning of a continuation, without what is known already.         *)
LEMMA ThoughtGood ==
  ASSUME NEW base \in Outputs, NEW w, Good(base, w), Begun(w), NEW reasoning \in Seq(Nat)
  PROVE  SaysMore(base, w, Thought(w, reasoning), "reasoning", reasoning)
<1>1. PICK kind, e, v : /\ kind = "reasoning" /\ e = EnsureReasoning(w)
                        /\ v = Thought(w, reasoning)
  OBVIOUS
<1>2. CASE reasoning = <<>>
  <2>1. v = w
    BY <1>1, <1>2 DEF Thought
  <2>2. Spoken(w.out.blocks, kind) \o reasoning = Spoken(w.out.blocks, kind)
    BY <1>2, SpokenEmpty DEF Good
  <2> QED
    BY <1>1, <2>1, <2>2 DEF SaysMore
<1>3. CASE reasoning # <<>>
  <2>1. Carries(base, w, e) /\ e.out.reasoning # 0
    BY <1>1, EnsureReasoningGood DEF Begun
  <2>2. Good(base, e) /\ kind \in Kinds /\ Cursor(e.out, kind) # 0
    BY <1>1, <2>1 DEF Carries, Kinds, Cursor
  <2>4. v = Say(e, kind, reasoning)
    BY <1>1, <1>3 DEF Thought
  <2>5. base \in Outputs /\ reasoning \in Seq(Nat)
    OBVIOUS
  <2>6. /\ Good(base, v)
        /\ Spoken(v.out.blocks, kind) = Spoken(e.out.blocks, kind) \o reasoning
        /\ \A k \in Kinds : k # kind => Spoken(v.out.blocks, k) = Spoken(e.out.blocks, k)
        /\ v.out.began = e.out.began /\ v.out.tools = e.out.tools
    BY ONLY <2>2, <2>4, <2>5, SayGood
  <2>7. \A k \in Kinds : Spoken(e.out.blocks, k) = Spoken(w.out.blocks, k)
    BY <2>1 DEF Carries, SaidSame
  <2>8. SaysMore(base, w, v, kind, reasoning)
    BY <2>1, <2>2, <2>6, <2>7 DEF SaysMore, Carries
  <2> QED
    BY <1>1, <2>8
<1> QED
  BY <1>2, <1>3

(* The text of a continuation, without what is known already.              *)
LEMMA WordedGood ==
  ASSUME NEW base \in Outputs, NEW w, Good(base, w), Begun(w), NEW text \in Seq(Nat)
  PROVE  SaysMore(base, w, Worded(w, text), "text", text)
<1>1. PICK kind, e, v : /\ kind = "text" /\ e = EnsureText(w) /\ v = Worded(w, text)
  OBVIOUS
<1>2. CASE text = <<>>
  <2>1. v = w
    BY <1>1, <1>2 DEF Worded
  <2>2. Spoken(w.out.blocks, kind) \o text = Spoken(w.out.blocks, kind)
    BY <1>2, SpokenEmpty DEF Good
  <2> QED
    BY <1>1, <2>1, <2>2 DEF SaysMore
<1>3. CASE text # <<>>
  <2>1. Carries(base, w, e) /\ e.out.text # 0
    BY <1>1, EnsureTextGood DEF Begun
  <2>2. Good(base, e) /\ kind \in Kinds /\ Cursor(e.out, kind) # 0
    BY <1>1, <2>1 DEF Carries, Kinds, Cursor
  <2>4. v = Say(e, kind, text)
    BY <1>1, <1>3 DEF Worded
  <2>5. base \in Outputs /\ text \in Seq(Nat)
    OBVIOUS
  <2>6. /\ Good(base, v)
        /\ Spoken(v.out.blocks, kind) = Spoken(e.out.blocks, kind) \o text
        /\ \A k \in Kinds : k # kind => Spoken(v.out.blocks, k) = Spoken(e.out.blocks, k)
        /\ v.out.began = e.out.began /\ v.out.tools = e.out.tools
    BY ONLY <2>2, <2>4, <2>5, SayGood
  <2>7. \A k \in Kinds : Spoken(e.out.blocks, k) = Spoken(w.out.blocks, k)
    BY <2>1 DEF Carries, SaidSame
  <2>8. SaysMore(base, w, v, kind, text)
    BY <2>1, <2>2, <2>6, <2>7 DEF SaysMore, Carries
  <2> QED
    BY <1>1, <2>8
<1> QED
  BY <1>2, <1>3

(* and the first call, if the model was allowed to make one.                *)
NewCall(w, v, call) ==
  /\ ~call => v.out.tools = w.out.tools
  /\ call => Named(0, v.out.tools[0], 2) /\ \A t \in Tools : t # 0 => v.out.tools[t] = w.out.tools[t]

(* v has said the reasoning and the text after what w has.                  *)
SaysBoth(w, v, reasoning, text) ==
  /\ Spoken(v.out.blocks, "reasoning") = Spoken(w.out.blocks, "reasoning") \o reasoning
  /\ Spoken(v.out.blocks, "text") = Spoken(w.out.blocks, "text") \o text

(* There is a first call.                                                  *)
LEMMA FirstTool == 0 \in Tools
  BY OutputAssumption DEF Tools

(* The answer to a continuation: reasoning, text and a new call.           *)
LEMMA ContinuedGood ==
  ASSUME NEW base \in Outputs, NEW w, Good(base, w), Begun(w),
         NEW reasoning \in Seq(Nat), NEW text \in Seq(Nat),
         NEW call \in BOOLEAN, call => Unnamed(w.out.tools[0], 0)
  PROVE  /\ Good(base, Continued(w, reasoning, text, call))
         /\ Begun(Continued(w, reasoning, text, call))
         /\ NewCall(w, Continued(w, reasoning, text, call), call)
         /\ SaysBoth(w, Continued(w, reasoning, text, call), reasoning, text)
<1>1. PICK h, s, c, v : /\ h = Thought(w, reasoning) /\ s = Worded(h, text) /\ c = CloseContent(s)
                        /\ v = Continued(w, reasoning, text, call)
  OBVIOUS
<1>2. SaysMore(base, w, h, "reasoning", reasoning)
  BY <1>1, ThoughtGood
<1>3. Good(base, h) /\ Begun(h)
  BY <1>2 DEF SaysMore, Begun
<1>4. SaysMore(base, h, s, "text", text)
  BY <1>1, <1>3, WordedGood
<1>5. Good(base, s) /\ Begun(s) /\ s.out.tools = w.out.tools
  BY <1>2, <1>3, <1>4 DEF SaysMore, Begun
<1>b. SaysBoth(w, s, reasoning, text)
  BY <1>2, <1>4 DEF SaysMore, SaysBoth, Kinds
<1>6. CASE ~call
  <2>1. v = s
    BY <1>1, <1>6 DEF Continued, Thought, Worded
  <2> QED
    BY <1>1, <1>5, <1>b, <1>6, <2>1 DEF NewCall
<1>7. CASE call
  <2>1. PICK t, yes, n, m, whole : t = 0 /\ yes = TRUE /\ n = 0 /\ m = 2 /\ whole = Whole
    OBVIOUS
  <2>2. v = NativeCall(c, t, yes, whole)
    BY <1>1, <1>7, <2>1 DEF Continued, Thought, Worded
  <2>3. Carries(base, s, c)
    BY <1>1, <1>5, CloseContentGood
  <2>4. Good(base, c) /\ Begun(c) /\ c.out.tools = w.out.tools
    BY <1>5, <2>3 DEF Carries, Begun
  <2>5. Unnamed(c.out.tools[t], n)
    BY <1>7, <2>1, <2>4
  <2>6. Fit(n, whole, m)
    <3>1. Fit(0, Counted(m), m)
      BY <2>1, FitAll
    <3> QED
      BY <2>1, <3>1, CountedWhole
  <2>7. t \in Tools /\ yes \in BOOLEAN
    BY <2>1, FirstTool
  <2>8. /\ Touches(base, c, NativeCall(c, t, yes, whole), t)
        /\ Named(t, c.out.tools[t], n) \/ yes => Named(t, NativeCall(c, t, yes, whole).out.tools[t], m)
    BY ONLY <2>4, <2>5, <2>6, <2>7, base \in Outputs, NativeCallGood
  <2>9. Touches(base, c, v, t) /\ Named(t, v.out.tools[t], m)
    BY <2>1, <2>2, <2>8
  <2>10. NewCall(w, v, call)
    BY <1>7, <2>1, <2>4, <2>9 DEF NewCall, Touches
  <2>11. SaysBoth(w, v, reasoning, text)
    <3>1. SaidSame(s.out, c.out) /\ SaidSame(c.out, v.out)
      BY <2>3, <2>9 DEF Carries, Touches
    <3> QED
      BY <1>b, <3>1 DEF SaysBoth, SaidSame, Kinds
  <2> QED
    BY <1>1, <2>4, <2>9, <2>10, <2>11, TouchesGood
<1> QED
  BY <1>6, <1>7

-----------------------------------------------------------------------------
(* The runner.                                                             *)

(* What the client has read and what is held back for it make up what is    *)
(* written; nothing is held back once something has been let through.      *)
Answer ==
  /\ out \in Outputs /\ OutOK(out) /\ InOrderSaid(Kinds, out.blocks)
  /\ held \in Seq(Events) /\ client \in Clients
  /\ Read(client, held) = View(out)
  /\ committed => held = <<>>
  /\ ~committed => client = Nobody

(* Nothing is written: what the client knows stays.                        *)
LEMMA NothingGood ==
  ASSUME NEW o \in Outputs, OutOK(o)
  PROVE  Good(o, Nothing(o)) /\ Nothing(o).out = o /\ Nothing(o).events \in Seq(Events)
<1>1. PICK none, w : none = <<>> /\ w = Nothing(o)
  OBVIOUS
<1>2. w.out = o /\ w.events = none /\ w = [out |-> o, events |-> none]
  BY <1>1 DEF Nothing
<1>3. w \in Writes /\ none \in Seq(Events)
  BY <1>1, <1>2, EmptySeq DEF Writes
<1>4. Read(View(o), none) = View(o)
  BY <1>1, ViewTyped, ReadNothing
<1> QED
  BY <1>1, <1>2, <1>3, <1>4 DEF Good, Shown

(* Some events are told to the client: it reads them after what it knows.   *)
LEMMA TellsOn ==
  ASSUME Answer, NEW events \in Seq(Events)
  PROVE  Told(held \o events) = Read(View(out), events)
<1>1. Read(client, held \o events) = Read(Read(client, held), events)
  BY ReadOn DEF Answer
<1> QED
  BY <1>1 DEF Answer, Told, Read

(* What the client knows before the end.                                   *)
LEMMA ClientKnows ==
  ASSUME Answer
  PROVE  /\ client = View(out) \/ client = Nobody
         /\ committed => client = View(out)
         /\ client \in Clients /\ client.ok /\ ~client.ended
         /\ InOrderSaid(Kinds, client.blocks)
<1>1. CASE committed
  <2>1. client \in Clients /\ Read(client, <<>>) = View(out)
    BY <1>1 DEF Answer
  <2>2. client = View(out)
    BY <2>1, ReadNothing
  <2> QED
    BY <2>2, ViewTyped DEF Answer
<1>2. CASE ~committed
  <2>1. client = Nobody /\ client \in Clients
    BY <1>2 DEF Answer
  <2>2. client.ok /\ ~client.ended /\ client.blocks = <<>>
    BY <2>1 DEF Nobody
  <2>3. InOrderSaid(Kinds, client.blocks)
    BY <2>2, NothingMeans
  <2> QED
    BY <1>2, <2>1, <2>2, <2>3
<1> QED
  BY <1>1, <1>2

(* RecoveryHoldbackBuffer.push                                             *)
LEMMA PushKeeps ==
  ASSUME Answer, NEW w, Good(out, w), InOrderSaid(Kinds, w.out.blocks), Push(w)
  PROVE  Answer' /\ out' = w.out
<1>1. /\ out' = w.out
      /\ \/ committed /\ client' = Told(w.events) /\ UNCHANGED <<held, committed>>
         \/ ~committed /\ held' = held \o w.events /\ UNCHANGED <<committed, client>>
         \/ /\ ~committed /\ committed' = TRUE /\ held' = <<>>
            /\ client' = Told(held \o w.events)
  BY DEF Push
<1>2. /\ w.events \in Seq(Events) /\ w.out \in Outputs /\ OutOK(w.out)
      /\ Read(View(out), w.events) = View(w.out) /\ InOrderSaid(Kinds, w.out.blocks)
  BY WriteTyped DEF Good, Shown
<1>3. View(w.out) \in Clients /\ out \in Outputs /\ held \in Seq(Events) /\ client \in Clients
  BY <1>2, ViewTyped DEF Answer
<1>4. Read(View(w.out), <<>>) = View(w.out)
  BY <1>3, ReadNothing
<1>5. CASE committed /\ client' = Told(w.events) /\ UNCHANGED <<held, committed>>
  <2>1. held = <<>> /\ client = View(out)
    BY <1>5, ClientKnows DEF Answer
  <2>2. client' = View(w.out)
    BY <1>2, <1>5, <2>1 DEF Told, Read
  <2> QED
    BY <1>1, <1>2, <1>3, <1>4, <1>5, <2>1, <2>2 DEF Answer
<1>6. CASE ~committed /\ held' = held \o w.events /\ UNCHANGED <<committed, client>>
  <2>1. held' \in Seq(Events)
    BY <1>2, <1>3, <1>6, ConcatProperties
  <2>2. Read(client, held \o w.events) = View(w.out)
    BY <1>2, TellsOn DEF Told, Read
  <2> QED
    BY <1>1, <1>2, <1>3, <1>6, <2>1, <2>2 DEF Answer
<1>7. CASE ~committed /\ committed' = TRUE /\ held' = <<>> /\ client' = Told(held \o w.events)
  <2>1. client' = View(w.out)
    BY <1>2, <1>7, TellsOn
  <2>2. held' \in Seq(Events)
    BY <1>7, EmptySeq
  <2> QED
    BY <1>1, <1>2, <1>3, <1>4, <1>7, <2>1, <2>2 DEF Answer
<1> QED
  BY <1>1, <1>5, <1>6, <1>7

-----------------------------------------------------------------------------
(* How an answer ends.                                                     *)

(* Every call the client, or the output, has is whole.                     *)
WholeCalls(blocks) ==
  \A b \in DOMAIN blocks : blocks[b].kind = "tool" => blocks[b].data = Whole

CallsWhole(o) == \A t \in Tools : o.tools[t].started => o.tools[t].args = Whole

(* The client when the answer has ended.                                   *)
Over ==
  /\ client \in Clients /\ client.ok /\ InOrderSaid(Kinds \ astray, client.blocks)
  /\ client.ended <=> pc = "done"
  /\ pc \in {"done", "failed"} => AllClosed(client.blocks)
  /\ pc = "done" /\ mend.error # "none" => WholeCalls(client.blocks)

(* A failure that ends the answer.                                         *)
LEMMA FailureEnds ==
  ASSUME Answer, NEW salvageable, FinalError(salvageable)
  PROVE  pc' = "failed" /\ Over'
<1>1. /\ pc' = "failed"
      /\ \/ LetThrough(CloseUnclosed(Nothing(out)))
         \/ ~committed /\ UNCHANGED client
  BY DEF FinalError
<1>2. CASE LetThrough(CloseUnclosed(Nothing(out)))
  <2>1. PICK w : w = CloseUnclosed(Nothing(out))
    OBVIOUS
  <2>2. w.events \in Seq(Events) /\ Shutdown(out, Read(View(out), w.events))
    BY <2>1, CloseUnclosedGood DEF Answer
  <2>3. client' = Read(View(out), w.events)
    BY <1>2, <2>1, <2>2, TellsOn DEF LetThrough
  <2>4. Shutdown(out, client')
    BY <2>2, <2>3
  <2>5. InOrderSaid(Kinds, client'.blocks)
    <3>1. InOrderSaid(Kinds, out.blocks) /\ Kinds \subseteq Kinds
      BY DEF Answer
    <3> QED
      BY <2>4, <3>1, SameMeans DEF Shutdown
  <2>6. InOrderSaid(Kinds \ astray', client'.blocks)
    BY <2>5 DEF InOrderSaid
  <2> QED
    BY <1>1, <2>4, <2>6 DEF Shutdown, Over
<1>3. CASE ~committed /\ UNCHANGED client
  <2>1. client \in Clients /\ client.ok /\ ~client.ended /\ InOrderSaid(Kinds, client.blocks)
    BY ClientKnows
  <2>3. InOrderSaid(Kinds \ astray', client'.blocks)
    BY <1>3, <2>1 DEF InOrderSaid
  <2>2. AllClosed(client.blocks)
    BY <1>3 DEF Answer, Nobody, AllClosed
  <2> QED
    BY <1>1, <1>3, <2>1, <2>2, <2>3 DEF Over
<1> QED
  BY <1>1, <1>2, <1>3

(* finish_success, after an answer or what mends it.                       *)
LEMMA SuccessEnds ==
  ASSUME Answer, NEW w, Good(out, w), Begun(w), LetThrough(FinishSuccess(w)), pc' = "done",
         mend'.error = "none" \/ CallsWhole(w.out), InOrderSaid(Kinds \ astray', w.out.blocks)
  PROVE  Over'
<1>1. PICK f : f = FinishSuccess(w)
  OBVIOUS
<1>2. f.events \in Seq(Events) /\ Finished(w, Read(View(out), f.events))
  BY <1>1, FinishGood DEF Answer
<1>3. client' = Read(View(out), f.events)
  BY <1>1, <1>2, TellsOn DEF LetThrough
<1>4. Finished(w, client')
  BY <1>2, <1>3
<1>5. CallsWhole(w.out) => WholeCalls(client'.blocks)
  BY <1>4 DEF Finished, CallsWhole, WholeCalls
<1>6. InOrderSaid(Kinds \ astray', client'.blocks)
  <2>1. Kinds \ astray' \subseteq Kinds
    OBVIOUS
  <2> QED
    BY <1>4, <2>1, SameMeans DEF Finished
<1> QED
  BY <1>4, <1>5, <1>6 DEF Finished, Over

-----------------------------------------------------------------------------
(* Chunks.                                                                 *)

(* A call is what the upstream has sent of it.                             *)
AsSentOf(t, x, u) ==
  /\ t < u.texttools => TextDone(x)
  /\ t >= u.texttools /\ t \in u.named => Named(t, x, u.sent[t])
  /\ t >= u.texttools /\ t \notin u.named => Unnamed(x, u.sent[t]) /\ (x.known => u.sent[t] # 0)

(* Every call is as the upstream has sent it.                              *)
AsSent(tools, u) ==
  /\ u.texttools \in Nat
  /\ \A t \in Tools : u.sent[t] \in 0..2
  /\ u.texttools > 0 => \A t \in Tools : u.sent[t] = 0 /\ t \notin u.named
  /\ \A t \in Tools : AsSentOf(t, tools[t], u)

(* What is held back or not, a call that is closed is whole, what is held   *)
(* back is of an open call, and one that is not known has nothing.         *)
LEMMA AsSentCalls ==
  ASSUME NEW t \in Tools, NEW x, NEW u, u.texttools \in Nat, u.sent[t] \in 0..2, AsSentOf(t, x, u)
  PROVE  /\ PartOrWhole(x)
         /\ x.held # <<>> => x.open
         /\ ~x.known => Unnamed(x, 0)
<1>1. t \in Nat
  BY DEF Tools
<1>0. Counted(0) = <<>> /\ Counted(2) = Whole
  BY CountedWhole
<1>2. CASE t < u.texttools
  BY <1>0, <1>1, <1>2 DEF AsSentOf, TextDone, PartOrWhole
<1>3. CASE t >= u.texttools /\ t \in u.named
  <2>1. PICK n \in 0..2 : n = u.sent[t]
    OBVIOUS
  <2>2. Named(t, x, n)
    BY <1>3, <2>1 DEF AsSentOf
  <2>3. x.args = <<>> \/ x.args = Counted(n)
    BY <2>2 DEF Named
  <2>4. \E k \in 0..2 : x.args = Counted(k)
    BY <1>0, <2>3
  <2> QED
    BY <2>2, <2>4 DEF Named, PartOrWhole
<1>4. CASE t >= u.texttools /\ t \notin u.named
  <2>1. PICK n \in 0..2 : n = u.sent[t]
    OBVIOUS
  <2>2. Unnamed(x, n)
    BY <1>4, <2>1 DEF AsSentOf
  <2>3. ~x.known => n = 0
    BY <2>2 DEF Unnamed
  <2> QED
    BY <1>0, <2>2, <2>3 DEF Unnamed, PartOrWhole
<1> QED
  BY <1>1, <1>2, <1>3, <1>4

(* No native call has come.                                                *)
NoNative(u) == \A t \in Tools : t \notin u.named /\ u.sent[t] = 0

(* The number of calls written as text is the index of the next.           *)
LEMMA NextTextIndex ==
  ASSUME NEW o, NEW u, AsSent(o.tools, u), TextIndex(o) \in Tools,
         NoNative(u)
  PROVE  TextIndex(o) = u.texttools
<1>1. PICK k, S : k \in Nat /\ k = u.texttools /\ S = {t \in Tools : o.tools[t].known}
  BY DEF AsSent
<1>2. MaxTools \in Nat /\ MaxTools # 0 /\ Tools = 0..(MaxTools - 1)
  BY OutputAssumption DEF Tools
<1>3. \A t \in Tools : o.tools[t].known <=> t < k
  <2> TAKE t \in Tools
  <2>1. AsSentOf(t, o.tools[t], u) /\ t \notin u.named /\ u.sent[t] = 0 /\ t \in Nat
    BY <1>2 DEF AsSent, NoNative
  <2>2. t < k => o.tools[t].known
    BY <1>1, <2>1 DEF AsSentOf, TextDone
  <2>3. t >= k => ~o.tools[t].known
    BY <1>1, <2>1 DEF AsSentOf
  <2> QED
    BY <1>1, <2>1, <2>2, <2>3
<1>4. Cardinality(S) \in Tools
  BY <1>1 DEF TextIndex
<1>5. CASE k > MaxTools
  <2>1. S = 0..(MaxTools - 1)
    BY <1>1, <1>2, <1>3, <1>5
  <2>2. PICK a, b : a = 0 /\ b = MaxTools - 1
    OBVIOUS
  <2>3. Cardinality(a..b) = MaxTools
    BY <1>2, <2>2, FS_Interval
  <2> QED
    BY <1>2, <1>4, <2>1, <2>2, <2>3
<1>6. CASE k <= MaxTools
  <2>1. S = 0..(k - 1)
    BY <1>1, <1>2, <1>3, <1>6
  <2>2. PICK a, b : a = 0 /\ b = k - 1
    OBVIOUS
  <2>3. a \in Int /\ b \in Int
    BY <1>1, <2>2
  <2>4. Cardinality(a..b) = (IF a > b THEN 0 ELSE b - a + 1)
    BY <2>3, FS_Interval
  <2>5. Cardinality(a..b) = k
    BY <1>1, <2>2, <2>4
  <2> QED
    BY <1>1, <2>1, <2>2, <2>5 DEF TextIndex
<1> QED
  BY <1>1, <1>2, <1>5, <1>6

(* A step writes w: the calls are, with what has come, as they were sent.   *)
Chunked(w, u) ==
  Good(out, w) /\ Begun(w) /\ AsSent(w.out.tools, u) /\ InOrderSaid(Kinds, w.out.blocks)

(* A step that says nothing leaves what was said in order.                 *)
LEMMA SaysNothing ==
  ASSUME Answer, NEW w, \A k \in Kinds : Spoken(w.out.blocks, k) = Spoken(out.blocks, k)
  PROVE  InOrderSaid(Kinds, w.out.blocks)
  BY SameMeans DEF Answer

(* What is written when a chunk comes.                                     *)
LEMMA ChunkBegins ==
  ASSUME Answer
  PROVE  /\ Good(out, Began(Nothing(out))) /\ Begun(Began(Nothing(out)))
         /\ Began(Nothing(out)).out.tools = out.tools
         /\ Began(Nothing(out)).out.blocks = out.blocks
<1>1. PICK w : w = Nothing(out)
  OBVIOUS
<1>2. Good(out, w) /\ w.out = out
  BY <1>1, NothingGood DEF Answer
<1>3. out \in Outputs
  BY DEF Answer
<1> QED
  BY <1>1, <1>2, <1>3, BeganGood DEF Begun

(* A chunk of text.                                                        *)
LEMMA TextGood ==
  ASSUME Answer, Unsaid("text") # <<>>
  PROVE  LET w == Say(EnsureText(Began(Nothing(out))), "text", <<Head(Unsaid("text"))>>)
         IN  Good(out, w) /\ Begun(w) /\ w.out.tools = out.tools
             /\ InOrderSaid(Kinds, w.out.blocks)
<1>1. PICK kind, b, e, data, w : /\ kind = "text" /\ b = Began(Nothing(out)) /\ e = EnsureText(b)
                                 /\ data = <<Head(Unsaid(kind))>>
                                 /\ w = Say(e, kind, data)
  OBVIOUS
<1>2. Good(out, b) /\ Begun(b) /\ b.out.tools = out.tools /\ b.out.blocks = out.blocks
  BY <1>1, ChunkBegins
<1>3. out \in Outputs /\ OutOK(out) /\ kind \in Kinds /\ InOrderSaid(Kinds, out.blocks)
  BY <1>1 DEF Answer, Kinds
<1>4. Carries(out, b, e) /\ e.out.text # 0
  BY <1>1, <1>2, <1>3, EnsureTextGood DEF Begun
<1>5. Good(out, e) /\ Cursor(e.out, kind) # 0 
      /\ \A k \in Kinds : Spoken(e.out.blocks, k) = Spoken(out.blocks, k)
  BY <1>1, <1>2, <1>3, <1>4 DEF Carries, Cursor, SaidSame
<1>6. data \in Seq(Nat) /\ Means(kind, Spoken(out.blocks, kind) \o data)
  BY <1>1, <1>3, NextPiece DEF InOrderSaid
<1>8. /\ Good(out, w) /\ w.out.began = e.out.began /\ w.out.tools = e.out.tools
      /\ Spoken(w.out.blocks, kind) = Spoken(e.out.blocks, kind) \o data
      /\ \A k \in Kinds : k # kind => Spoken(w.out.blocks, k) = Spoken(e.out.blocks, k)
  <2>1. w = Say(e, kind, data)
    BY <1>1
  <2> QED
    BY ONLY <1>3, <1>5, <1>6, <2>1, SayGood
<1>9. InOrderSaid(Kinds, w.out.blocks)
  <2> SUFFICES ASSUME NEW k \in Kinds PROVE Means(k, Spoken(w.out.blocks, k))
    BY DEF InOrderSaid
  <2>1. CASE k = kind
    BY <1>3, <1>5, <1>6, <1>8, <2>1
  <2>2. CASE k # kind
    <3>1. Spoken(w.out.blocks, k) = Spoken(out.blocks, k)
      BY <1>5, <1>8, <2>2
    <3> QED
      BY <1>3, <3>1 DEF InOrderSaid
  <2> QED
    BY <2>1, <2>2
<1> QED
  BY <1>1, <1>2, <1>4, <1>8, <1>9 DEF Carries, Begun

(* A chunk of reasoning.                                                   *)
LEMMA ReasoningGood ==
  ASSUME Answer, Unsaid("reasoning") # <<>>
  PROVE  LET w == Say(EnsureReasoning(Began(Nothing(out))), "reasoning",
                      <<Head(Unsaid("reasoning"))>>)
         IN  Good(out, w) /\ Begun(w) /\ w.out.tools = out.tools
             /\ InOrderSaid(Kinds, w.out.blocks)
<1>1. PICK kind, b, e, data, w : /\ kind = "reasoning" /\ b = Began(Nothing(out)) /\ e = EnsureReasoning(b)
                                 /\ data = <<Head(Unsaid(kind))>>
                                 /\ w = Say(e, kind, data)
  OBVIOUS
<1>2. Good(out, b) /\ Begun(b) /\ b.out.tools = out.tools /\ b.out.blocks = out.blocks
  BY <1>1, ChunkBegins
<1>3. out \in Outputs /\ OutOK(out) /\ kind \in Kinds /\ InOrderSaid(Kinds, out.blocks)
  BY <1>1 DEF Answer, Kinds
<1>4. Carries(out, b, e) /\ e.out.reasoning # 0
  BY <1>1, <1>2, <1>3, EnsureReasoningGood DEF Begun
<1>5. Good(out, e) /\ Cursor(e.out, kind) # 0 
      /\ \A k \in Kinds : Spoken(e.out.blocks, k) = Spoken(out.blocks, k)
  BY <1>1, <1>2, <1>3, <1>4 DEF Carries, Cursor, SaidSame
<1>6. data \in Seq(Nat) /\ Means(kind, Spoken(out.blocks, kind) \o data)
  BY <1>1, <1>3, NextPiece DEF InOrderSaid
<1>8. /\ Good(out, w) /\ w.out.began = e.out.began /\ w.out.tools = e.out.tools
      /\ Spoken(w.out.blocks, kind) = Spoken(e.out.blocks, kind) \o data
      /\ \A k \in Kinds : k # kind => Spoken(w.out.blocks, k) = Spoken(e.out.blocks, k)
  <2>1. w = Say(e, kind, data)
    BY <1>1
  <2> QED
    BY ONLY <1>3, <1>5, <1>6, <2>1, SayGood
<1>9. InOrderSaid(Kinds, w.out.blocks)
  <2> SUFFICES ASSUME NEW k \in Kinds PROVE Means(k, Spoken(w.out.blocks, k))
    BY DEF InOrderSaid
  <2>1. CASE k = kind
    BY <1>3, <1>5, <1>6, <1>8, <2>1
  <2>2. CASE k # kind
    <3>1. Spoken(w.out.blocks, k) = Spoken(out.blocks, k)
      BY <1>5, <1>8, <2>2
    <3> QED
      BY <1>3, <3>1 DEF InOrderSaid
  <2> QED
    BY <2>1, <2>2
<1> QED
  BY <1>1, <1>2, <1>4, <1>8, <1>9 DEF Carries, Begun

(* A call written as text.                                                 *)
LEMMA TextToolGood ==
  ASSUME Answer, AsSent(out.tools, up), TextIndex(out) \in Tools, NoNative(up),
         NEW u, u.texttools = up.texttools + 1, u.sent = up.sent, u.named = up.named
  PROVE  Chunked(TextCall(Began(Nothing(out))), u)
<1>1. PICK b, t, w : b = Began(Nothing(out)) /\ t = TextIndex(out) /\ w = TextCall(b)
  OBVIOUS
<1>2. Good(out, b) /\ Begun(b) /\ b.out.tools = out.tools /\ b.out.blocks = out.blocks
  BY <1>1, ChunkBegins
<1>3. t \in Tools /\ t = up.texttools /\ up.texttools \in Nat
  <2>1. AsSent(out.tools, up) /\ TextIndex(out) \in Tools /\ NoNative(up)
    OBVIOUS
  <2>2. TextIndex(out) = up.texttools
    BY ONLY <2>1, NextTextIndex
  <2> QED
    BY <1>1, <2>2 DEF AsSent
<1>4. TextIndex(b.out) = t
  BY <1>1, <1>2 DEF TextIndex
<1>5. Unnamed(b.out.tools[t], 0)
  <2>1. AsSentOf(t, out.tools[t], up) /\ up.sent[t] = 0 /\ t \notin up.named
    BY <1>3 DEF AsSent, NoNative
  <2>2. t >= up.texttools
    BY <1>3
  <2> QED
    BY <1>2, <2>1, <2>2 DEF AsSentOf
<1>6. /\ Good(out, w) /\ w.out.began = b.out.began /\ SaidSame(b.out, w.out)
      /\ \A s \in Tools : s # t => w.out.tools[s] = b.out.tools[s]
      /\ TextDone(w.out.tools[t])
  <2>1. out \in Outputs
    BY DEF Answer
  <2> QED
    BY <1>1, <1>2, <1>3, <1>4, <1>5, <2>1, TextCallGood
<1>7. AsSent(w.out.tools, u)
  <2>1. u.texttools \in Nat /\ \A s \in Tools : u.sent[s] \in 0..2 /\ u.sent[s] = 0 /\ s \notin u.named
    BY <1>3 DEF NoNative
  <2>2. ASSUME NEW s \in Tools PROVE AsSentOf(s, w.out.tools[s], u)
    <3>0. s \in Nat /\ t \in Nat
      BY <1>3 DEF Tools
    <3>1. CASE s = t
      <4>1. s < u.texttools /\ ~(s >= u.texttools)
        BY <1>3, <3>0, <3>1
      <4> QED
        BY <1>6, <3>1, <4>1 DEF AsSentOf
    <3>2. CASE s # t
      <4>1. w.out.tools[s] = out.tools[s] /\ AsSentOf(s, out.tools[s], up)
        BY <1>2, <1>6, <3>2 DEF AsSent
      <4>2. (s < u.texttools <=> s < up.texttools) /\ (s >= u.texttools => s >= up.texttools)
        BY <1>3, <3>0, <3>2
      <4> QED
        BY <4>1, <4>2 DEF AsSentOf
    <3> QED
      BY <3>1, <3>2
  <2> QED
    BY <2>1, <2>2 DEF AsSent
<1>8. InOrderSaid(Kinds, w.out.blocks)
  BY <1>2, <1>6, SaysNothing DEF SaidSame
<1> QED
  BY <1>1, <1>2, <1>6, <1>7, <1>8 DEF Chunked, Begun

(* What comes of a native call: its name, a piece of its arguments, or both. *)
SentMore(v, u, t, name, piece) ==
  /\ u.texttools = v.texttools
  /\ u.sent[t] = IF piece THEN v.sent[t] + 1 ELSE v.sent[t]
  /\ t \in u.named <=> t \in v.named \/ name
  /\ \A s \in Tools : s # t => u.sent[s] = v.sent[s] /\ (s \in u.named <=> s \in v.named)

(* A chunk of a native call, its name or a piece of its arguments.         *)
LEMMA NativeGood ==
  ASSUME Answer, AsSent(out.tools, up), up.texttools = 0, NEW t \in Tools,
         NEW name \in BOOLEAN, NEW piece \in BOOLEAN, name \/ piece,
         name => t \notin up.named, piece => up.sent[t] < Len(Whole),
         NEW u, SentMore(up, u, t, name, piece)
  PROVE  Chunked(NativeCall(CloseContent(Began(Nothing(out))), t, name,
                            IF piece THEN <<up.sent[t] + 1>> ELSE <<>>), u)
<1>1. PICK b, c, data, n, m, w :
        /\ b = Began(Nothing(out)) /\ c = CloseContent(b)
        /\ data = (IF piece THEN <<up.sent[t] + 1>> ELSE <<>>)
        /\ n = up.sent[t] /\ m = u.sent[t] /\ w = NativeCall(c, t, name, data)
  OBVIOUS
<1>2. out \in Outputs
  BY DEF Answer
<1>3. Good(out, b) /\ Begun(b) /\ b.out.tools = out.tools /\ b.out.blocks = out.blocks
  BY <1>1, ChunkBegins
<1>4. Good(out, c) /\ Begun(c) /\ c.out.tools = out.tools /\ SaidSame(b.out, c.out)
  BY <1>1, <1>2, <1>3, CloseContentGood DEF Carries, Begun
<1>5. AsSentOf(t, out.tools[t], up) /\ n \in 0..2 /\ t \in Nat /\ t >= up.texttools
  BY <1>1 DEF AsSent, Tools
<1>6. Fit(n, data, m) /\ m \in 0..2 /\ (piece => m # 0)
  <2>1. CASE piece
    <3>1. n \in 0..1 /\ m = n + 1 /\ data = <<n + 1>>
      <4>1. Len(Whole) = 2
        BY DEF Whole
      <4> QED
        BY <1>1, <1>5, <2>1, <4>1 DEF SentMore
    <3> QED
      BY <3>1, FitOne
  <2>2. CASE ~piece
    <3>1. data = <<>> /\ m = n
      BY <1>1, <2>2 DEF SentMore
    <3> QED
      BY <1>5, <2>2, <3>1, FitNothing
  <2> QED
    BY <2>1, <2>2
<1>7. /\ t \in up.named => Named(t, out.tools[t], n)
      /\ t \notin up.named => Unnamed(out.tools[t], n)
  BY <1>1, <1>5 DEF AsSentOf
<1>8. /\ Touches(out, c, w, t)
      /\ Named(t, out.tools[t], n) \/ name => Named(t, w.out.tools[t], m)
      /\ Unnamed(out.tools[t], n) /\ ~name => Unnamed(w.out.tools[t], m)
  <2>1. Named(t, c.out.tools[t], n) \/ Unnamed(c.out.tools[t], n)
    BY <1>4, <1>7
  <2>2. t \in Tools /\ name \in BOOLEAN /\ Good(out, c) /\ Begun(c)
    BY <1>4
  <2>3. /\ Touches(out, c, NativeCall(c, t, name, data), t)
        /\ Named(t, c.out.tools[t], n) \/ name => Named(t, NativeCall(c, t, name, data).out.tools[t], m)
        /\ Unnamed(c.out.tools[t], n) /\ ~name => Unnamed(NativeCall(c, t, name, data).out.tools[t], m)
    BY ONLY <1>2, <1>6, <2>1, <2>2, NativeCallGood
  <2> QED
    BY <1>1, <1>4, <2>3
<1>9. AsSentOf(t, w.out.tools[t], u)
  <2>1. u.texttools = 0 /\ ~(t < u.texttools)
    BY <1>5 DEF SentMore
  <2>2. t \in u.named => Named(t, w.out.tools[t], m)
    BY <1>7, <1>8 DEF SentMore
  <2>3. t \notin u.named => Unnamed(w.out.tools[t], m) /\ m # 0
    BY <1>6, <1>7, <1>8 DEF SentMore
  <2> QED
    BY <1>1, <2>1, <2>2, <2>3 DEF AsSentOf
<1>10. AsSent(w.out.tools, u)
  <2>1. ASSUME NEW s \in Tools PROVE u.sent[s] \in 0..2 /\ AsSentOf(s, w.out.tools[s], u)
    <3>1. CASE s = t
      BY <1>1, <1>6, <1>9, <3>1
    <3>2. CASE s # t
      <4>1. /\ w.out.tools[s] = out.tools[s] /\ AsSentOf(s, out.tools[s], up) /\ up.sent[s] \in 0..2
            /\ u.sent[s] = up.sent[s] /\ (s \in u.named <=> s \in up.named)
            /\ u.texttools = up.texttools
        BY <1>4, <1>8, <3>2 DEF AsSent, Touches, SentMore
      <4> QED
        BY <4>1 DEF AsSentOf
    <3> QED
      BY <3>1, <3>2
  <2>2. u.texttools = 0
    BY DEF SentMore
  <2> QED
    BY <2>1, <2>2 DEF AsSent
<1>11. Good(out, w) /\ Begun(w)
  BY <1>4, <1>8, TouchesGood
<1>12. InOrderSaid(Kinds, w.out.blocks)
  <2>1. SaidSame(c.out, w.out)
    BY <1>8 DEF Touches
  <2> QED
    BY <1>3, <1>4, <2>1, SaysNothing DEF SaidSame
<1> QED
  BY <1>1, <1>10, <1>11, <1>12 DEF Chunked

-----------------------------------------------------------------------------
(* The invariant of the runner.                                            *)

(* Nothing is known of any call.                                           *)
Unmade(o) == \A t \in Tools : Unnamed(o.tools[t], 0)

(* A mend: what failed, and how many requests it has made.                 *)
Mends == [error : {"none", "transient", "protocol"}, call : Nat]

(* The answer is under way: nothing is mended yet before a failure; what is *)
(* open is as the upstream has sent it; and what is to be mended has some   *)
(* output, and no call that is closed before it is whole.                  *)
Under ==
  /\ Answer /\ mend \in Mends
  /\ pc \in {"create", "stream"} => mend.error = "none"
  /\ pc = "create" => out = Fresh
  /\ pc = "stream" => AsSent(out.tools, up) /\ (up.finish => out.began)
  /\ pc \in {"mend", "asking"} => StoppedWhole(out) /\ HasOutput(out)
  /\ pc \in {"mend", "asking"} /\ mend.error = "protocol" => Unmade(out)

(* The invariant: what is known while the answer goes on, and what the     *)
(* client has when it has ended.                                           *)
StreamInv == Control /\ (pc \in Live => Under) /\ (pc \in Ended => Over)

(* A new attempt's output is in order, and a client that has read nothing  *)
(* knows it.                                                               *)
LEMMA FreshGood ==
  /\ Fresh \in Outputs /\ OutOK(Fresh) /\ InOrderSaid(Kinds, Fresh.blocks) /\ View(Fresh) = Nobody /\ Nobody \in Clients
  /\ AsSent(Fresh.tools, Silence)
<1>1. PICK o, none : o = Fresh /\ none = <<>>
  OBVIOUS
<1>2. /\ o.blocks = none /\ o.text = 0 /\ o.reasoning = 0 /\ o.began = FALSE
      /\ o.tools = [t \in Tools |-> NoTool]
      /\ o = [began |-> FALSE, blocks |-> none, text |-> 0, reasoning |-> 0, tools |-> o.tools]
  BY <1>1 DEF Fresh
<1>3. none \in Seq(Blocks) /\ none \in Seq(Nat) /\ Len(none) = 0 /\ DOMAIN none = 1..0
  BY <1>1, EmptySeq, LenProperties
<1>4. /\ NoTool \in ToolStates /\ ~NoTool.known /\ ~NoTool.named /\ ~NoTool.started /\ ~NoTool.open
      /\ NoTool.args = none /\ NoTool.held = none /\ NoTool.early = none
  BY <1>1, <1>3 DEF NoTool, ToolStates
<1>5. o \in Outputs
  <2>1. PICK tools : tools = o.tools
    OBVIOUS
  <2>2. tools \in [Tools -> ToolStates]
    BY <1>2, <1>4, <2>1
  <2>3. o = [began |-> FALSE, blocks |-> none, text |-> 0, reasoning |-> 0, tools |-> tools]
    BY <1>2, <2>1
  <2> QED
    BY ONLY <1>3, <2>2, <2>3 DEF Outputs
<1>6. \A t \in Tools : o.tools[t] = NoTool
  BY <1>2
<1>7. CursorsWrite(o) /\ ToolsWrite(o) /\ OneToolEach(o) /\ Owned(o)
  <2>1. CursorsWrite(o)
    BY <1>2 DEF CursorsWrite, Cursor
  <2>2. ToolsWrite(o) /\ OneToolEach(o)
    BY <1>4, <1>6 DEF ToolsWrite, OneToolEach
  <2>3. Owned(o)
    BY <1>2, <1>3 DEF Owned
  <2> QED
    BY <2>1, <2>2, <2>3
<1>8. InOrderSaid(Kinds, o.blocks)
  BY <1>1, <1>2, NothingMeans
<1>9. OutOK(o)
  BY <1>1, <1>2, <1>7 DEF OutOK
<1>10. View(o) = Nobody
  BY <1>1, <1>2 DEF View, Nobody
<1>11. View(o) \in Clients
  BY <1>5, ViewTyped
<1>12. AsSent(o.tools, Silence)
  <2>1. /\ Silence.texttools = 0 /\ Silence.named = {}
        /\ \A t \in Tools : Silence.sent[t] = 0
    BY DEF Silence
  <2>2. \A t \in Tools : AsSentOf(t, o.tools[t], Silence)
    <3> TAKE t \in Tools
    <3>1. t \in Nat /\ ~(t < Silence.texttools)
      BY <2>1 DEF Tools
    <3>2. Unnamed(NoTool, 0)
      BY <1>1, <1>4, CountedWhole DEF Unnamed
    <3> QED
      BY <1>4, <1>6, <2>1, <3>1, <3>2 DEF AsSentOf
  <2> QED
    BY <2>1, <2>2 DEF AsSent
<1> QED
  BY <1>1, <1>5, <1>8, <1>9, <1>10, <1>11, <1>12

(* A new epoch, or the first.                                              *)
LEMMA FreshAnswer ==
  ASSUME out = Fresh, held = <<>>, client = Nobody
  PROVE  Answer
<1>1. Read(Nobody, <<>>) = Nobody
  BY FreshGood, ReadNothing
<1>2. held \in Seq(Events)
  BY EmptySeq
<1> QED
  BY <1>1, <1>2, FreshGood DEF Answer

(* The invariant holds of an answer that starts.                           *)
LEMMA StreamInit == Init => StreamInv
<1> SUFFICES ASSUME Init PROVE StreamInv
  OBVIOUS
<1>1. pc = "create" /\ out = Fresh /\ mend = NoMend /\ Answer
  BY FreshAnswer DEF Init
<1>2. mend \in Mends /\ mend.error = "none"
  BY <1>1 DEF NoMend, Mends
<1>3. Control
  BY ControlInit
<1> QED
  BY <1>1, <1>2, <1>3 DEF StreamInv, Under, Live, Ended

(* An attempt dropped before the client saw it is started anew.            *)
LEMMA RestartKeeps ==
  ASSUME Answer, ~committed, Restart
  PROVE  pc' = "create" /\ out' = Fresh /\ Answer'
<1>1. pc' = "create" /\ out' = Fresh /\ held' = <<>> /\ client' = Nobody
  BY DEF Restart, Answer
<1>2. Read(Nobody, <<>>) = Nobody
  BY FreshGood, ReadNothing
<1>3. held' \in Seq(Events)
  BY <1>1, EmptySeq
<1>4. committed' = committed
  BY DEF Restart
<1> QED
  BY <1>1, <1>2, <1>3, <1>4, FreshGood DEF Answer

(* An attempt is created, or its creation fails.                           *)
LEMMA CreateKeeps ==
  ASSUME pc = "create", Under, Create \/ CreateFails
  PROVE  \/ pc' \in {"create", "stream"} /\ Under'
         \/ pc' = "failed" /\ Over'
<1>1. Answer /\ mend \in Mends /\ mend.error = "none" /\ out = Fresh
  BY DEF Under
<1>2. UNCHANGED <<out, held, committed, client, mend>>
  BY DEF Create, CreateFails
<1>3. Answer' /\ mend' \in Mends /\ mend'.error = "none" /\ out' = Fresh
  BY <1>1, <1>2 DEF Answer
<1>4. CASE Create
  <2>1. pc' = "stream" /\ up' = Silence
    BY <1>4 DEF Create
  <2>2. AsSent(Fresh.tools, Silence) /\ ~Silence.finish
    BY FreshGood DEF Silence
  <2> QED
    BY <1>3, <2>1, <2>2 DEF Under
<1>5. CASE CreateFails
  <2>1. pc' = "create" \/ pc' = "failed"
    BY <1>5 DEF CreateFails
  <2>2. CASE pc' = "create"
    BY <1>3, <2>2 DEF Under
  <2>3. CASE pc' = "failed"
    <3>1. client' \in Clients /\ client'.ok /\ ~client'.ended /\ InOrderSaid(Kinds, client'.blocks)
      BY <1>1, <1>2, ClientKnows
    <3>3. InOrderSaid(Kinds \ astray', client'.blocks)
      BY <3>1 DEF InOrderSaid
    <3>2. AllClosed(client'.blocks)
      <4>1. client'.blocks = <<>>
        BY <1>1, <1>2, ClientKnows, FreshGood DEF Nobody
      <4> QED
        BY <4>1 DEF AllClosed
    <3> QED
      BY <2>3, <3>1, <3>2, <3>3 DEF Over
  <2> QED
    BY <2>1, <2>2, <2>3
<1> QED
  BY <1>4, <1>5

(* A chunk.                                                                *)
LEMMA ChunkKeeps ==
  ASSUME ~Mixed, Control, pc = "stream", Under, Chunk
  PROVE  pc' = "stream" /\ Under'
<1>1. /\ Answer /\ mend \in Mends /\ mend.error = "none" /\ AsSent(out.tools, up)
      /\ pc' = "stream" /\ mend' = mend
      /\ up \in [chunks : 0..MaxChunks, finish : BOOLEAN, sent : [Tools -> Nat],
                 named : SUBSET Tools, texttools : Nat]
      /\ ~up.finish
  BY DEF Under, Chunk, Control
<1>2. ASSUME NEW w, Chunked(w, up'), Push(w) PROVE Under'
  <2>1. Answer /\ Good(out, w) /\ Push(w) /\ InOrderSaid(Kinds, w.out.blocks)
    BY <1>1, <1>2 DEF Chunked
  <2>2. Answer' /\ out' = w.out
    BY ONLY <2>1, PushKeeps
  <2> QED
    BY <1>1, <1>2, <2>2 DEF Under, Chunked, Begun
<1>3. ASSUME NEW w, Good(out, w), Begun(w), w.out.tools = out.tools, InOrderSaid(Kinds, w.out.blocks),
             up'.sent = up.sent, up'.named = up.named, up'.texttools = up.texttools
      PROVE  Chunked(w, up')
  BY <1>1, <1>3 DEF Chunked, AsSent, AsSentOf
<1>4. CASE Text
  <2>1. PICK w : w = Say(EnsureText(Began(Nothing(out))), "text", <<Head(Unsaid("text"))>>)
    OBVIOUS
  <2>2. Push(w) /\ up' = [up EXCEPT !.chunks = @ + 1] /\ Unsaid("text") # <<>>
    BY <1>4, <2>1 DEF Text
  <2>3. Good(out, w) /\ Begun(w) /\ w.out.tools = out.tools /\ InOrderSaid(Kinds, w.out.blocks)
    BY <1>1, <2>1, <2>2, TextGood
  <2>4. up'.sent = up.sent /\ up'.named = up.named /\ up'.texttools = up.texttools
    BY <1>1, <2>2
  <2> QED
    BY <1>1, <1>2, <1>3, <2>2, <2>3, <2>4
<1>5. CASE Reasoning
  <2>1. PICK w : w = Say(EnsureReasoning(Began(Nothing(out))), "reasoning",
                         <<Head(Unsaid("reasoning"))>>)
    OBVIOUS
  <2>2. Push(w) /\ up' = [up EXCEPT !.chunks = @ + 1] /\ Unsaid("reasoning") # <<>>
    BY <1>5, <2>1 DEF Reasoning
  <2>3. Good(out, w) /\ Begun(w) /\ w.out.tools = out.tools /\ InOrderSaid(Kinds, w.out.blocks)
    BY <1>1, <2>1, <2>2, ReasoningGood
  <2>4. up'.sent = up.sent /\ up'.named = up.named /\ up'.texttools = up.texttools
    BY <1>1, <2>2
  <2> QED
    BY <1>1, <1>2, <1>3, <2>2, <2>3, <2>4
<1>6. CASE FinishReason
  <2>1. PICK w : w = Began(Nothing(out))
    OBVIOUS
  <2>2. Push(w) /\ up' = [up EXCEPT !.finish = TRUE]
    BY <1>6, <2>1 DEF FinishReason
  <2>3. Good(out, w) /\ Begun(w) /\ w.out.tools = out.tools /\ InOrderSaid(Kinds, w.out.blocks)
    <3>1. Good(out, w) /\ Begun(w) /\ w.out.tools = out.tools /\ w.out.blocks = out.blocks
      BY <1>1, <2>1, ChunkBegins
    <3> QED
      BY <1>1, <3>1, SaysNothing
  <2>4. up'.sent = up.sent /\ up'.named = up.named /\ up'.texttools = up.texttools
    BY <1>1, <2>2
  <2> QED
    BY <1>1, <1>2, <1>3, <2>2, <2>3, <2>4
<1>7. CASE TextTool
  <2>1. PICK w : w = TextCall(Began(Nothing(out)))
    OBVIOUS
  <2>2. /\ Push(w) /\ up' = [up EXCEPT !.chunks = @ + 1, !.texttools = @ + 1]
        /\ TextIndex(out) \in Tools /\ NoNative(up)
    BY <1>7, <2>1 DEF TextTool, NoNative
  <2>3. up'.sent = up.sent /\ up'.named = up.named /\ up'.texttools = up.texttools + 1
    BY <1>1, <2>2
  <2>4. Chunked(w, up')
    BY <1>1, <2>1, <2>2, <2>3, TextToolGood
  <2> QED
    BY <1>1, <1>2, <2>2, <2>4
<1>8. ASSUME NEW t \in Tools, NEW name \in BOOLEAN, NEW piece \in BOOLEAN, Native(t, name, piece)
      PROVE  Under'
  <2>1. PICK w, u : /\ w = NativeCall(CloseContent(Began(Nothing(out))), t, name,
                                      IF piece THEN <<up.sent[t] + 1>> ELSE <<>>)
                    /\ u = up'
    OBVIOUS
  <2>2. /\ (name \/ piece) /\ (name => t \notin up.named) /\ (piece => up.sent[t] < Len(Whole))
        /\ up.texttools = 0
        /\ up' = [up EXCEPT !.chunks = @ + 1,
                            !.named = IF name THEN @ \union {t} ELSE @,
                            !.sent[t] = IF piece THEN @ + 1 ELSE @]
        /\ Push(w)
    BY <1>8, <2>1 DEF Native
  <2>3. SentMore(up, u, t, name, piece)
    <3>1. /\ u.named = IF name THEN up.named \union {t} ELSE up.named
          /\ u.sent = [up.sent EXCEPT ![t] = IF piece THEN @ + 1 ELSE @]
          /\ u.texttools = up.texttools
      BY <1>1, <2>1, <2>2
    <3> QED
      BY <1>1, <3>1 DEF SentMore
  <2>4. name \/ piece
    BY <1>8 DEF Native
  <2>5. Chunked(w, u)
    <3>1. Answer /\ AsSent(out.tools, up) /\ t \in Tools /\ name \in BOOLEAN /\ piece \in BOOLEAN
      BY <1>1
    <3>2. /\ up.texttools = 0 /\ (name => t \notin up.named) /\ (piece => up.sent[t] < Len(Whole))
      BY <1>8 DEF Native
    <3> QED
      BY ONLY <2>1, <2>3, <2>4, <3>1, <3>2, NativeGood
  <2> QED
    BY <1>2, <2>1, <2>2, <2>5
<1>9. Text \/ Reasoning \/ TextTool \/ FinishReason \/ \E t \in Tools, name, piece \in BOOLEAN : Native(t, name, piece)
  BY DEF Chunk
<1> QED
  BY <1>1, <1>4, <1>5, <1>6, <1>7, <1>8, <1>9

(* The end of the upstream.                                                *)
LEMMA EndKeeps ==
  ASSUME pc = "stream", Under, EndUpstream
  PROVE  pc' = "done" /\ Over'
<1>1. /\ Answer /\ mend.error = "none" /\ AsSent(out.tools, up) /\ out.began
      /\ LetThrough(FinishSuccess(Completed(Nothing(out)))) /\ pc' = "done" /\ mend' = mend
  BY DEF Under, EndUpstream
<1>2. PICK w, v : w = Nothing(out) /\ v = Completed(w)
  OBVIOUS
<1>3. out \in Outputs /\ Good(out, w) /\ w.out = out
  BY <1>1, <1>2, NothingGood DEF Answer
<1>4. HeldOpen(out)
  <2> SUFFICES ASSUME NEW t \in Tools, out.tools[t].held # <<>> PROVE out.tools[t].open
    BY DEF HeldOpen
  <2>1. up.texttools \in Nat /\ up.sent[t] \in 0..2 /\ AsSentOf(t, out.tools[t], up)
    BY <1>1 DEF AsSent
  <2> QED
    BY <2>1, AsSentCalls
<1>5. Good(out, v) /\ Begun(v) /\ SaidSame(w.out, v.out)
  BY <1>1, <1>2, <1>3, <1>4, CompletedGood DEF Begun
<1>7. InOrderSaid(Kinds \ astray', v.out.blocks)
  <2>1. InOrderSaid(Kinds, v.out.blocks)
    BY <1>1, <1>3, <1>5, SaysNothing DEF SaidSame
  <2> QED
    BY <2>1 DEF InOrderSaid
<1>6. LetThrough(FinishSuccess(v))
  BY <1>1, <1>2
<1> QED
  BY <1>1, <1>5, <1>6, <1>7, SuccessEnds

(* The attempt fails: the answer begins anew, is to be mended, or ends.      *)
LEMMA FailKeeps ==
  ASSUME pc = "stream", Under, StreamFails
  PROVE  \/ pc' \in {"create", "mend"} /\ Under'
         \/ pc' = "failed" /\ Over'
<1>1. Answer /\ mend \in Mends /\ mend.error = "none" /\ AsSent(out.tools, up)
  BY DEF Under
<1>2. ASSUME RetryEarly \/ RetryAuthentication PROVE pc' = "create" /\ Under'
  <2>1. Restart /\ ~committed /\ mend' = mend
    BY <1>2 DEF RetryEarly, RetryAuthentication, MayRetry
  <2>2. pc' = "create" /\ out' = Fresh /\ Answer'
    BY <1>1, <2>1, RestartKeeps
  <2> QED
    BY <1>1, <2>1, <2>2 DEF Under
<1>3. ASSUME NEW error \in {"transient", "protocol"}, BeginMend(error),
             error = "protocol" => \A t \in Tools : ~out.tools[t].known
      PROVE  pc' = "mend" /\ Under'
  <2>1. /\ pc' = "mend" /\ mend' = [error |-> error, call |-> 0] /\ HasOutput(out)
        /\ UNCHANGED <<out, held, committed, client>>
    BY <1>3 DEF BeginMend, MayMend
  <2>2. \A t \in Tools : PartOrWhole(out.tools[t]) /\ (~out.tools[t].known => Unnamed(out.tools[t], 0))
    <3> TAKE t \in Tools
    <3>1. up.texttools \in Nat /\ up.sent[t] \in 0..2 /\ AsSentOf(t, out.tools[t], up)
      BY <1>1 DEF AsSent
    <3> QED
      BY <3>1, AsSentCalls
  <2>3. StoppedWhole(out) /\ (error = "protocol" => Unmade(out))
    BY <1>3, <2>2 DEF StoppedWhole, Unmade
  <2>4. Answer' /\ StoppedWhole(out') /\ HasOutput(out') /\ (error = "protocol" => Unmade(out'))
    BY <1>1, <2>1, <2>3 DEF Answer
  <2>5. mend' \in Mends /\ mend'.error = error
    BY <2>1 DEF Mends
  <2> QED
    BY <2>1, <2>4, <2>5 DEF Under
<1>4. ASSUME FinalError(Salvageable(out)) PROVE pc' = "failed" /\ Over'
  <2>1. PICK s : s = Salvageable(out)
    OBVIOUS
  <2>2. FinalError(s)
    BY <1>4, <2>1
  <2> QED
    BY <1>1, <2>2, FailureEnds
<1>5. \/ \E error \in {"transient", "protocol"} :
           /\ error = "protocol" => ~\E t \in Tools : out.tools[t].known
           /\ RetryEarly \/ BeginMend(error) \/ FinalError(Salvageable(out))
      \/ FinalError(Salvageable(out))
      \/ RetryAuthentication
  BY DEF StreamFails
<1>6. CASE \E error \in {"transient", "protocol"} :
             /\ error = "protocol" => ~\E t \in Tools : out.tools[t].known
             /\ RetryEarly \/ BeginMend(error) \/ FinalError(Salvageable(out))
  <2>1. PICK error \in {"transient", "protocol"} :
             /\ error = "protocol" => ~\E t \in Tools : out.tools[t].known
             /\ RetryEarly \/ BeginMend(error) \/ FinalError(Salvageable(out))
    BY <1>6
  <2>2. error = "protocol" => \A t \in Tools : ~out.tools[t].known
    BY <2>1
  <2> QED
    BY <1>2, <1>3, <1>4, <2>1, <2>2
<1> QED
  BY <1>2, <1>4, <1>5, <1>6

(* A mend that succeeds, and one that is given up.                         *)
LEMMA MendEnds ==
  ASSUME Answer, NEW w, Good(out, w), Begun(w), CallsWhole(w.out), Mend(w),
         InOrderSaid(Kinds \ astray', w.out.blocks)
  PROVE  pc' = "done" /\ Over'
<1>1. LetThrough(FinishSuccess(w)) /\ pc' = "done"
  BY DEF Mend
<1> QED
  BY <1>1, SuccessEnds

(* An answer that is given up ends with all blocks closed.                 *)
LEMMA GivesUp ==
  ASSUME Answer, GiveUp
  PROVE  pc' = "failed" /\ Over'
<1>1. PICK s : s = FALSE
  OBVIOUS
<1>2. FinalError(s)
  BY <1>1 DEF GiveUp
<1> QED
  BY <1>2, FailureEnds

(* What a mend starts from.                                                *)
LEMMA MendStarts ==
  ASSUME pc \in {"mend", "asking"}, Under
  PROVE  /\ Answer /\ mend \in Mends /\ StoppedWhole(out) /\ HasOutput(out)
         /\ mend.error = "protocol" => Unmade(out)
         /\ out \in Outputs /\ OutOK(out) /\ Good(out, Nothing(out)) /\ Begun(Nothing(out))
         /\ Nothing(out).out = out
<1>1. /\ Answer /\ mend \in Mends /\ StoppedWhole(out) /\ HasOutput(out)
      /\ mend.error = "protocol" => Unmade(out)
  BY DEF Under
<1>2. out \in Outputs /\ OutOK(out) /\ out.began
  BY <1>1 DEF Answer, OutOK, HasOutput
<1>3. PICK w : w = Nothing(out)
  OBVIOUS
<1>4. Good(out, w) /\ w.out = out
  BY <1>2, <1>3, NothingGood
<1> QED
  BY <1>1, <1>2, <1>3, <1>4 DEF Begun

(* What is to be mended stays as it is while it is asked for.               *)
LEMMA MendStays ==
  ASSUME pc \in {"mend", "asking"}, Under, pc' \in {"mend", "asking"},
         UNCHANGED <<out, held, committed, client>>, mend' \in Mends, mend'.error = mend.error
  PROVE  Under'
<1>1. /\ Answer /\ StoppedWhole(out) /\ HasOutput(out) /\ (mend.error = "protocol" => Unmade(out))
  BY MendStarts
<1>2. Answer' /\ StoppedWhole(out') /\ HasOutput(out') /\ (mend'.error = "protocol" => Unmade(out'))
  BY <1>1 DEF Answer
<1> QED
  BY <1>2 DEF Under

(* An answer whose calls can all be completed ends with every call whole.  *)
LEMMA SalvageKeeps ==
  ASSUME pc = "mend", Under, Salvage
  PROVE  pc' = "done" /\ Over'
<1>1. PICK w : w = Nothing(out)
  OBVIOUS
<1>2. Mend(w) /\ Salvageable(out)
  BY <1>1 DEF Salvage
<1>3. Answer /\ Good(out, w) /\ Begun(w) /\ w.out = out
  BY <1>1, MendStarts
<1>4. CallsWhole(w.out)
  BY <1>2, <1>3 DEF CallsWhole, Salvageable, Started
<1>5. InOrderSaid(Kinds \ astray', w.out.blocks)
  BY <1>3 DEF Answer, InOrderSaid
<1> QED
  BY <1>2, <1>3, <1>4, <1>5, MendEnds

(* The calls are repaired.                                                 *)
LEMMA AnswerRepairKeeps ==
  ASSUME pc = "asking", Under, AnswerRepair
  PROVE  \/ pc' = "mend" /\ Under'
         \/ pc' \in {"done", "failed"} /\ Over'
<1>1. \/ pc' = "mend" /\ mend' = [mend EXCEPT !.call = @ + 1]
           /\ UNCHANGED <<out, held, committed, client>>
      \/ Mend(Repaired(Nothing(out)))
      \/ pc' = "mend" /\ UNCHANGED <<out, held, committed, mend, client>>
      \/ GiveUp
  BY DEF AnswerRepair
<1>2. /\ Answer /\ mend \in Mends /\ StoppedWhole(out) /\ out \in Outputs
      /\ Good(out, Nothing(out)) /\ Begun(Nothing(out)) /\ Nothing(out).out = out
  BY MendStarts
<1>3. CASE pc' = "mend" /\ mend' = [mend EXCEPT !.call = @ + 1]
             /\ UNCHANGED <<out, held, committed, client>>
  <2>1. mend' \in Mends /\ mend'.error = mend.error
    BY <1>2, <1>3 DEF Mends
  <2> QED
    BY <1>3, <2>1, MendStays
<1>4. CASE Mend(Repaired(Nothing(out)))
  <2>1. PICK w, v : w = Nothing(out) /\ v = Repaired(w)
    OBVIOUS
  <2>2. Good(out, w) /\ StoppedWhole(w.out) /\ Begun(w) /\ out \in Outputs
    BY <1>2, <2>1
  <2>3. /\ Good(out, v) /\ v.out.began = w.out.began
        /\ \A t \in Tools : v.out.tools[t].started => v.out.tools[t].args = Whole
        /\ SaidSame(w.out, v.out)
    BY ONLY <2>1, <2>2, RepairedGood
  <2>4. Begun(v) /\ CallsWhole(v.out) /\ Mend(v)
    BY <1>4, <2>1, <2>2, <2>3 DEF Begun, CallsWhole
  <2>5. InOrderSaid(Kinds \ astray', v.out.blocks)
    <3>1. InOrderSaid(Kinds, v.out.blocks)
      BY <1>2, <2>1, <2>3, SaysNothing DEF SaidSame
    <3> QED
      BY <3>1 DEF InOrderSaid
  <2> QED
    BY <1>2, <2>3, <2>4, <2>5, MendEnds
<1>5. CASE pc' = "mend" /\ UNCHANGED <<out, held, committed, mend, client>>
  BY <1>2, <1>5, MendStays
<1>6. CASE GiveUp
  BY <1>2, <1>6, GivesUp
<1> QED
  BY <1>1, <1>3, <1>4, <1>5, <1>6

(* The model goes on.                                                      *)
LEMMA ContinueKeeps ==
  ASSUME pc = "asking", Under, AnswerContinues
  PROVE  pc' \in {"done", "failed"} /\ Over'
<1>1. /\ Answer /\ mend \in Mends /\ out \in Outputs /\ OutOK(out)
      /\ (mend.error = "protocol" => Unmade(out))
      /\ Good(out, Nothing(out)) /\ Begun(Nothing(out)) /\ Nothing(out).out = out
  BY MendStarts
<1>2. ~HasTool(out)
  BY DEF AnswerContinues
<1>3. PICK c \in [text : Continuations("text"), reasoning : Continuations("reasoning")],
           shorts \in SUBSET Kinds, call \in BOOLEAN :
        /\ call => mend.error = "protocol"
        /\ astray' = {kind \in Kinds : Misleads(kind, c[kind])}
        /\ \/ GiveUp
           \/ Mend(Continued(Nothing(out),
                 Joined("reasoning", Passage("reasoning", c["reasoning"]), "reasoning" \in shorts),
                 Joined("text", Passage("text", c["text"]), "text" \in shorts), call))
  BY DEF AnswerContinues
<1>4. CASE GiveUp
  BY <1>1, <1>4, GivesUp
<1>5. CASE Mend(Continued(Nothing(out),
             Joined("reasoning", Passage("reasoning", c["reasoning"]), "reasoning" \in shorts),
             Joined("text", Passage("text", c["text"]), "text" \in shorts), call))
  <2>1. PICK w, r, s, v :
          /\ w = Nothing(out)
          /\ r = Joined("reasoning", Passage("reasoning", c["reasoning"]), "reasoning" \in shorts)
          /\ s = Joined("text", Passage("text", c["text"]), "text" \in shorts)
          /\ v = Continued(w, r, s, call)
    OBVIOUS
  <2>2. /\ r \in Seq(Nat)
        /\ ~Misleads("reasoning", c["reasoning"]) =>
             Means("reasoning", Spoken(out.blocks, "reasoning") \o r)
    <3>1. PICK kind, x, short : /\ kind = "reasoning" /\ x = c["reasoning"]
                                /\ short = ("reasoning" \in shorts)
      OBVIOUS
    <3>2. /\ kind \in Kinds /\ x \in Continuations(kind) /\ short \in BOOLEAN
          /\ Means(kind, Spoken(out.blocks, kind))
      BY <1>1, <3>1 DEF Kinds, Answer, InOrderSaid
    <3>3. r = Joined(kind, Passage(kind, x), short)
      BY <2>1, <3>1
    <3>4. /\ Joined(kind, Passage(kind, x), short) \in Seq(Nat)
          /\ ~Misleads(kind, x) =>
               Means(kind, Spoken(out.blocks, kind) \o Joined(kind, Passage(kind, x), short))
      BY ONLY <3>2, JoinedGood
    <3> QED
      BY <3>1, <3>3, <3>4
  <2>3. /\ s \in Seq(Nat)
        /\ ~Misleads("text", c["text"]) => Means("text", Spoken(out.blocks, "text") \o s)
    <3>1. PICK kind, x, short : kind = "text" /\ x = c["text"] /\ short = ("text" \in shorts)
      OBVIOUS
    <3>2. /\ kind \in Kinds /\ x \in Continuations(kind) /\ short \in BOOLEAN
          /\ Means(kind, Spoken(out.blocks, kind))
      BY <1>1, <3>1 DEF Kinds, Answer, InOrderSaid
    <3>3. s = Joined(kind, Passage(kind, x), short)
      BY <2>1, <3>1
    <3>4. /\ Joined(kind, Passage(kind, x), short) \in Seq(Nat)
          /\ ~Misleads(kind, x) =>
               Means(kind, Spoken(out.blocks, kind) \o Joined(kind, Passage(kind, x), short))
      BY ONLY <3>2, JoinedGood
    <3> QED
      BY <3>1, <3>3, <3>4
  <2>5. call => Unnamed(w.out.tools[0], 0)
    BY <1>1, <1>3, <2>1, FirstTool DEF Unmade
  <2>6. out \in Outputs /\ Good(out, w) /\ Begun(w) /\ call \in BOOLEAN /\ r \in Seq(Nat) /\ s \in Seq(Nat)
    BY <1>1, <2>1, <2>2, <2>3
  <2>7. Good(out, v) /\ Begun(v) /\ NewCall(w, v, call) /\ SaysBoth(w, v, r, s)
    <3>1. /\ Good(out, Continued(w, r, s, call)) /\ Begun(Continued(w, r, s, call))
          /\ NewCall(w, Continued(w, r, s, call), call)
          /\ SaysBoth(w, Continued(w, r, s, call), r, s)
      BY ONLY <2>5, <2>6, ContinuedGood
    <3> QED
      BY <2>1, <3>1
  <2>8. CallsWhole(v.out)
    <3> SUFFICES ASSUME NEW t \in Tools, v.out.tools[t].started PROVE v.out.tools[t].args = Whole
      BY DEF CallsWhole
    <3>1. ~out.tools[t].started
      BY <1>2 DEF HasTool, Started
    <3>2. v.out.tools[t] # out.tools[t]
      BY <3>1
    <3>3. call /\ t = 0 /\ Named(0, v.out.tools[0], 2)
      BY <1>1, <2>1, <2>6, <2>7, <3>2 DEF NewCall
    <3>4. ~HoldsBack(0, 2)
      BY DEF HoldsBack
    <3> QED
      BY <3>3, <3>4, CountedWhole DEF Named
  <2>9. Mend(v)
    BY <1>5, <2>1
  <2>10. InOrderSaid(Kinds \ astray', v.out.blocks)
    <3> SUFFICES ASSUME NEW kind \in Kinds, ~Misleads(kind, c[kind])
                 PROVE  Means(kind, Spoken(v.out.blocks, kind))
      BY <1>3 DEF InOrderSaid
    <3>1. w.out = out
      BY <1>1, <2>1
    <3>2. CASE kind = "reasoning"
      BY <2>2, <2>7, <3>1, <3>2 DEF SaysBoth
    <3>3. CASE kind = "text"
      BY <2>3, <2>7, <3>1, <3>3 DEF SaysBoth
    <3> QED
      BY <3>2, <3>3 DEF Kinds
  <2> QED
    BY <1>1, <2>7, <2>8, <2>9, <2>10, MendEnds
<1> QED
  BY <1>3, <1>4, <1>5

(* The steps of a mend.                                                    *)
LEMMA MendKeeps ==
  ASSUME pc \in {"mend", "asking"}, Under,
         Salvage \/ Hopeless \/ Ask \/ AnswerFails \/ AnswerRepair \/ AnswerContinues
  PROVE  \/ pc' \in {"mend", "asking"} /\ Under'
         \/ pc' \in {"done", "failed"} /\ Over'
<1>1. Answer /\ mend \in Mends
  BY MendStarts
<1>2. CASE Salvage
  BY <1>2, SalvageKeeps DEF Salvage
<1>3. CASE Hopeless
  BY <1>1, <1>3, GivesUp DEF Hopeless
<1>4. CASE Ask
  BY <1>1, <1>4, MendStays DEF Ask
<1>5. CASE AnswerFails
  <2>1. GiveUp \/ (pc' = "mend" /\ UNCHANGED <<out, held, committed, mend, client>>)
    BY <1>5 DEF AnswerFails
  <2> QED
    BY <1>1, <2>1, GivesUp, MendStays
<1>6. CASE AnswerRepair
  BY <1>6, AnswerRepairKeeps DEF AnswerRepair
<1>7. CASE AnswerContinues
  BY <1>7, ContinueKeeps DEF AnswerContinues
<1> QED
  BY <1>2, <1>3, <1>4, <1>5, <1>6, <1>7

(* Every step keeps the invariant, where no answer mixes native calls and  *)
(* calls in its text.                                                      *)
LEMMA StreamStep == ~Mixed /\ StreamInv /\ [Next]_vars => StreamInv'
<1> SUFFICES ASSUME ~Mixed, StreamInv, [Next]_vars PROVE StreamInv'
  OBVIOUS
<1>1. Control /\ Control'
  BY ControlStep DEF StreamInv
<1>2. ASSUME pc' \in Live, Under' PROVE StreamInv'
  BY <1>1, <1>2 DEF StreamInv, Live, Ended
<1>3. ASSUME pc' \in {"done", "failed", "closed"}, Over' PROVE StreamInv'
  BY <1>1, <1>3 DEF StreamInv, Live, Ended
<1>4. CASE Create \/ CreateFails
  <2>1. pc = "create" /\ Under
    BY <1>4 DEF Create, CreateFails, StreamInv, Live
  <2> QED
    BY <1>2, <1>3, <1>4, <2>1, CreateKeeps DEF Live
<1>5. CASE Chunk
  <2>1. pc = "stream" /\ Under
    BY <1>5 DEF Chunk, StreamInv, Live
  <2> QED
    BY <1>1, <1>2, <1>5, <2>1, ChunkKeeps DEF Live
<1>6. CASE EndUpstream
  <2>1. pc = "stream" /\ Under
    BY <1>6 DEF EndUpstream, StreamInv, Live
  <2> QED
    BY <1>3, <1>6, <2>1, EndKeeps
<1>7. CASE StreamFails
  <2>1. pc = "stream" /\ Under
    BY <1>7 DEF StreamFails, StreamInv, Live
  <2> QED
    BY <1>2, <1>3, <1>7, <2>1, FailKeeps DEF Live
<1>8. CASE Salvage \/ Hopeless \/ Ask \/ AnswerFails \/ AnswerRepair \/ AnswerContinues
  <2>1. pc \in {"mend", "asking"} /\ Under
    BY <1>8 DEF Salvage, Hopeless, Ask, AnswerFails, AnswerRepair, AnswerContinues, StreamInv, Live
  <2> QED
    BY <1>2, <1>3, <1>8, <2>1, MendKeeps DEF Live
<1>9. CASE Close
  <2>1. pc \in Live /\ pc' = "closed" /\ client' = client
    BY <1>1, <1>9 DEF Close, Control, Ended
  <2>2. Answer
    BY <2>1 DEF StreamInv, Under
  <2>3. client' \in Clients /\ client'.ok /\ ~client'.ended /\ InOrderSaid(Kinds, client'.blocks)
    BY <2>1, <2>2, ClientKnows
  <2>4. InOrderSaid(Kinds \ astray', client'.blocks)
    BY <2>3 DEF InOrderSaid
  <2> QED
    BY <1>3, <2>1, <2>3, <2>4 DEF Over
<1>10. CASE UNCHANGED vars
  BY <1>1, <1>10 DEF vars, StreamInv, Under, Over, Answer
<1> QED
  BY <1>4, <1>5, <1>6, <1>7, <1>8, <1>9, <1>10 DEF Next, Work

-----------------------------------------------------------------------------
(* What the invariant says of the client.                                  *)

(* What the invariant says of the client: it can read what it is sent, in  *)
(* order and once, is told of an end exactly when there is one, has no     *)
(* block left open then, and only whole calls where the answer was mended. *)
LEMMA WhatTheClientKnows ==
  ASSUME StreamInv
  PROVE  /\ client.ok /\ InOrderSaid(Kinds \ astray, client.blocks)
         /\ client.ended <=> pc = "done"
         /\ pc \in {"done", "failed"} => AllClosed(client.blocks)
         /\ pc = "done" /\ mend.error # "none" => WholeCalls(client.blocks)
<1>1. CASE pc \in Live
  <2>1. Answer
    BY <1>1 DEF StreamInv, Under
  <2>2. /\ client.ok /\ ~client.ended
        /\ InOrderSaid(Kinds, client.blocks)
    BY <2>1, ClientKnows
  <2>3. InOrderSaid(Kinds \ astray, client.blocks)
    BY <2>2 DEF InOrderSaid
  <2> QED
    BY <1>1, <2>2, <2>3 DEF Live
<1>2. CASE pc \in Ended
  BY <1>2 DEF StreamInv, Over
<1> QED
  BY <1>1, <1>2 DEF StreamInv, Control

(* However an answer is held back, tried again, continued, repaired or      *)
(* given up (_OpenAIChatStreamRunner.run and its ledger), the client gets a *)
(* stream that keeps the contract of stream_contracts.py.  A provider       *)
(* reports its calls natively or in the text, not both ways in an answer.    *)
THEOREM ContractKept == ~Mixed => (Spec => []Contract)
<1>1. StreamInv => Contract
  BY WhatTheClientKnows DEF Contract, AllClosed
<1> SUFFICES ASSUME ~Mixed PROVE Spec => []Contract
  OBVIOUS
<1>2. StreamInv /\ [Next]_vars => StreamInv'
  BY StreamStep
<1> QED
  BY <1>1, <1>2, StreamInit, PTL DEF Spec

(* Across interruptions, new epochs and continuations (continuation_suffix) *)
(* the client reads the beginning of the text and of the reasoning that the *)
(* model means to say, unless the letters of a continuation mislead.        *)
THEOREM NothingSaidTwice == ~Mixed => (Spec => []SaidOnce)
<1>1. StreamInv => SaidOnce
  <2> SUFFICES ASSUME StreamInv, NEW kind \in Kinds \ astray
               PROVE  IsPrefix(Spoken(client.blocks, kind), Meant[kind])
    BY DEF SaidOnce
  <2>1. Means(kind, Spoken(client.blocks, kind))
    BY WhatTheClientKnows DEF InOrderSaid
  <2> QED
    BY <2>1, MeansPrefix
<1> SUFFICES ASSUME ~Mixed PROVE Spec => []SaidOnce
  OBVIOUS
<1>2. StreamInv /\ [Next]_vars => StreamInv'
  BY StreamStep
<1> QED
  BY <1>1, <1>2, StreamInit, PTL DEF Spec

(* An answer that _recovery_events has mended ends with whole calls only:    *)
(* salvaged, repaired one after the other, or made anew.                   *)
THEOREM MendsWhole == ~Mixed => (Spec => []MendedCallsAreWhole)
<1>1. StreamInv => MendedCallsAreWhole
  BY WhatTheClientKnows DEF MendedCallsAreWhole, WholeCalls
<1> SUFFICES ASSUME ~Mixed PROVE Spec => []MendedCallsAreWhole
  OBVIOUS
<1>2. StreamInv /\ [Next]_vars => StreamInv'
  BY StreamStep
<1> QED
  BY <1>1, <1>2, StreamInit, PTL DEF Spec
=============================================================================
