------------------------ MODULE MessageTreesProofs ------------------------
(* Proofs about MessageTrees, for any number of messages and commands.      *)
EXTENDS MessageTrees, FiniteSetTheorems, SequenceTheorems, WellFoundedInduction, TLAPS

-----------------------------------------------------------------------------
(* Induction and recursion up to a bound.                                  *)

(* A nonempty set of numbers has a least one.                              *)
LEMMA Least ==
  ASSUME NEW S \in SUBSET Nat, S # {}
  PROVE  \E n \in S : \A m \in S : n <= m
<1>1. PICK x \in S : \A y \in S : ~ (<<y, x>> \in OpToRel(<, Nat))
  BY NatLessThanWellFounded, WFMin
<1>2. \A y \in S : ~ (<<y, x>> \in {ss \in Nat \X Nat : ss[1] < ss[2]})
  BY <1>1 DEF OpToRel
<1>3. \A y \in S : ~(y < x)
  BY <1>2
<1>4. \A y \in S : x <= y
  BY <1>3
<1> QED
  BY <1>4

(* A set that has 0, and with each number below K the next, has all of them. *)
LEMMA UpTo ==
  ASSUME NEW K \in Nat, NEW Good, 0 \in Good,
         \A n \in 0..K : n \in Good /\ n < K => n + 1 \in Good
  PROVE  \A n \in 0..K : n \in Good
<1> SUFFICES ASSUME (0..K) \ Good # {} PROVE FALSE
  OBVIOUS
<1>0. (0..K) \ Good \in SUBSET Nat
  OBVIOUS
<1>1. PICK b \in (0..K) \ Good : \A m \in (0..K) \ Good : b <= m
  BY <1>0, Least
<1>2. b \in Nat /\ b # 0 /\ b - 1 \in 0..K /\ b - 1 < K /\ b - 1 + 1 = b
  BY <1>1
<1>3. b - 1 \in Good
  BY <1>1, <1>2
<1> QED
  BY <1>1, <1>2, <1>3

(* g iterates the steps F, from s.                                         *)
Iteration(g, K, S, s, F) ==
  g \in [0..K -> S] /\ g[0] = s /\ \A n \in 1..K : g[n] = F[n][g[n - 1]]

(* Such an iteration exists: what a recursive function over 0..K computes.   *)
LEMMA Recursion ==
  ASSUME NEW K \in Nat, NEW S, NEW s \in S, NEW F \in [1..K -> [S -> S]]
  PROVE  \E g : Iteration(g, K, S, s, F)
<1> DEFINE Good == {k \in 0..K : \E g \in [0..k -> S] :
                                   g[0] = s /\ \A n \in 1..k : g[n] = F[n][g[n-1]]}
<1>1. 0 \in Good
  <2>1. /\ [n \in 0..0 |-> s] \in [0..0 -> S] /\ [n \in 0..0 |-> s][0] = s
        /\ \A n \in 1..0 : [i \in 0..0 |-> s][n] = F[n][[i \in 0..0 |-> s][n-1]]
    OBVIOUS
  <2>2. 0 \in 0..K
    OBVIOUS
  <2>3. \E g \in [0..0 -> S] : g[0] = s /\ \A n \in 1..0 : g[n] = F[n][g[n-1]]
    BY <2>1
  <2> QED BY <2>2, <2>3
<1>2. ASSUME NEW k \in Good, k < K PROVE k+1 \in Good
  <2>1. PICK g \in [0..k -> S] : g[0] = s /\ \A n \in 1..k : g[n] = F[n][g[n-1]]
    OBVIOUS
  <2> DEFINE h == [n \in 0..k+1 |-> IF n = k+1 THEN F[k+1][g[k]] ELSE g[n]]
  <2>2. k \in Nat /\ k+1 \in 1..K /\ k+1 \in 0..K /\ k \in 0..k
    BY <1>2
  <2>3. F[k+1][g[k]] \in S
    BY <2>1, <2>2
  <2>4. h \in [0..k+1 -> S]
    BY <2>1, <2>2, <2>3
  <2>5. h[0] = s
    BY <2>1, <2>2
  <2>6. \A n \in 1..k+1 : h[n] = F[n][h[n-1]]
    BY <2>1, <2>2
  <2> QED BY <2>2, <2>4, <2>5, <2>6
<1>3. \A n \in 0..K : n \in Good
  <2> HIDE DEF Good
  <2> QED BY <1>1, <1>2, UpTo
<1>4. K \in Good
  BY <1>3
<1> QED
  BY <1>4 DEF Iteration

-----------------------------------------------------------------------------
(* Sequences.                                                              *)

(* A longer sequence.                                                      *)
LEMMA Appended ==
  ASSUME NEW S, NEW q \in Seq(S), NEW x \in S
  PROVE  /\ Append(q, x) \in Seq(S)
         /\ ToSet(Append(q, x)) = ToSet(q) \union {x}
         /\ IsInjective(q) /\ x \notin ToSet(q) => IsInjective(Append(q, x))
<1> DEFINE a == Append(q, x)
<1>1. a \in Seq(S) /\ Len(a) = Len(q) + 1 /\ Len(q) \in Nat
  OBVIOUS
<1>2. DOMAIN a = 1..Len(q) + 1 /\ DOMAIN q = 1..Len(q)
  BY <1>1, LenProperties
<1>3. \A i \in 1..Len(q) : a[i] = q[i]
  OBVIOUS
<1>4. a[Len(q) + 1] = x
  OBVIOUS
<1> HIDE DEF a
<1>5. ToSet(a) = ToSet(q) \union {x}
  <2>1. ASSUME NEW y \in ToSet(a) PROVE y \in ToSet(q) \union {x}
    <3>1. PICK i \in 1..Len(q) + 1 : y = a[i]
      BY <1>2 DEF ToSet
    <3>2. CASE i = Len(q) + 1
      BY <3>1, <3>2, <1>4
    <3>3. CASE i # Len(q) + 1
      BY <3>1, <3>3, <1>1, <1>2, <1>3 DEF ToSet
    <3> QED
      BY <3>2, <3>3
  <2>2. ASSUME NEW y \in ToSet(q) PROVE y \in ToSet(a)
    BY <1>1, <1>2, <1>3 DEF ToSet
  <2>3. x \in ToSet(a)
    BY <1>1, <1>2, <1>4 DEF ToSet
  <2> QED
    BY <2>1, <2>2, <2>3
<1>6. ASSUME IsInjective(q), x \notin ToSet(q) PROVE IsInjective(a)
  <2>1. \A i \in 1..Len(q) : a[i] # x
    BY <1>2, <1>3, <1>6 DEF ToSet
  <2>2. \A i, j \in 1..Len(q) : a[i] = a[j] => i = j
    BY <1>2, <1>3, <1>6 DEF IsInjective
  <2>3. \A i \in 1..Len(q) + 1 : i = Len(q) + 1 \/ i \in 1..Len(q)
    BY <1>1
  <2> QED
    BY <1>2, <1>4, <2>1, <2>2, <2>3 DEF IsInjective
<1> QED
  BY <1>1, <1>5, <1>6 DEF a

(* What is left of a sequence without its first element.                   *)
LEMMA Rest ==
  ASSUME NEW S, NEW q \in Seq(S), q # <<>>, IsInjective(q)
  PROVE  /\ q[1] \in S /\ q[1] \in ToSet(q)
         /\ SubSeq(q, 2, Len(q)) \in Seq(S)
         /\ IsInjective(SubSeq(q, 2, Len(q)))
         /\ ToSet(SubSeq(q, 2, Len(q))) = ToSet(q) \ {q[1]}
<1> DEFINE a == SubSeq(q, 2, Len(q))
<1>1. Len(q) \in Nat \ {0} /\ DOMAIN q = 1..Len(q) /\ \A i \in 1..Len(q) : q[i] \in S
  BY EmptySeq, LenProperties, ElementOfSeq
<1>2. a \in Seq(S) /\ Len(a) = Len(q) - 1 /\ \A i \in 1..Len(q) - 1 : a[i] = q[i + 1]
  <2>1. \A i \in 2..Len(q) : q[i] \in S
    BY <1>1
  <2>2. 2 \in Int /\ Len(q) \in Int
    BY <1>1
  <2>3. /\ a \in Seq(S) /\ Len(a) = IF 2 <= Len(q) THEN Len(q) - 2 + 1 ELSE 0
        /\ \A i \in 1..Len(q) - 2 + 1 : a[i] = q[2 + i - 1]
    BY <2>1, <2>2, SubSeqProperties
  <2> HIDE DEF a
  <2>4. Len(q) - 2 + 1 = Len(q) - 1 /\ \A i \in 1..Len(q) - 1 : 2 + i - 1 = i + 1
    BY <1>1
  <2>5. Len(a) = Len(q) - 1
    <3>1. \A L \in Nat \ {0} : (IF 2 <= L THEN L - 2 + 1 ELSE 0) = L - 1
      OBVIOUS
    <3> QED
      BY <2>3, <3>1, <1>1
  <2>6. \A i \in 1..Len(q) - 1 : a[i] = q[i + 1]
    BY <2>3, <2>4
  <2> QED
    BY <2>3, <2>5, <2>6
<1> HIDE DEF a
<1>3. DOMAIN a = 1..Len(q) - 1
  BY <1>2, LenProperties
<1>4. IsInjective(a)
  <2> SUFFICES ASSUME NEW i \in 1..Len(q) - 1, NEW j \in 1..Len(q) - 1, a[i] = a[j]
               PROVE  i = j
    BY <1>3 DEF IsInjective
  <2>1. i + 1 \in DOMAIN q /\ j + 1 \in DOMAIN q /\ q[i + 1] = q[j + 1]
    BY <1>1, <1>2
  <2>2. i + 1 = j + 1
    BY <2>1 DEF IsInjective
  <2> QED
    BY <2>2
<1>5. ToSet(a) = ToSet(q) \ {q[1]}
  <2>1. ASSUME NEW y \in ToSet(a) PROVE y \in ToSet(q) \ {q[1]}
    <3>1. PICK i \in 1..Len(q) - 1 : y = a[i]
      BY <1>3 DEF ToSet
    <3>2. i + 1 \in DOMAIN q /\ 1 \in DOMAIN q /\ i + 1 # 1 /\ y = q[i + 1]
      BY <3>1, <1>1, <1>2
    <3> QED
      BY <3>2 DEF ToSet, IsInjective
  <2>2. ASSUME NEW y \in ToSet(q) \ {q[1]} PROVE y \in ToSet(a)
    <3>1. PICK i \in 1..Len(q) : y = q[i]
      BY <1>1 DEF ToSet
    <3>2. i - 1 \in 1..Len(q) - 1 /\ a[i - 1] = q[i - 1 + 1] /\ i - 1 + 1 = i
      BY <3>1, <2>2, <1>1, <1>2
    <3> QED
      BY <3>1, <3>2, <1>3 DEF ToSet
  <2> QED
    BY <2>1, <2>2
<1>6. q[1] \in S /\ q[1] \in ToSet(q)
  BY <1>1 DEF ToSet
<1> QED
  BY <1>2, <1>4, <1>5, <1>6 DEF a

(* Without is computed by iterating over the sequence.                     *)
LEMMA WithoutIterates ==
  ASSUME NEW S, NEW q \in Seq(S), NEW ms
  PROVE  \E g \in [0..Len(q) -> Seq(S)] :
           /\ g[0] = <<>> /\ Without(q, ms) = g[Len(q)]
           /\ \A n \in 1..Len(q) :
                g[n] = IF q[n] \in ms THEN g[n - 1] ELSE Append(g[n - 1], q[n])
<1> DEFINE K == Len(q)
           F == [n \in 1..K |-> [s \in Seq(S) |-> IF q[n] \in ms THEN s ELSE Append(s, q[n])]]
<1>1. K \in Nat /\ \A n \in 1..K : q[n] \in S
  BY LenProperties, ElementOfSeq
<1>2. <<>> \in Seq(S)
  BY EmptySeq
<1>3. F \in [1..K -> [Seq(S) -> Seq(S)]]
  <2>1. ASSUME NEW n \in 1..K, NEW s \in Seq(S)
        PROVE  (IF q[n] \in ms THEN s ELSE Append(s, q[n])) \in Seq(S)
    BY <1>1
  <2> QED
    BY <2>1
<1>4. PICK g \in [0..K -> Seq(S)] : g[0] = <<>> /\ \A n \in 1..K : g[n] = F[n][g[n - 1]]
  <2> HIDE DEF F
  <2>1. \E g : Iteration(g, K, Seq(S), <<>>, F)
    BY <1>1, <1>2, <1>3, Recursion
  <2> QED
    BY <2>1 DEF Iteration
<1>5. \A n \in 1..K : g[n] = IF q[n] \in ms THEN g[n - 1] ELSE Append(g[n - 1], q[n])
  <2> SUFFICES ASSUME NEW n \in 1..K
               PROVE  g[n] = IF q[n] \in ms THEN g[n - 1] ELSE Append(g[n - 1], q[n])
    OBVIOUS
  <2>1. g[n - 1] \in Seq(S)
    BY <1>1
  <2> QED
    BY <2>1, <1>4
<1> DEFINE Body(f) == [n \in 0..K |-> IF n = 0 THEN <<>>
                                      ELSE IF q[n] \in ms THEN f[n - 1] ELSE Append(f[n - 1], q[n])]
<1>6. g = Body(g)
  <2>1. \A n \in 0..K : g[n] = Body(g)[n]
    <3> SUFFICES ASSUME NEW n \in 0..K PROVE g[n] = Body(g)[n]
      OBVIOUS
    <3>1. CASE n = 0
      BY <3>1, <1>4
    <3>2. CASE n # 0
      <4>1. n \in 1..K
        BY <3>2, <1>1
      <4> QED
        BY <3>2, <4>1, <1>5
    <3> QED
      BY <3>1, <3>2
  <2> QED
    BY <2>1
<1> DEFINE kept == CHOOSE f : f = Body(f)
<1>7. kept = Body(kept)
  <2> HIDE DEF Body
  <2> QED
    BY <1>6
<1>8. Without(q, ms) = kept[K]
  BY DEF Without
<1>9. \A n \in 0..K : n \in {i \in 0..K : kept[i] = g[i]}
  <2> DEFINE Good == {i \in 0..K : kept[i] = g[i]}
  <2>0. \A n \in 0..K : kept[n] = Body(kept)[n]
    <3> HIDE DEF kept, Body
    <3> QED
      BY <1>7
  <2> HIDE DEF kept
  <2>1. 0 \in Good
    BY <1>1, <1>4, <2>0
  <2>2. ASSUME NEW n \in 0..K, n \in Good, n < K
        PROVE  n + 1 \in Good
    <3>1. n + 1 \in 0..K /\ n + 1 \in 1..K /\ n + 1 # 0 /\ n + 1 - 1 = n
      BY <1>1, <2>2
    <3>2. kept[n + 1] = IF q[n + 1] \in ms THEN kept[n + 1 - 1] ELSE Append(kept[n + 1 - 1], q[n + 1])
      BY <3>1, <2>0
    <3>3. g[n + 1] = IF q[n + 1] \in ms THEN g[n + 1 - 1] ELSE Append(g[n + 1 - 1], q[n + 1])
      BY <3>1, <1>5
    <3> QED
      BY <3>1, <3>2, <3>3, <2>2
  <2> HIDE DEF Good
  <2>3. \A n \in 0..K : n \in Good
    BY <1>1, <2>1, <2>2, UpTo
  <2> QED
    BY <2>3 DEF Good
<1>10. kept[K] = g[K]
  <2> HIDE DEF kept
  <2> QED
    BY <1>1, <1>9
<1> QED
  BY <1>4, <1>5, <1>8, <1>10

(* Without keeps the elements that are not taken out, each once if it was  *)
(* there once.                                                             *)
LEMMA Kept ==
  ASSUME NEW S, NEW q \in Seq(S), NEW ms
  PROVE  /\ Without(q, ms) \in Seq(S)
         /\ ToSet(Without(q, ms)) = ToSet(q) \ ms
         /\ IsInjective(q) => IsInjective(Without(q, ms))
<1> DEFINE K == Len(q)
           Before(n) == {q[i] : i \in 1..n} \ ms
<1>1. K \in Nat /\ DOMAIN q = 1..K /\ \A n \in 1..K : q[n] \in S
  BY LenProperties, ElementOfSeq
<1>2. PICK g \in [0..K -> Seq(S)] :
        /\ g[0] = <<>> /\ Without(q, ms) = g[K]
        /\ \A n \in 1..K : g[n] = IF q[n] \in ms THEN g[n - 1] ELSE Append(g[n - 1], q[n])
  BY WithoutIterates
<1> DEFINE Good == {n \in 0..K : /\ ToSet(g[n]) = Before(n)
                                 /\ IsInjective(q) => IsInjective(g[n])}
<1>3. 0 \in Good
  <2>1. ToSet(<<>>) = {} /\ IsInjective(<<>>)
    BY DEF ToSet, IsInjective
  <2>2. Before(0) = {}
    OBVIOUS
  <2> QED
    BY <1>1, <1>2, <2>1, <2>2
<1>4. ASSUME NEW n \in 0..K, n \in Good, n < K PROVE n + 1 \in Good
  <2>1. n \in Nat /\ n + 1 \in 1..K /\ n + 1 \in 0..K /\ n + 1 - 1 = n
    BY <1>1, <1>4
  <2>2. g[n] \in Seq(S) /\ q[n + 1] \in S
    BY <2>1, <1>1, <1>2
  <2>3. g[n + 1] = IF q[n + 1] \in ms THEN g[n] ELSE Append(g[n], q[n + 1])
    BY <2>1, <1>2
  <2>4. Before(n + 1) = IF q[n + 1] \in ms THEN Before(n) ELSE Before(n) \union {q[n + 1]}
    <3>1. \A i : i \in 1..n + 1 <=> i \in 1..n \/ i = n + 1
      BY <2>1
    <3> QED
      BY <3>1
  <2>5. IsInjective(q) => q[n + 1] \notin Before(n)
    <3>1. \A i \in 1..n : i \in 1..K /\ i # n + 1
      BY <2>1, <1>1
    <3> QED
      BY <3>1, <2>1, <1>1 DEF IsInjective
  <2>6. ToSet(g[n]) = Before(n) /\ (IsInjective(q) => IsInjective(g[n]))
    BY <1>4
  <2> HIDE DEF Before
  <2>7. CASE q[n + 1] \in ms
    BY <2>1, <2>3, <2>4, <2>6, <2>7
  <2>8. CASE q[n + 1] \notin ms
    <3>1. /\ ToSet(Append(g[n], q[n + 1])) = ToSet(g[n]) \union {q[n + 1]}
          /\ IsInjective(g[n]) /\ q[n + 1] \notin ToSet(g[n]) => IsInjective(Append(g[n], q[n + 1]))
      BY <2>2, Appended
    <3>2. g[n + 1] = Append(g[n], q[n + 1])
      BY <2>3, <2>8
    <3>3. ToSet(g[n + 1]) = Before(n + 1)
      BY <3>1, <3>2, <2>4, <2>6, <2>8
    <3>4. IsInjective(q) => IsInjective(g[n + 1])
      BY <3>1, <3>2, <2>5, <2>6
    <3> QED
      BY <3>3, <3>4, <2>1
  <2> QED
    BY <2>7, <2>8
<1>5. K \in Good
  <2> HIDE DEF Good
  <2>1. \A n \in 0..K : n \in Good /\ n < K => n + 1 \in Good
    BY <1>4
  <2>2. \A n \in 0..K : n \in Good
    BY <2>1, <1>1, <1>3, UpTo
  <2> QED
    BY <2>2, <1>1
<1>6. ToSet(q) \ ms = Before(K)
  BY <1>1 DEF ToSet
<1> QED
  BY <1>1, <1>2, <1>5, <1>6

-----------------------------------------------------------------------------
(* The graph.                                                              *)

LEMMA MaxType == MaxMessages \in Nat /\ MaxCommands \in Nat /\ MaxWork \in Nat
  BY TreesAssumption

(* Messages are finitely many numbers, and NoMessage is none of them.       *)
LEMMA MessageFacts == /\ Messages \subseteq Nat /\ NoMessage \notin Messages
                      /\ IsFiniteSet(Messages) /\ Cardinality(Messages) \in Nat
<1>1. IsFiniteSet(Messages)
  BY MaxType, FS_Interval DEF Messages
<1> QED
  BY <1>1, MaxType, FS_CardinalityType DEF Messages, NoMessage

(* A reference is the prompt or the status message of one message.          *)
LEMMA ReferenceFacts ==
  /\ NoReference \notin References
  /\ \A ref \in References : /\ ref[1] \in Messages
                             /\ ref = Prompt(ref[1]) \/ ref = Status(ref[1])
  /\ \A m \in Messages : Prompt(m) \in References /\ Status(m) \in References
  /\ \A m, n : /\ Prompt(m)[1] = m /\ Status(m)[1] = m /\ Prompt(m) # Status(n)
               /\ Prompt(m) = Prompt(n) => m = n
               /\ Status(m) = Status(n) => m = n
  BY MessageFacts DEF References, NoReference, Prompt, Status

(* There are twice as many references as messages.                         *)
LEMMA ReferencesFinite ==
  IsFiniteSet(References) /\ Cardinality(References) = 2 * Cardinality(Messages)
<1> DEFINE T == {"prompt", "status"}
<1>1. IsFiniteSet({"prompt"}) /\ Cardinality({"prompt"}) = 1
  BY FS_Singleton
<1>2. /\ IsFiniteSet({"prompt"} \union {"status"})
      /\ Cardinality({"prompt"} \union {"status"}) =
           IF "status" \in {"prompt"} THEN Cardinality({"prompt"}) ELSE Cardinality({"prompt"}) + 1
  BY <1>1, FS_AddElement
<1>3. "status" \notin {"prompt"} /\ T = {"prompt"} \union {"status"}
  OBVIOUS
<1>4. IsFiniteSet(T) /\ Cardinality(T) = 2
  BY <1>1, <1>2, <1>3
<1>5. References = Messages \X T
  BY DEF References
<1> HIDE DEF T
<1>6. IsFiniteSet(Messages \X T) /\ Cardinality(Messages \X T) = Cardinality(Messages) * Cardinality(T)
  BY <1>4, MessageFacts, FS_Product
<1>7. Cardinality(Messages) * 2 = 2 * Cardinality(Messages)
  BY MessageFacts
<1> QED
  BY <1>4, <1>5, <1>6, <1>7

(* Replies to references are references, and more of them to more.          *)
LEMMA RepliesFacts ==
  /\ \A refs : Replies(refs) \subseteq References
  /\ \A refs, more : refs \subseteq more => Replies(refs) \subseteq Replies(more)
  BY ReferenceFacts DEF Replies, Nodes

(* What hangs from a reference is computed by iterating over the replies.   *)
LEMMA SubtreeIterates ==
  ASSUME NEW ref \in References
  PROVE  \E g \in [0..2 * Cardinality(Messages) -> SUBSET References] :
           /\ g[0] = {ref} /\ Subtree(ref) = g[2 * Cardinality(Messages)]
           /\ \A n \in 1..2 * Cardinality(Messages) : g[n] = g[n - 1] \union Replies(g[n - 1])
<1> DEFINE K == 2 * Cardinality(Messages)
           T == SUBSET References
           e == {ref}
<1>0. PICK F : F = [n \in 1..K |-> [refs \in T |-> refs \union Replies(refs)]]
  OBVIOUS
<1>1. K \in Nat
  BY MessageFacts
<1>2. e \in T
  OBVIOUS
<1>3. F \in [1..K -> [T -> T]]
  BY <1>0, RepliesFacts
<1>4. PICK g \in [0..K -> T] : g[0] = e /\ \A n \in 1..K : g[n] = F[n][g[n - 1]]
  <2> HIDE DEF K, T, e
  <2>1. \E g : Iteration(g, K, T, e, F)
    BY <1>1, <1>2, <1>3, Recursion
  <2> QED
    BY <2>1 DEF Iteration
<1>5. \A n \in 1..K : g[n] = g[n - 1] \union Replies(g[n - 1])
  <2> SUFFICES ASSUME NEW n \in 1..K PROVE g[n] = g[n - 1] \union Replies(g[n - 1])
    OBVIOUS
  <2>1. n - 1 \in 0..K
    BY <1>1
  <2>2. g[n - 1] \in T
    BY <2>1, <1>4
  <2> QED
    BY <2>2, <1>0, <1>4
<1> DEFINE Body(f) == [n \in 0..K |-> IF n = 0 THEN {ref}
                                      ELSE f[n - 1] \union Replies(f[n - 1])]
<1>6. g = Body(g)
  <2>1. ASSUME NEW n \in 0..K PROVE g[n] = Body(g)[n]
    <3>1. CASE n = 0
      BY <3>1, <1>4
    <3>2. CASE n # 0
      <4>1. n \in 1..K
        BY <3>2, <1>1
      <4> QED
        BY <3>2, <4>1, <1>5
    <3> QED
      BY <3>1, <3>2
  <2> QED
    BY <2>1
<1> DEFINE grown == CHOOSE f : f = Body(f)
<1>7. grown = Body(grown)
  <2> HIDE DEF Body
  <2> QED
    BY <1>6
<1>8. Subtree(ref) = grown[K]
  BY DEF Subtree
<1>9. grown[0] = {ref} /\ \A n \in 1..K : grown[n] = grown[n - 1] \union Replies(grown[n - 1])
  <2>1. \A n \in 0..K : grown[n] = Body(grown)[n]
    <3> HIDE DEF grown, Body
    <3> QED
      BY <1>7
  <2>2. \A n \in 0..K : Body(grown)[n] = IF n = 0 THEN {ref} ELSE grown[n - 1] \union Replies(grown[n - 1])
    <3> HIDE DEF grown, K
    <3> QED
      OBVIOUS
  <2>3. 0 \in 0..K /\ \A n \in 1..K : n \in 0..K /\ n # 0
    BY <1>1
  <2> HIDE DEF grown, K, Body
  <2> QED
    BY <2>1, <2>2, <2>3
<1> HIDE DEF grown
<1>10. \A n \in 0..K : n \in {i \in 0..K : grown[i] = g[i]}
  <2> DEFINE Good == {i \in 0..K : grown[i] = g[i]}
  <2>1. 0 \in Good
    <3>1. 0 \in 0..K /\ grown[0] = g[0]
      BY <1>1, <1>4, <1>9
    <3> QED
      BY <3>1
  <2>2. ASSUME NEW n \in 0..K, n \in Good, n < K
        PROVE  n + 1 \in Good
    <3>1. n + 1 \in 0..K /\ n + 1 \in 1..K /\ n + 1 # 0 /\ n + 1 - 1 = n
      BY <1>1, <2>2
    <3>2. grown[n + 1] = grown[n + 1 - 1] \union Replies(grown[n + 1 - 1])
      BY <3>1, <1>9
    <3>3. g[n + 1] = g[n + 1 - 1] \union Replies(g[n + 1 - 1])
      BY <3>1, <1>5
    <3> QED
      BY <3>1, <3>2, <3>3, <2>2
  <2> HIDE DEF Good
  <2>3. \A n \in 0..K : n \in Good
    BY <1>1, <2>1, <2>2, UpTo
  <2> QED
    BY <2>3 DEF Good
<1>11. grown[K] = g[K]
  BY <1>1, <1>10
<1> QED
  BY <1>4, <1>5, <1>8, <1>11

(* The subtree of a reference is what is reached from it, and is closed     *)
(* under replies: it grows with each iteration until it is, and there are   *)
(* no more iterations left than references to find.                        *)
LEMMA SubtreeIsClosed ==
  ASSUME NEW ref \in References
  PROVE  /\ Subtree(ref) \subseteq References
         /\ ref \in Subtree(ref)
         /\ Replies(Subtree(ref)) \subseteq Subtree(ref)
<1> DEFINE K == 2 * Cardinality(Messages)
<1>1. PICK g \in [0..K -> SUBSET References] :
        /\ g[0] = {ref} /\ Subtree(ref) = g[K]
        /\ \A n \in 1..K : g[n] = g[n - 1] \union Replies(g[n - 1])
  BY SubtreeIterates
<1>2. K \in Nat /\ IsFiniteSet(References) /\ Cardinality(References) = K
  BY MessageFacts, ReferencesFinite
<1> HIDE DEF K
<1> DEFINE Closed(s) == Replies(s) \subseteq s
           Good == {n \in 0..K : ref \in g[n] /\ (Closed(g[n]) \/ Cardinality(g[n]) >= n + 1)}
<1>3. \A n \in 0..K : g[n] \in SUBSET References /\ IsFiniteSet(g[n]) /\ Cardinality(g[n]) \in Nat
  <2> SUFFICES ASSUME NEW n \in 0..K
               PROVE  g[n] \in SUBSET References /\ IsFiniteSet(g[n]) /\ Cardinality(g[n]) \in Nat
    OBVIOUS
  <2>1. g[n] \in SUBSET References
    BY <1>1
  <2> QED
    BY <2>1, <1>2, FS_Subset, FS_CardinalityType
<1>4. 0 \in Good
  <2>1. Cardinality({ref}) = 1
    BY FS_Singleton
  <2>2. 0 \in 0..K /\ g[0] = {ref} /\ 1 >= 0 + 1
    BY <1>1, <1>2
  <2> HIDE DEF Closed
  <2> QED
    BY <2>1, <2>2
<1>5. ASSUME NEW n \in 0..K, n \in Good, n < K PROVE n + 1 \in Good
  <2>1. n \in Nat /\ n + 1 \in 1..K /\ n + 1 \in 0..K /\ n + 1 - 1 = n
    BY <1>2, <1>5
  <2>2. g[n + 1] = g[n] \union Replies(g[n])
    BY <1>1, <2>1
  <2>3. CASE Closed(g[n])
    <3>1. g[n + 1] = g[n]
      BY <2>2, <2>3
    <3> QED
      BY <3>1, <2>1, <2>3, <1>5
  <2>4. CASE ~Closed(g[n])
    <3>1. g[n] # g[n + 1] /\ g[n] \in SUBSET g[n + 1]
      BY <2>2, <2>4
    <3>2. Cardinality(g[n]) <= Cardinality(g[n + 1]) /\ Cardinality(g[n]) # Cardinality(g[n + 1])
      BY <3>1, <2>1, <1>3, FS_Subset
    <3>3. Cardinality(g[n]) >= n + 1
      BY <2>4, <1>5
    <3>4. Cardinality(g[n + 1]) >= n + 1 + 1
      BY <3>2, <3>3, <2>1, <1>3
    <3> QED
      BY <3>1, <3>4, <2>1, <1>5
  <2> QED
    BY <2>3, <2>4
<1>6. K \in Good
  <2> HIDE DEF Good
  <2>1. \A n \in 0..K : n \in Good /\ n < K => n + 1 \in Good
    BY <1>5
  <2>2. \A n \in 0..K : n \in Good
    BY <2>1, <1>2, <1>4, UpTo
  <2> QED
    BY <2>2, <1>2
<1>7. Cardinality(g[K]) <= K
  <2>1. g[K] \in SUBSET References
    BY <1>2, <1>3
  <2> QED
    BY <2>1, <1>2, FS_Subset
<1>8. Closed(g[K])
  <2>1. Cardinality(g[K]) \in Nat
    BY <1>2, <1>3
  <2>2. ~(Cardinality(g[K]) >= K + 1)
    BY <2>1, <1>2, <1>7
  <2> QED
    BY <2>2, <1>6
<1> QED
  BY <1>1, <1>2, <1>3, <1>6, <1>8

(* It is within whatever has the reference and is closed under replies.     *)
LEMMA SubtreeIsLeast ==
  ASSUME NEW ref \in References, NEW X, ref \in X, Replies(X) \subseteq X
  PROVE  Subtree(ref) \subseteq X
<1> DEFINE K == 2 * Cardinality(Messages)
<1>1. PICK g \in [0..K -> SUBSET References] :
        /\ g[0] = {ref} /\ Subtree(ref) = g[K]
        /\ \A n \in 1..K : g[n] = g[n - 1] \union Replies(g[n - 1])
  BY SubtreeIterates
<1>2. K \in Nat
  BY MessageFacts
<1> HIDE DEF K
<1> DEFINE Good == {n \in 0..K : g[n] \subseteq X}
<1>3. 0 \in Good
  BY <1>1, <1>2
<1>4. ASSUME NEW n \in 0..K, n \in Good, n < K PROVE n + 1 \in Good
  <2>1. n \in Nat /\ n + 1 \in 1..K /\ n + 1 \in 0..K /\ n + 1 - 1 = n
    BY <1>2, <1>4
  <2>2. g[n + 1] = g[n] \union Replies(g[n])
    BY <1>1, <2>1
  <2>3. Replies(g[n]) \subseteq Replies(X)
    BY <1>4, RepliesFacts
  <2> QED
    BY <2>1, <2>2, <2>3, <1>4
<1>5. K \in Good
  <2> HIDE DEF Good
  <2>1. \A n \in 0..K : n \in Good /\ n < K => n + 1 \in Good
    BY <1>4
  <2>2. \A n \in 0..K : n \in Good
    BY <2>1, <1>2, <1>3, UpTo
  <2> QED
    BY <2>2, <1>2
<1> QED
  BY <1>1, <1>5

(* Everything in it is the reference itself or hangs from something in it.  *)
LEMMA SubtreeHangs ==
  ASSUME NEW ref \in References
  PROVE  \A x \in Subtree(ref) : x = ref \/ x \in Replies(Subtree(ref))
<1> DEFINE X == {ref} \union Replies(Subtree(ref))
<1>1. ref \in Subtree(ref) /\ Replies(Subtree(ref)) \subseteq Subtree(ref)
  BY SubtreeIsClosed
<1>2. X \subseteq Subtree(ref)
  BY <1>1
<1>3. Replies(X) \subseteq X
  BY <1>2, RepliesFacts
<1>4. ref \in X
  OBVIOUS
<1> HIDE DEF X
<1>5. Subtree(ref) \subseteq X
  BY <1>3, <1>4, SubtreeIsLeast
<1> QED
  BY <1>5 DEF X

(* What a failure takes along is within whatever has the node and the nodes *)
(* that reply to its members.                                              *)
LEMMA DescendantsAreLeast ==
  ASSUME NEW m \in Messages, NEW X \in SUBSET Messages, m \in X,
         \A c \in Nodes : reply[c][1] \in X => c \in X
  PROVE  Descendants(m) \subseteq X
<1> DEFINE K == Cardinality(Messages)
           T == SUBSET Messages
           e == {m}
           Below(ms) == {c \in Nodes : reply[c][1] \in ms}
<1>0. PICK F : F = [n \in 1..K |-> [ms \in T |-> ms \union Below(ms)]]
  OBVIOUS
<1>1. K \in Nat
  BY MessageFacts
<1>2. e \in T
  OBVIOUS
<1>3. F \in [1..K -> [T -> T]]
  BY <1>0 DEF Nodes
<1>4. PICK g \in [0..K -> T] : g[0] = e /\ \A n \in 1..K : g[n] = F[n][g[n - 1]]
  <2> HIDE DEF K, T, e
  <2>1. \E g : Iteration(g, K, T, e, F)
    BY <1>1, <1>2, <1>3, Recursion
  <2> QED
    BY <2>1 DEF Iteration
<1>5. \A n \in 1..K : g[n] = g[n - 1] \union Below(g[n - 1])
  <2> SUFFICES ASSUME NEW n \in 1..K PROVE g[n] = g[n - 1] \union Below(g[n - 1])
    OBVIOUS
  <2>1. n - 1 \in 0..K
    BY <1>1
  <2>2. g[n - 1] \in T
    BY <2>1, <1>4
  <2> QED
    BY <2>2, <1>0, <1>4
<1> DEFINE Body(f) == [n \in 0..K |-> IF n = 0 THEN {m}
                                      ELSE f[n - 1] \union Below(f[n - 1])]
<1>6. g = Body(g)
  <2>1. ASSUME NEW n \in 0..K PROVE g[n] = Body(g)[n]
    <3>1. CASE n = 0
      BY <3>1, <1>4
    <3>2. CASE n # 0
      <4>1. n \in 1..K
        BY <3>2, <1>1
      <4> QED
        BY <3>2, <4>1, <1>5
    <3> QED
      BY <3>1, <3>2
  <2> QED
    BY <2>1
<1> DEFINE grown == CHOOSE f : f = Body(f)
<1>7. grown = Body(grown)
  <2> HIDE DEF Body
  <2> QED
    BY <1>6
<1>8. Descendants(m) = grown[K] \ {m}
  BY DEF Descendants
<1>9. grown[0] = {m} /\ \A n \in 1..K : grown[n] = grown[n - 1] \union Below(grown[n - 1])
  <2>1. \A n \in 0..K : grown[n] = Body(grown)[n]
    <3> HIDE DEF grown, Body
    <3> QED
      BY <1>7
  <2>2. \A n \in 0..K : Body(grown)[n] = IF n = 0 THEN {m} ELSE grown[n - 1] \union Below(grown[n - 1])
    <3> HIDE DEF grown, K
    <3> QED
      OBVIOUS
  <2>3. 0 \in 0..K /\ \A n \in 1..K : n \in 0..K /\ n # 0
    BY <1>1
  <2> HIDE DEF grown, K, Body
  <2> QED
    BY <2>1, <2>2, <2>3
<1> HIDE DEF grown, Body
<1> DEFINE Good == {n \in 0..K : grown[n] \subseteq X}
<1>10. 0 \in Good
  BY <1>1, <1>9
<1>11. ASSUME NEW n \in 0..K, n \in Good, n < K PROVE n + 1 \in Good
  <2>1. n \in Nat /\ n + 1 \in 1..K /\ n + 1 \in 0..K /\ n + 1 - 1 = n
    BY <1>1, <1>11
  <2>2. grown[n + 1] = grown[n] \union Below(grown[n])
    BY <1>9, <2>1
  <2>3. Below(grown[n]) \subseteq X
    BY <1>11
  <2> QED
    BY <2>1, <2>2, <2>3, <1>11
<1>12. K \in Good
  <2> HIDE DEF Good
  <2>1. \A n \in 0..K : n \in Good /\ n < K => n + 1 \in Good
    BY <1>11
  <2>2. \A n \in 0..K : n \in Good
    BY <2>1, <1>1, <1>10, UpTo
  <2> QED
    BY <2>2, <1>1
<1> QED
  BY <1>8, <1>12

-----------------------------------------------------------------------------
(* What every state satisfies.                                             *)

(* Messages are sent in order, a reply is to an earlier one, and a message  *)
(* is in a tree from its admission on.                                     *)
IntakeInv ==
  \A m \in Messages :
    /\ intake[m] # "unsent" => \A n \in 1..m : intake[n] # "unsent"
    /\ reply[m] # NoReference => reply[m][1] < m
    /\ intake[m] = "admitted" <=> root[m] # NoMessage
    /\ intake[m] # "admitted" => state[m] = "none" /\ task[m] = "none"

(* A tree is known by its first node, and a reply is in the tree of what it *)
(* replies to.                                                             *)
RootInv ==
  \A m \in Messages :
    root[m] # NoMessage =>
      /\ root[root[m]] = root[m]
      /\ root[m] = IF reply[m] = NoReference THEN m ELSE root[reply[m][1]]

(* A claim is held as long as its task lives, by the tree of its node, and  *)
(* a node that waits never had a task.                                     *)
ClaimInv ==
  /\ \A m \in Messages :
       /\ task[m] \notin {"none", "over"} <=> root[m] # NoMessage /\ active[root[m]] = m
       /\ state[m] = "pending" => task[m] = "none"
  /\ \A r \in Messages : active[r] # NoMessage => root[active[r]] = r

(* A queue has each waiting node of its tree once, and something executes   *)
(* while it has any.                                                       *)
QueueInv ==
  \A r \in Messages :
    /\ IsInjective(queue[r])
    /\ \A m \in Messages : m \in ToSet(queue[r]) <=> state[m] = "pending" /\ root[m] = r
    /\ queue[r] # <<>> => active[r] # NoMessage

(* What has left the repository is not going to run.                       *)
ServedInv ==
  \A m \in Messages :
    /\ state[m] \in Runnable => root[m] \in ToSet(trees)
    /\ task[m] \in {"launched", "running"} => state[m] # "none" /\ root[m] \in ToSet(trees)

(* The index is that of the nodes and status messages of the trees there.   *)
IndexInv ==
  \A m \in Messages :
    /\ Prompt(m) \in indexed <=> state[m] # "none" /\ root[m] \in ToSet(trees)
    /\ Status(m) \in indexed <=> state[m] # "none" /\ root[m] \in ToSet(trees) /\ m \in status

(* A tree has its first node, every other node replies to something that is *)
(* still known, and a node that may run has a status message.              *)
GraphInv ==
  /\ \A r \in ToSet(trees) : state[r] # "none" /\ reply[r] = NoReference
  /\ \A m \in Messages :
       state[m] # "none" /\ root[m] \in ToSet(trees) =>
         /\ reply[m] # NoReference => reply[m] \in indexed
         /\ state[m] \in Runnable => m \in status

(* What was stopped is not admitted any more.                              *)
StoppedInv ==
  \A m \in stopped :
    /\ intake[m] # "unsent" /\ m \notin fresh
    /\ state[m] \notin Runnable /\ task[m] \notin {"launched", "running"}

(* The inductive invariant.                                                *)
TreesInv ==
  /\ TypeOK /\ IntakeInv /\ RootInv /\ ClaimInv /\ QueueInv /\ ServedInv
  /\ IndexInv /\ GraphInv /\ StoppedInv

(* It holds before the first message.                                      *)
LEMMA InitInv == Init => TreesInv
<1> SUFFICES ASSUME Init PROVE TreesInv
  OBVIOUS
<1> USE DEF Init
<1>0. ToSet(<<>>) = {} /\ IsInjective(<<>>) /\ <<>> \in Seq(Messages)
  BY EmptySeq DEF ToSet, IsInjective
<1>1. TypeOK
  <2>1. 0 \in 0..MaxCommands
    BY MaxType
  <2> QED
    BY <1>0, <2>1 DEF TypeOK, Intakes, States, Tasks
<1>2. IntakeInv /\ RootInv /\ ClaimInv /\ ServedInv /\ StoppedInv
  BY DEF IntakeInv, RootInv, ClaimInv, ServedInv, StoppedInv, Runnable
<1>3. QueueInv
  BY <1>0 DEF QueueInv
<1>4. IndexInv /\ GraphInv
  BY <1>0 DEF IndexInv, GraphInv
<1> QED
  BY <1>1, <1>2, <1>3, <1>4 DEF TreesInv

(* What the invariant says of the nodes, the claims and the index.         *)
LEMMA NodeFacts ==
  ASSUME TreesInv
  PROVE  /\ \A m \in Messages :
              /\ root[m] # NoMessage => root[m] \in Messages /\ intake[m] = "admitted"
              /\ state[m] # "none" => root[m] \in Messages /\ intake[m] = "admitted"
              /\ task[m] # "none" => root[m] \in Messages /\ intake[m] = "admitted"
         /\ ToSet(trees) \subseteq Messages
         /\ \A r \in ToSet(trees) : root[r] = r /\ state[r] # "none"
<1>1. ToSet(trees) \subseteq Messages
  <2>1. trees \in Seq(Messages)
    BY DEF TreesInv, TypeOK
  <2> QED
    BY <2>1, LenProperties, ElementOfSeq DEF ToSet
<1>2. \A m \in Messages : root[m] # NoMessage => root[m] \in Messages
  BY DEF TreesInv, TypeOK
<1> QED
  BY <1>1, <1>2 DEF TreesInv, IntakeInv, RootInv, GraphInv

LEMMA ClaimFacts ==
  ASSUME TreesInv
  PROVE  /\ \A r \in Messages :
              active[r] # NoMessage =>
                /\ active[r] \in Messages /\ root[active[r]] = r
                /\ task[active[r]] \notin {"none", "over"}
                /\ state[active[r]] # "pending"
         /\ \A m \in asked : /\ m \in Messages /\ root[m] \in Messages /\ active[root[m]] = m
                             /\ task[m] \notin {"none", "over"} /\ state[m] # "pending"
<1>1. \A r \in Messages :
        active[r] # NoMessage =>
          /\ active[r] \in Messages /\ root[active[r]] = r
          /\ task[active[r]] \notin {"none", "over"}
          /\ state[active[r]] # "pending"
  <2> SUFFICES ASSUME NEW r \in Messages, active[r] # NoMessage
               PROVE  /\ active[r] \in Messages /\ root[active[r]] = r
                      /\ task[active[r]] \notin {"none", "over"}
                      /\ state[active[r]] # "pending"
    OBVIOUS
  <2>1. active[r] \in Messages
    BY DEF TreesInv, TypeOK
  <2>2. root[active[r]] = r /\ r # NoMessage
    BY MessageFacts DEF TreesInv, ClaimInv
  <2>3. task[active[r]] \notin {"none", "over"}
    BY <2>1, <2>2 DEF TreesInv, ClaimInv
  <2>4. state[active[r]] # "pending"
    BY <2>1, <2>3 DEF TreesInv, ClaimInv
  <2> QED
    BY <2>1, <2>2, <2>3, <2>4
<1>2. \A m \in asked : \E r \in Messages : active[r] = m /\ m # NoMessage
  BY DEF TreesInv, TypeOK, ActiveIn
<1> QED
  BY <1>1, <1>2

LEMMA IndexFacts ==
  ASSUME TreesInv
  PROVE  \A ref \in indexed :
           /\ ref \in References /\ ref # NoReference /\ ref[1] \in Messages
           /\ state[ref[1]] # "none" /\ root[ref[1]] \in ToSet(trees)
           /\ root[ref[1]] \in Messages
<1>1. \A ref \in indexed : ref \in References
  BY DEF TreesInv, TypeOK
<1> QED
  BY <1>1, ReferenceFacts, NodeFacts DEF TreesInv, IndexInv

(* Nothing but the task of a claim has changed, to one that still has it.   *)
LEMMA TaskMoves ==
  ASSUME TreesInv, NEW m \in Messages, NEW t \in Tasks \ {"none", "over"},
         task[m] \notin {"none", "over"}, t = "launched" => task[m] = "launched",
         t = "running" => task[m] \in {"launched", "running"},
         task' = [task EXCEPT ![m] = t],
         UNCHANGED <<intakeVars, nodeVars, queue, active, asked, indexVars, commandVars>>
  PROVE  TreesInv'
<1> USE DEF intakeVars, nodeVars, indexVars, commandVars
<1>0. task \in [Messages -> Tasks]
  BY DEF TreesInv, TypeOK
<1>1. TypeOK'
  BY <1>0 DEF TreesInv, TypeOK, ActiveIn
<1>2. IntakeInv' /\ RootInv'
  BY <1>0 DEF TreesInv, IntakeInv, RootInv
<1>3. ClaimInv'
  BY <1>0 DEF TreesInv, ClaimInv
<1>4. QueueInv' /\ IndexInv' /\ GraphInv'
  BY DEF TreesInv, QueueInv, IndexInv, GraphInv, ToSet, IsInjective
<1>5. ServedInv' /\ StoppedInv'
  BY <1>0 DEF TreesInv, ServedInv, StoppedInv, ToSet
<1> QED
  BY <1>1, <1>2, <1>3, <1>4, <1>5 DEF TreesInv

(* The steps of a task and of a message on its way.                        *)
LEMMA StartRunnerStep ==
  ASSUME TreesInv, NEW m \in Messages, StartRunner(m)
  PROVE  TreesInv'
BY TaskMoves DEF StartRunner, Tasks

LEMMA EndRunnerStep ==
  ASSUME TreesInv, NEW m \in Messages, EndRunner(m)
  PROVE  TreesInv'
BY TaskMoves DEF EndRunner, Tasks

LEMMA ReceiveStep ==
  ASSUME TreesInv, NEW m \in Messages, Receive(m)
  PROVE  TreesInv'
<1> USE DEF nodeVars, treeVars, indexVars, commandVars
<1>1. /\ intake[m] = "unsent" /\ \A n \in 1..m - 1 : intake[n] # "unsent"
      /\ intake' = [intake EXCEPT ![m] = "received"] /\ fresh' = fresh \union {m}
      /\ UNCHANGED <<root, nodeVars, treeVars, indexVars, commandVars>>
  BY DEF Receive
<1>2. PICK ref \in indexed \union {NoReference} : reply' = [reply EXCEPT ![m] = ref]
  BY DEF Receive
<1>3. /\ intake \in [Messages -> Intakes] /\ reply \in [Messages -> References \union {NoReference}]
      /\ ref \in References \union {NoReference}
  BY IndexFacts DEF TreesInv, TypeOK
<1>4. root[m] = NoMessage /\ state[m] = "none" /\ task[m] = "none"
  BY <1>1 DEF TreesInv, IntakeInv
<1>5. ref # NoReference => ref[1] < m
  <2> SUFFICES ASSUME ref # NoReference PROVE ref[1] < m
    OBVIOUS
  <2>1. ref[1] \in Messages /\ intake[ref[1]] = "admitted"
    BY <1>2, IndexFacts, NodeFacts
  <2>2. \A n \in 1..ref[1] : intake[n] # "unsent"
    BY <2>1 DEF TreesInv, IntakeInv
  <2>3. m \notin 1..ref[1]
    BY <2>2, <1>1
  <2> QED
    BY <2>1, <2>3, MaxType DEF Messages
<1>6. TypeOK'
  BY <1>1, <1>2, <1>3 DEF TreesInv, TypeOK, ActiveIn, Intakes
<1>7. IntakeInv'
  <2>1. \A n \in 1..m : intake'[n] # "unsent"
    <3>1. \A n \in 1..m : n \in Messages /\ (n = m \/ n \in 1..m - 1)
      BY MaxType DEF Messages
    <3> QED
      BY <3>1, <1>1, <1>3
  <2>2. \A k \in Messages : intake'[k] = IF k = m THEN "received" ELSE intake[k]
    BY <1>1, <1>3
  <2>3. \A k \in Messages : reply'[k] = IF k = m THEN ref ELSE reply[k]
    BY <1>2, <1>3
  <2>4. ASSUME NEW k \in Messages, k # m, intake[k] # "unsent", NEW n \in 1..k PROVE intake'[n] # "unsent"
    <3>1. n \in Messages
      BY MaxType DEF Messages
    <3> QED
      BY <3>1, <2>2, <2>4 DEF TreesInv, IntakeInv
  <2> QED
    BY <1>1, <1>4, <1>5, <2>1, <2>2, <2>3, <2>4 DEF TreesInv, IntakeInv
<1>8. RootInv'
  BY <1>1, <1>2, <1>3, <1>4 DEF TreesInv, RootInv
<1>9. ClaimInv' /\ QueueInv' /\ IndexInv' /\ ServedInv'
  BY <1>1 DEF TreesInv, ClaimInv, QueueInv, IndexInv, ServedInv, ToSet, IsInjective
<1>10. GraphInv'
  <2>1. \A k \in Messages : state[k] # "none" => reply'[k] = reply[k]
    BY <1>2, <1>3, <1>4
  <2>2. ToSet(trees)' = ToSet(trees) /\ ToSet(trees) \subseteq Messages
    BY <1>1, NodeFacts DEF ToSet
  <2> QED
    BY <1>1, <2>1, <2>2 DEF TreesInv, GraphInv
<1>11. StoppedInv'
  <2>1. stopped \subseteq Messages
    BY DEF TreesInv, TypeOK
  <2> QED
    BY <2>1, <1>1, <1>3 DEF TreesInv, StoppedInv
<1> QED
  BY <1>6, <1>7, <1>8, <1>9, <1>10, <1>11 DEF TreesInv

LEMMA DiscardStep ==
  ASSUME TreesInv, NEW m \in Messages, Discard(m)
  PROVE  TreesInv'
<1> USE DEF Discard, nodeVars, treeVars, indexVars, commandVars
<1>1. intake \in [Messages -> Intakes]
  BY DEF TreesInv, TypeOK
<1>2. \A k \in Messages : /\ intake'[k] = "unsent" <=> intake[k] = "unsent"
                          /\ intake'[k] = "admitted" <=> intake[k] = "admitted"
  BY <1>1
<1>3. TypeOK'
  BY <1>1 DEF TreesInv, TypeOK, ActiveIn, Intakes
<1>4. IntakeInv'
  <2>1. \A k \in Messages : \A n \in 1..k : n \in Messages
    BY MaxType DEF Messages
  <2> QED
    BY <2>1, <1>2 DEF TreesInv, IntakeInv
<1>5. RootInv' /\ ClaimInv' /\ QueueInv' /\ IndexInv' /\ ServedInv' /\ GraphInv'
  BY DEF TreesInv, RootInv, ClaimInv, QueueInv, IndexInv, ServedInv, GraphInv, ToSet, IsInjective
<1>6. StoppedInv'
  <2>1. stopped \subseteq Messages
    BY DEF TreesInv, TypeOK
  <2> QED
    BY <2>1, <1>2 DEF TreesInv, StoppedInv
<1> QED
  BY <1>3, <1>4, <1>5, <1>6 DEF TreesInv

LEMMA EndCommandStep ==
  ASSUME TreesInv, EndCommand
  PROVE  TreesInv'
<1> USE DEF EndCommand, intakeVars, nodeVars, treeVars, indexVars
<1>0. TypeOK'
  <2>1. draining' \in BOOLEAN
    OBVIOUS
  <2>2. UNCHANGED <<intakeVars, nodeVars, treeVars, indexVars, commands, stopped>>
    OBVIOUS
  <2> QED
    BY ONLY <2>1, <2>2, TreesInv DEF TreesInv, TypeOK, ActiveIn, intakeVars, nodeVars, treeVars, indexVars
<1>1. IntakeInv' /\ RootInv' /\ ClaimInv' /\ ServedInv' /\ StoppedInv'
  BY DEF TreesInv, IntakeInv, RootInv, ClaimInv, ServedInv, StoppedInv, ToSet
<1>2. QueueInv' /\ IndexInv' /\ GraphInv'
  BY DEF TreesInv, QueueInv, IndexInv, GraphInv, ToSet, IsInjective
<1> QED
  BY <1>0, <1>1, <1>2 DEF TreesInv

LEMMA StutterStep ==
  ASSUME TreesInv, UNCHANGED vars
  PROVE  TreesInv'
<1> USE DEF vars, intakeVars, nodeVars, treeVars, indexVars, commandVars
<1>0. TypeOK'
  BY DEF TreesInv, TypeOK, ActiveIn
<1>1. IntakeInv' /\ RootInv' /\ ClaimInv' /\ ServedInv' /\ StoppedInv'
  BY DEF TreesInv, IntakeInv, RootInv, ClaimInv, ServedInv, StoppedInv, ToSet
<1>2. QueueInv' /\ IndexInv' /\ GraphInv'
  BY DEF TreesInv, QueueInv, IndexInv, GraphInv, ToSet, IsInjective
<1> QED
  BY <1>0, <1>1, <1>2 DEF TreesInv

LEMMA RecordSessionStep ==
  ASSUME TreesInv, NEW m \in Messages, RecordSession(m)
  PROVE  TreesInv'
<1> USE DEF RecordSession, intakeVars, treeVars, indexVars, commandVars
<1>0. TypeOK'
  BY DEF TreesInv, TypeOK, ActiveIn
<1>1. IntakeInv' /\ RootInv' /\ ClaimInv' /\ ServedInv' /\ StoppedInv'
  BY DEF TreesInv, IntakeInv, RootInv, ClaimInv, ServedInv, StoppedInv, ToSet
<1>2. QueueInv' /\ IndexInv' /\ GraphInv'
  BY DEF TreesInv, QueueInv, IndexInv, GraphInv, ToSet, IsInjective
<1> QED
  BY <1>0, <1>1, <1>2 DEF TreesInv

(* A node whose task lives does not wait.                                  *)
LEMMA CompleteStep ==
  ASSUME TreesInv, NEW m \in Messages, Complete(m)
  PROVE  TreesInv'
<1> USE DEF intakeVars, treeVars, indexVars, commandVars
<1>0. /\ MayReport(m) /\ state[m] \in {"in_progress", "error"}
      /\ state' = [state EXCEPT ![m] = "completed"] /\ session' \in SUBSET Messages
      /\ UNCHANGED <<intakeVars, status, treeVars, indexVars, commandVars>>
  <2>1. session \in SUBSET Messages
    BY DEF TreesInv, TypeOK
  <2> QED
    BY <2>1 DEF Complete
<1>1. /\ state \in [Messages -> States] /\ stopped \subseteq Messages
      /\ ToSet(trees)' = ToSet(trees) /\ ToSet(trees) \subseteq Messages
  BY <1>0, NodeFacts DEF TreesInv, TypeOK, ToSet
<1>2. \A k \in Messages : /\ state'[k] = "none" <=> state[k] = "none"
                          /\ state'[k] = "pending" <=> state[k] = "pending"
                          /\ state'[k] \in Runnable => state[k] \in Runnable
  BY <1>0, <1>1 DEF Runnable
<1>3. TypeOK'
  BY <1>0, <1>1 DEF TreesInv, TypeOK, ActiveIn, States
<1>4. IntakeInv' /\ RootInv' /\ ClaimInv'
  BY <1>0, <1>2 DEF TreesInv, IntakeInv, RootInv, ClaimInv
<1>5. QueueInv'
  BY <1>0, <1>2 DEF TreesInv, QueueInv, ToSet, IsInjective
<1>6. IndexInv' /\ ServedInv' /\ StoppedInv'
  BY <1>0, <1>1, <1>2 DEF TreesInv, IndexInv, ServedInv, StoppedInv
<1>7. GraphInv'
  BY <1>0, <1>1, <1>2 DEF TreesInv, GraphInv
<1> QED
  BY <1>3, <1>4, <1>5, <1>6, <1>7 DEF TreesInv

(* What a failure takes along is in the tree of the node that fails.        *)
LEMMA DescendantsInTree ==
  ASSUME TreesInv, NEW m \in Messages, root[m] # NoMessage
  PROVE  \A c \in Descendants(m) : c \in Messages /\ root[c] = root[m]
<1> DEFINE X == {c \in Messages : root[c] = root[m]}
<1>1. \A c \in Nodes : reply[c][1] \in X => c \in X
  <2> SUFFICES ASSUME NEW c \in Nodes, reply[c][1] \in X PROVE c \in X
    OBVIOUS
  <2>1. c \in Messages /\ root[c] # NoMessage
    BY NodeFacts, MessageFacts DEF Nodes
  <2>2. reply[c] # NoReference
    BY MessageFacts DEF NoReference
  <2> QED
    BY <2>1, <2>2 DEF TreesInv, RootInv
<1> QED
  BY <1>1, DescendantsAreLeast

(* What taking nodes out of one tree's queue leaves in it.                  *)
LEMMA DropFacts ==
  ASSUME TreesInv, NEW r \in Messages, NEW ms
  PROVE  /\ DroppedFromQueue(r, ms) \in [Messages -> Seq(Messages)]
         /\ \A k \in Messages :
              /\ IsInjective(DroppedFromQueue(r, ms)[k])
              /\ \A m : m \in ToSet(DroppedFromQueue(r, ms)[k]) <=>
                        m \in ToSet(queue[k]) /\ ~(k = r /\ m \in ms)
              /\ DroppedFromQueue(r, ms)[k] # <<>> => queue[k] # <<>>
<1>1. queue \in [Messages -> Seq(Messages)]
  BY DEF TreesInv, TypeOK
<1>2. ASSUME NEW k \in Messages
      PROVE  /\ Without(queue[k], ms) \in Seq(Messages)
             /\ ToSet(Without(queue[k], ms)) = ToSet(queue[k]) \ ms
             /\ IsInjective(queue[k]) /\ IsInjective(Without(queue[k], ms))
             /\ Without(queue[k], ms) # <<>> => queue[k] # <<>>
  <2>1. queue[k] \in Seq(Messages) /\ IsInjective(queue[k])
    BY <1>1 DEF TreesInv, QueueInv
  <2>2. /\ Without(queue[k], ms) \in Seq(Messages)
        /\ ToSet(Without(queue[k], ms)) = ToSet(queue[k]) \ ms
        /\ IsInjective(queue[k]) => IsInjective(Without(queue[k], ms))
    BY <2>1, Kept
  <2>3. ASSUME queue[k] = <<>>, Without(queue[k], ms) # <<>> PROVE FALSE
    <3>1. ToSet(Without(queue[k], ms)) = {}
      BY <2>2, <2>3 DEF ToSet
    <3>2. Len(Without(queue[k], ms)) \in Nat \ {0} /\ DOMAIN Without(queue[k], ms) = 1..Len(Without(queue[k], ms))
      BY <2>2, <2>3, EmptySeq, LenProperties
    <3>3. 1 \in DOMAIN Without(queue[k], ms)
      BY <3>2
    <3> QED
      BY <3>1, <3>3 DEF ToSet
  <2> QED
    BY <2>1, <2>2, <2>3
<1>3. \A k \in Messages : DroppedFromQueue(r, ms)[k] = IF k = r THEN Without(queue[k], ms) ELSE queue[k]
  BY <1>1 DEF DroppedFromQueue
<1>4. DroppedFromQueue(r, ms) \in [Messages -> Seq(Messages)]
  BY <1>1, <1>2 DEF DroppedFromQueue
<1> QED
  BY <1>1, <1>2, <1>3, <1>4

(* Nodes of one tree that may run are marked, and leave its queue.          *)
LEMMA MarkedQueue ==
  ASSUME TreesInv, NEW r \in Messages, NEW ms, NEW s, NEW q,
         \A m \in Messages : m \in ms => root[m] = r,
         \A m \in Messages : s[m] = "pending" <=> state[m] = "pending" /\ m \notin ms,
         q = DroppedFromQueue(r, ms)
  PROVE  \A k \in Messages :
           /\ IsInjective(q[k])
           /\ \A m \in Messages : m \in ToSet(q[k]) <=> s[m] = "pending" /\ root[m] = k
           /\ q[k] # <<>> => active[k] # NoMessage
<1> SUFFICES ASSUME NEW k \in Messages
             PROVE  /\ IsInjective(q[k])
                    /\ \A m \in Messages : m \in ToSet(q[k]) <=> s[m] = "pending" /\ root[m] = k
                    /\ q[k] # <<>> => active[k] # NoMessage
  OBVIOUS
<1>1. /\ IsInjective(q[k])
      /\ \A m : m \in ToSet(q[k]) <=> m \in ToSet(queue[k]) /\ ~(k = r /\ m \in ms)
      /\ q[k] # <<>> => queue[k] # <<>>
  <2>1. IsInjective(DroppedFromQueue(r, ms)[k])
    BY DropFacts
  <2>2. \A m : m \in ToSet(DroppedFromQueue(r, ms)[k]) <=>
                  m \in ToSet(queue[k]) /\ ~(k = r /\ m \in ms)
    BY DropFacts
  <2>3. DroppedFromQueue(r, ms)[k] # <<>> => queue[k] # <<>>
    BY DropFacts
  <2> QED
    BY <2>1, <2>2, <2>3
<1>2. /\ \A m \in Messages : m \in ToSet(queue[k]) <=> state[m] = "pending" /\ root[m] = k
      /\ queue[k] # <<>> => active[k] # NoMessage
  BY DEF TreesInv, QueueInv
<1> QED
  BY <1>1, <1>2

(* A failure marks the node and what waits below it, and unqueues them.      *)
LEMMA FailStep ==
  ASSUME TreesInv, NEW m \in Messages, Fail(m)
  PROVE  TreesInv'
<1> USE DEF intakeVars, indexVars, commandVars
<1>0. PICK failed \in {{}, {c \in Descendants(m) : state[c] = "pending"}} :
        /\ state' = [c \in Messages |-> IF c \in failed \union {m} THEN "error" ELSE state[c]]
        /\ queue' = DroppedFromQueue(root[m], failed)
  BY DEF Fail
<1>1. /\ task[m] \in Working /\ state[m] # "none" /\ state[m] # "pending"
      /\ UNCHANGED <<intakeVars, status, session, active, asked, task, indexVars, commandVars>>
  <2>1. task[m] # "none"
    BY DEF Fail, MayReport, Working
  <2> QED
    BY <2>1 DEF Fail, MayReport, TreesInv, ClaimInv
<1>2. /\ root[m] \in Messages /\ root[m] # NoMessage
      /\ \A c \in failed : c \in Messages /\ root[c] = root[m] /\ state[c] = "pending"
  <2>1. root[m] \in Messages /\ root[m] # NoMessage
    BY <1>1, NodeFacts, MessageFacts
  <2> QED
    BY <2>1, DescendantsInTree
<1>3. /\ state \in [Messages -> States] /\ stopped \subseteq Messages
      /\ ToSet(trees)' = ToSet(trees) /\ ToSet(trees) \subseteq Messages
  BY <1>1, NodeFacts DEF TreesInv, TypeOK, ToSet
<1>4. \A k \in Messages : /\ state'[k] = "none" <=> state[k] = "none"
                          /\ state'[k] = "pending" <=> state[k] = "pending" /\ k \notin failed
                          /\ state'[k] \in Runnable => state[k] \in Runnable
                          /\ state'[k] \in States
  <2>1. \A k \in Messages : state'[k] = IF k \in failed \union {m} THEN "error" ELSE state[k]
    BY <1>0
  <2> QED
    BY <1>1, <1>2, <1>3, <2>1 DEF Runnable, States
<1>5. TypeOK'
  <2>1. queue' \in [Messages -> Seq(Messages)]
    BY <1>0, <1>2, DropFacts
  <2>2. state' \in [Messages -> States]
    BY <1>0, <1>4
  <2> QED
    BY <1>1, <2>1, <2>2 DEF TreesInv, TypeOK, ActiveIn
<1>6. IntakeInv' /\ RootInv' /\ ClaimInv'
  BY <1>1, <1>4 DEF TreesInv, IntakeInv, RootInv, ClaimInv
<1>7. QueueInv'
  <2>1. \A k \in Messages :
          /\ IsInjective(queue'[k])
          /\ \A c \in Messages : c \in ToSet(queue'[k]) <=> state'[c] = "pending" /\ root[c] = k
          /\ queue'[k] # <<>> => active[k] # NoMessage
    BY <1>0, <1>2, <1>4, MarkedQueue
  <2> QED
    BY <2>1, <1>1 DEF QueueInv, IsInjective, ToSet
<1>8. IndexInv' /\ ServedInv' /\ StoppedInv'
  BY <1>1, <1>3, <1>4 DEF TreesInv, IndexInv, ServedInv, StoppedInv
<1>9. GraphInv'
  BY <1>1, <1>3, <1>4 DEF TreesInv, GraphInv
<1> QED
  BY <1>5, <1>6, <1>7, <1>8, <1>9 DEF TreesInv

(* A message of a tree that is not there yet finds nothing of it.           *)
LEMMA NewTree ==
  ASSUME TreesInv, NEW m \in Messages, intake[m] = "received"
  PROVE  /\ root[m] = NoMessage /\ state[m] = "none" /\ task[m] = "none"
         /\ active[m] = NoMessage /\ queue[m] = <<>> /\ m \notin ToSet(trees)
         /\ \A k \in Messages : root[k] # m /\ active[k] # m
         /\ Prompt(m) \notin indexed /\ Status(m) \notin indexed
<1>1. root[m] = NoMessage /\ state[m] = "none" /\ task[m] = "none"
  BY DEF TreesInv, IntakeInv
<1>2. \A k \in Messages : root[k] # m
  <2> SUFFICES ASSUME NEW k \in Messages, root[k] = m PROVE FALSE
    OBVIOUS
  <2>1. root[m] = m
    BY MessageFacts DEF TreesInv, RootInv
  <2> QED
    BY <2>1, <1>1, MessageFacts
<1>3. active[m] = NoMessage /\ \A k \in Messages : active[k] # m
  <2>1. \A k \in Messages : active[k] # m
    BY <1>1, ClaimFacts, MessageFacts
  <2>2. active[m] = NoMessage
    BY <1>2, ClaimFacts
  <2> QED
    BY <2>1, <2>2
<1>4. queue[m] = <<>> /\ m \notin ToSet(trees)
  BY <1>1, <1>3, NodeFacts DEF TreesInv, QueueInv
<1>5. Prompt(m) \notin indexed /\ Status(m) \notin indexed
  BY <1>1 DEF TreesInv, IndexInv
<1> QED
  BY <1>1, <1>2, <1>3, <1>4, <1>5

(* The tree a message enters: a new one, or the published one of what it    *)
(* replies to.                                                             *)
LEMMA AdmittedTo ==
  ASSUME TreesInv, NEW m \in Messages, intake[m] = "received", Admissible(m),
         NEW r, r = IF reply[m] = NoReference THEN m ELSE root[reply[m][1]]
  PROVE  /\ r \in Messages
         /\ reply[m] = NoReference => r = m
         /\ reply[m] # NoReference =>
              /\ reply[m] \in indexed /\ reply[m][1] \in Messages /\ reply[m][1] # m
              /\ r \in ToSet(trees) /\ r # m /\ root[r] = r /\ state[r] # "none"
<1>1. CASE reply[m] = NoReference
  BY <1>1
<1>2. CASE reply[m] # NoReference
  <2>1. reply[m] \in indexed
    BY <1>2 DEF Admissible
  <2>2. /\ reply[m][1] \in Messages /\ state[reply[m][1]] # "none"
        /\ r \in ToSet(trees) /\ r \in Messages
    BY <2>1, <1>2, IndexFacts
  <2>3. root[r] = r /\ state[r] # "none"
    BY <2>2, NodeFacts
  <2>4. state[m] = "none"
    BY NewTree
  <2> QED
    BY <1>2, <2>1, <2>2, <2>3, <2>4
<1> QED
  BY <1>1, <1>2

(* Admission: a node that claims its tree or waits in its queue.            *)
LEMMA AdmitStep ==
  ASSUME TreesInv, NEW m \in Messages, Admit(m)
  PROVE  TreesInv'
<1> USE DEF commandVars
<1> DEFINE r == IF reply[m] = NoReference THEN m ELSE root[reply[m][1]]
<1>1. /\ intake[m] = "received" /\ Admissible(m) /\ Enter(m, r)
      /\ root' = [root EXCEPT ![m] = r]
      /\ trees' = IF r = m THEN Append(trees, m) ELSE trees
      /\ indexed' = indexed \union {Prompt(m), Status(m)}
      /\ status' = status \union {m}
      /\ intake' = [intake EXCEPT ![m] = "admitted"]
      /\ fresh' = fresh \ {m}
      /\ UNCHANGED <<reply, session, asked, commandVars>>
  BY DEF Admit
<1>2. /\ root[m] = NoMessage /\ state[m] = "none" /\ task[m] = "none"
      /\ active[m] = NoMessage /\ queue[m] = <<>> /\ m \notin ToSet(trees)
      /\ \A k \in Messages : root[k] # m /\ active[k] # m
      /\ Prompt(m) \notin indexed /\ Status(m) \notin indexed
  BY <1>1, NewTree
<1>3. /\ r \in Messages
      /\ reply[m] = NoReference => r = m
      /\ reply[m] # NoReference =>
           /\ reply[m] \in indexed /\ reply[m][1] \in Messages /\ reply[m][1] # m
           /\ r \in ToSet(trees) /\ r # m /\ root[r] = r /\ state[r] # "none"
  BY <1>1, AdmittedTo
<1>4. /\ intake \in [Messages -> Intakes] /\ root \in [Messages -> Messages \union {NoMessage}]
      /\ state \in [Messages -> States] /\ task \in [Messages -> Tasks]
      /\ queue \in [Messages -> Seq(Messages)] /\ active \in [Messages -> Messages \union {NoMessage}]
      /\ trees \in Seq(Messages) /\ stopped \subseteq Messages /\ asked \subseteq Messages
  BY ClaimFacts DEF TreesInv, TypeOK
<1> HIDE DEF r
<1>5. trees' \in Seq(Messages) /\ ToSet(trees') = ToSet(trees) \union {r}
  <2>1. CASE r = m
    BY <2>1, <1>1, <1>4, Appended
  <2>2. CASE r # m
    BY <2>2, <1>1, <1>3, <1>4
  <2> QED
    BY <2>1, <2>2
<1>6. \A k \in Messages :
        /\ root'[k] = IF k = m THEN r ELSE root[k]
        /\ intake'[k] = IF k = m THEN "admitted" ELSE intake[k]
  BY <1>1, <1>4
(* The two ways to enter a tree.                                           *)
<1>7. \/ /\ active[r] = NoMessage
         /\ state' = [state EXCEPT ![m] = "in_progress"]
         /\ active' = [active EXCEPT ![r] = m]
         /\ task' = [task EXCEPT ![m] = "launched"]
         /\ queue' = queue
      \/ /\ active[r] # NoMessage
         /\ state' = [state EXCEPT ![m] = "pending"]
         /\ queue' = [queue EXCEPT ![r] = Append(queue[r], m)]
         /\ active' = active /\ task' = task
  BY <1>1 DEF Enter
<1>8. \A k \in Messages :
        /\ k # m => state'[k] = state[k] /\ task'[k] = task[k]
        /\ k # r => active'[k] = active[k] /\ queue'[k] = queue[k]
  BY <1>4, <1>7
<1>9. \/ /\ active[r] = NoMessage /\ state'[m] = "in_progress" /\ active'[r] = m
         /\ task'[m] = "launched" /\ queue'[r] = queue[r]
      \/ /\ active[r] # NoMessage /\ state'[m] = "pending" /\ queue'[r] = Append(queue[r], m)
         /\ active'[r] = active[r] /\ task'[m] = "none"
  BY <1>2, <1>3, <1>4, <1>7
<1>10. /\ queue' \in [Messages -> Seq(Messages)] /\ state' \in [Messages -> States]
       /\ active' \in [Messages -> Messages \union {NoMessage}] /\ task' \in [Messages -> Tasks]
  <2>1. "in_progress" \in States /\ "pending" \in States /\ "launched" \in Tasks
    BY DEF States, Tasks
  <2>2. queue[r] \in Seq(Messages) /\ Append(queue[r], m) \in Seq(Messages)
    BY <1>3, <1>4, Appended
  <2>3. queue' \in [Messages -> Seq(Messages)]
    BY <2>2, <1>4, <1>7
  <2>4. state' \in [Messages -> States]
    BY <2>1, <1>4, <1>7
  <2>5. active' \in [Messages -> Messages \union {NoMessage}]
    BY <1>4, <1>7
  <2>6. task' \in [Messages -> Tasks]
    BY <2>1, <1>4, <1>7
  <2> QED
    BY <2>3, <2>4, <2>5, <2>6
<1>11. TypeOK'
  <2>1. asked' \in SUBSET ActiveIn(Messages)'
    <3> SUFFICES ASSUME NEW k \in asked PROVE k \in ActiveIn(Messages)'
      BY <1>1
    <3>1. k \in Messages /\ root[k] \in Messages /\ active[root[k]] = k
      BY ClaimFacts
    <3>2. active'[root[k]] = k
      BY <3>1, <1>8, <1>9, MessageFacts
    <3> QED
      BY <3>1, <3>2, MessageFacts DEF ActiveIn
  <2>2. intake' \in [Messages -> Intakes] /\ root' \in [Messages -> Messages \union {NoMessage}]
    BY <1>1, <1>3, <1>4 DEF Intakes
  <2>3. indexed' \subseteq References
    BY <1>1, ReferenceFacts DEF TreesInv, TypeOK
  <2> QED
    BY <1>1, <1>5, <1>10, <2>1, <2>2, <2>3 DEF TreesInv, TypeOK
<1>12. IntakeInv'
  <2>1. \A k \in Messages : intake'[k] = "unsent" <=> intake[k] = "unsent"
    BY <1>1, <1>6
  <2>2. \A k \in Messages : \A n \in 1..k : n \in Messages
    BY MaxType DEF Messages
  <2>3. \A k \in Messages : intake'[k] # "unsent" => \A n \in 1..k : intake'[n] # "unsent"
    BY <2>1, <2>2 DEF TreesInv, IntakeInv
  <2> QED
    BY <1>1, <1>3, <1>6, <1>8, <2>3, MessageFacts DEF TreesInv, IntakeInv
<1>13. RootInv'
  <2> SUFFICES ASSUME NEW k \in Messages, root'[k] # NoMessage
               PROVE  /\ root'[root'[k]] = root'[k]
                      /\ root'[k] = IF reply[k] = NoReference THEN k ELSE root'[reply[k][1]]
    BY <1>1 DEF RootInv
  <2>1. CASE k = m
    BY <2>1, <1>3, <1>6 DEF r
  <2>2. CASE k # m
    <3>1. /\ root'[k] = root[k] /\ root[k] \in Messages /\ root[k] # m
          /\ root[root[k]] = root[k]
          /\ root[k] = IF reply[k] = NoReference THEN k ELSE root[reply[k][1]]
      BY <2>2, <1>2, <1>6, NodeFacts DEF TreesInv, RootInv
    <3>2. reply[k] # NoReference => reply[k][1] \in Messages /\ reply[k][1] # m
      BY <3>1, <1>2, MessageFacts, ReferenceFacts DEF TreesInv, TypeOK
    <3> QED
      BY <3>1, <3>2, <1>6
  <2> QED
    BY <2>1, <2>2
<1>14. ClaimInv'
  <2>1. \A k \in Messages : /\ task'[k] \notin {"none", "over"} <=> root'[k] # NoMessage /\ active'[root'[k]] = k
                            /\ state'[k] = "pending" => task'[k] = "none"
    <3> SUFFICES ASSUME NEW k \in Messages
                 PROVE  /\ task'[k] \notin {"none", "over"} <=> root'[k] # NoMessage /\ active'[root'[k]] = k
                        /\ state'[k] = "pending" => task'[k] = "none"
      OBVIOUS
    <3>1. CASE k = m
      BY <3>1, <1>2, <1>3, <1>6, <1>9, MessageFacts
    <3>2. CASE k # m
      <4>1. root'[k] = root[k] /\ task'[k] = task[k] /\ state'[k] = state[k]
        BY <3>2, <1>6, <1>8
      <4>2. root[k] # NoMessage => root[k] \in Messages
        BY <1>4
      <4>3. root[k] # NoMessage => (active'[root[k]] = k <=> active[root[k]] = k)
        BY <3>2, <4>2, <1>8, <1>9, MessageFacts
      <4> QED
        BY <4>1, <4>3 DEF TreesInv, ClaimInv
    <3> QED
      BY <3>1, <3>2
  <2>2. \A k \in Messages : active'[k] # NoMessage => root'[active'[k]] = k
    <3> SUFFICES ASSUME NEW k \in Messages, active'[k] # NoMessage PROVE root'[active'[k]] = k
      OBVIOUS
    <3>1. CASE active'[k] = active[k]
      BY <3>1, <1>2, <1>6, ClaimFacts
    <3>2. CASE active'[k] # active[k]
      BY <3>2, <1>6, <1>8, <1>9
    <3> QED
      BY <3>1, <3>2
  <2> QED
    BY <2>1, <2>2 DEF ClaimInv
<1>15. QueueInv'
  <2> SUFFICES ASSUME NEW k \in Messages
               PROVE  /\ IsInjective(queue'[k])
                      /\ \A c \in Messages : c \in ToSet(queue'[k]) <=> state'[c] = "pending" /\ root'[c] = k
                      /\ queue'[k] # <<>> => active'[k] # NoMessage
    BY DEF QueueInv, IsInjective, ToSet
  <2>1. /\ IsInjective(queue[k])
        /\ \A c \in Messages : c \in ToSet(queue[k]) <=> state[c] = "pending" /\ root[c] = k
        /\ queue[k] # <<>> => active[k] # NoMessage
    BY DEF TreesInv, QueueInv
  <2>2. CASE k # r \/ queue'[k] = queue[k]
    <3>1. queue'[k] = queue[k] /\ (k = r => state'[m] # "pending")
      <4>1. ASSUME queue'[r] = queue[r], state'[m] = "pending" PROVE FALSE
        <5>1. queue[r] = Append(queue[r], m) /\ queue[r] \in Seq(Messages)
          BY <4>1, <1>3, <1>4, <1>9
        <5>2. m \in ToSet(queue[r])
          BY <5>1, Appended
        <5> QED
          BY <5>2, <1>2, <1>3 DEF TreesInv, QueueInv
      <4> QED
        BY <2>2, <4>1, <1>8
    <3> QED
      BY <2>1, <3>1, <1>2, <1>3, <1>6, <1>8, <1>9, MessageFacts
  <2>3. CASE k = r /\ queue'[k] # queue[k]
    <3>1. active[r] # NoMessage /\ state'[m] = "pending" /\ queue'[r] = Append(queue[r], m) /\ active'[r] = active[r]
      BY <2>3, <1>9
    <3>2. m \notin ToSet(queue[r])
      BY <1>2, <1>3 DEF TreesInv, QueueInv
    <3>3. ToSet(queue'[r]) = ToSet(queue[r]) \union {m} /\ IsInjective(queue'[r])
      BY <3>1, <3>2, <2>1, <2>3, <1>3, <1>4, Appended
    <3> QED
      BY <2>1, <2>3, <3>1, <3>3, <1>6, <1>8
  <2> QED
    BY <2>2, <2>3
<1>16. ServedInv'
  <2>1. \A k \in Messages : /\ state'[k] \in Runnable => root'[k] \in ToSet(trees')
                            /\ task'[k] \in {"launched", "running"} =>
                                 state'[k] # "none" /\ root'[k] \in ToSet(trees')
    BY <1>5, <1>6, <1>8, <1>9 DEF TreesInv, ServedInv
  <2> QED
    BY <2>1 DEF ServedInv, ToSet
<1>17. IndexInv'
  <2>1. state'[m] # "none" /\ \A k \in Messages : k # m => root[k] # m
    BY <1>2, <1>9
  <2>2. \A k \in Messages : k # m => (root'[k] \in ToSet(trees') <=> root[k] \in ToSet(trees))
    BY <2>1, <1>3, <1>5, <1>6
  <2>3. \A k \in Messages : /\ Prompt(k) \in indexed' <=> state'[k] # "none" /\ root'[k] \in ToSet(trees')
                            /\ Status(k) \in indexed' <=>
                                 state'[k] # "none" /\ root'[k] \in ToSet(trees') /\ k \in status'
    <3> SUFFICES ASSUME NEW k \in Messages
                 PROVE  /\ Prompt(k) \in indexed' <=> state'[k] # "none" /\ root'[k] \in ToSet(trees')
                        /\ Status(k) \in indexed' <=>
                             state'[k] # "none" /\ root'[k] \in ToSet(trees') /\ k \in status'
      OBVIOUS
    <3>1. CASE k = m
      BY <3>1, <2>1, <1>1, <1>5, <1>6
    <3>2. CASE k # m
      <4>1. /\ Prompt(k) \in indexed' <=> Prompt(k) \in indexed
            /\ Status(k) \in indexed' <=> Status(k) \in indexed
            /\ k \in status' <=> k \in status
            /\ state'[k] = state[k]
        BY <3>2, <1>1, <1>8, ReferenceFacts
      <4> QED
        BY <3>2, <4>1, <2>2 DEF TreesInv, IndexInv
    <3> QED
      BY <3>1, <3>2
  <2> QED
    BY <2>3 DEF IndexInv, ToSet, Prompt, Status
<1>18. GraphInv'
  <2>1. \A t \in ToSet(trees') : state'[t] # "none" /\ reply[t] = NoReference
    <3> SUFFICES ASSUME NEW t \in ToSet(trees') PROVE state'[t] # "none" /\ reply[t] = NoReference
      OBVIOUS
    <3>1. CASE t \in ToSet(trees)
      BY <3>1, <1>2, <1>8, NodeFacts DEF TreesInv, GraphInv
    <3>2. CASE t \notin ToSet(trees)
      BY <3>2, <1>3, <1>5, <1>9
    <3> QED
      BY <3>1, <3>2
  <2>2. \A k \in Messages :
          state'[k] # "none" /\ root'[k] \in ToSet(trees') =>
            /\ reply[k] # NoReference => reply[k] \in indexed'
            /\ state'[k] \in Runnable => k \in status'
    <3> SUFFICES ASSUME NEW k \in Messages, state'[k] # "none", root'[k] \in ToSet(trees')
                 PROVE  /\ reply[k] # NoReference => reply[k] \in indexed'
                        /\ state'[k] \in Runnable => k \in status'
      OBVIOUS
    <3>1. CASE k = m
      BY <3>1, <1>1, <1>3
    <3>2. CASE k # m
      <4>1. state[k] = state'[k] /\ root[k] \in ToSet(trees)
        BY <3>2, <1>2, <1>3, <1>5, <1>6, <1>8
      <4> QED
        BY <4>1, <1>1 DEF TreesInv, GraphInv
    <3> QED
      BY <3>1, <3>2
  <2> QED
    BY <2>1, <2>2, <1>1 DEF GraphInv, ToSet
<1>19. StoppedInv'
  BY <1>1, <1>4, <1>6, <1>8 DEF TreesInv, StoppedInv, Admissible
<1> QED
  BY <1>11, <1>12, <1>13, <1>14, <1>15, <1>16, <1>17, <1>18, <1>19 DEF TreesInv

(* In a queue of waiting nodes the first is the one to execute next.        *)
LEMMA FirstWaiting ==
  ASSUME NEW q \in Seq(Messages), \A i \in 1..Len(q) : state[q[i]] = "pending"
  PROVE  SelectInSeq(q, LAMBDA n : state[n] = "pending") = IF q = <<>> THEN 0 ELSE 1
<1> DEFINE I == {i \in 1..Len(q) : state[q[i]] = "pending"}
<1>1. SelectInSeq(q, LAMBDA n : state[n] = "pending") = IF I # {} THEN Min(I) ELSE 0
  BY DEF SelectInSeq
<1>2. I = 1..Len(q) /\ Len(q) \in Nat
  BY LenProperties
<1>3. CASE q = <<>>
  <2>1. I = {}
    BY <1>2, <1>3, EmptySeq
  <2> HIDE DEF I
  <2> QED
    BY <1>1, <1>3, <2>1
<1>4. CASE q # <<>>
  <2>1. Len(q) \in Nat \ {0}
    BY <1>4, EmptySeq
  <2>2. 1 \in I /\ \A i \in I : i \in Nat /\ 1 <= i
    BY <1>2, <2>1
  <2> HIDE DEF I
  <2>3. Min(I) = CHOOSE x \in I : \A y \in I : x <= y
    BY DEF Min
  <2>4. Min(I) \in I /\ \A y \in I : Min(I) <= y
    BY <2>2, <2>3
  <2>5. Min(I) = 1
    BY <2>2, <2>4
  <2> QED
    BY <1>1, <1>4, <2>2, <2>5
<1> QED
  BY <1>3, <1>4

(* The tree r goes on from the node m to the first that waits.              *)
HandsOver(m, r, next) ==
  /\ next = queue[r][1] /\ next # m
  /\ state[next] = "pending" /\ root[next] = r /\ task[next] = "none"
  /\ r \in ToSet(trees)
  /\ queue[r] # <<>>
  /\ active' = [active EXCEPT ![r] = next]
  /\ queue' = [queue EXCEPT ![r] = SubSeq(queue[r], 2, Len(queue[r]))]
  /\ state' = [state EXCEPT ![next] = "in_progress"]
  /\ task' = [task EXCEPT ![m] = "over", ![next] = "launched"]

(* The claim a task gives back, and the node that follows it if one waits. *)
LEMMA FinishFacts ==
  ASSUME TreesInv, NEW m \in Messages, Finish(m), NEW r, r = root[m]
  PROVE  /\ r \in Messages /\ task[m] = "finishing" /\ active[r] = m
         /\ asked' = asked \ {m}
         /\ UNCHANGED <<intakeVars, status, session, indexVars, commandVars>>
         /\ \/ /\ queue[r] = <<>>
               /\ active' = [active EXCEPT ![r] = NoMessage]
               /\ queue' = [queue EXCEPT ![r] = <<>>]
               /\ task' = [task EXCEPT ![m] = "over"]
               /\ UNCHANGED state
            \/ \E next \in Messages : HandsOver(m, r, next)
<1> DEFINE first == SelectInSeq(queue[r], LAMBDA n : state[n] = "pending")
           next == queue[r][first]
<1>1. /\ task[m] = "finishing"
      /\ IF first = 0
         THEN /\ active' = [active EXCEPT ![r] = NoMessage]
              /\ queue' = [queue EXCEPT ![r] = <<>>]
              /\ task' = [task EXCEPT ![m] = "over"]
              /\ UNCHANGED state
         ELSE /\ active' = [active EXCEPT ![r] = next]
              /\ queue' = [queue EXCEPT ![r] = SubSeq(@, first + 1, Len(@))]
              /\ state' = [state EXCEPT ![next] = "in_progress"]
              /\ task' = [task EXCEPT ![m] = "over",
                            ![next] = IF r \in ToSet(trees) THEN "launched" ELSE @]
      /\ asked' = asked \ {m}
      /\ UNCHANGED <<intakeVars, status, session, indexVars, commandVars>>
  BY DEF Finish
<1>2. r \in Messages /\ active[r] = m
  <2>1. r \in Messages
    BY <1>1, NodeFacts
  <2> QED
    BY <2>1, <1>1 DEF TreesInv, ClaimInv
<1>3. queue[r] \in Seq(Messages) /\ IsInjective(queue[r])
  BY <1>2 DEF TreesInv, TypeOK, QueueInv
<1>4. \A n \in Messages : n \in ToSet(queue[r]) => state[n] = "pending" /\ root[n] = r
  BY <1>2 DEF TreesInv, QueueInv
<1>5. \A i \in 1..Len(queue[r]) : state[queue[r][i]] = "pending"
  <2> SUFFICES ASSUME NEW i \in 1..Len(queue[r]) PROVE state[queue[r][i]] = "pending"
    OBVIOUS
  <2>1. queue[r][i] \in Messages /\ queue[r][i] \in ToSet(queue[r])
    BY <1>3, ElementOfSeq, LenProperties DEF ToSet
  <2> QED
    BY <2>1, <1>4
<1>6. first = IF queue[r] = <<>> THEN 0 ELSE 1
  BY <1>3, <1>5, FirstWaiting
<1> HIDE DEF first
<1>7. CASE queue[r] = <<>>
  BY <1>1, <1>2, <1>6, <1>7
<1>8. CASE queue[r] # <<>>
  <2>1. next \in Messages /\ next \in ToSet(queue[r]) /\ first = 1
    BY <1>3, <1>6, <1>8, Rest
  <2>2. state[next] = "pending" /\ root[next] = r
    BY <2>1, <1>4
  <2>3. task[next] = "none"
    BY <2>1, <2>2 DEF TreesInv, ClaimInv
  <2>4. r \in ToSet(trees)
    BY <2>1, <2>2 DEF TreesInv, ServedInv, Runnable
  <2>5. next = queue[r][1] /\ next # m
    BY <2>1, <2>3, <1>1
  <2> HIDE DEF next
  <2>6. queue' = [queue EXCEPT ![r] = SubSeq(queue[r], 2, Len(queue[r]))]
    BY <1>1, <2>1
  <2>7. task' = [task EXCEPT ![m] = "over", ![next] = "launched"]
    BY <1>1, <2>1, <2>4
  <2>8. active' = [active EXCEPT ![r] = next] /\ state' = [state EXCEPT ![next] = "in_progress"]
    BY <1>1, <2>1
  <2>9. HandsOver(m, r, next)
    BY <1>8, <2>2, <2>3, <2>4, <2>5, <2>6, <2>7, <2>8 DEF HandsOver
  <2> QED
    BY <1>1, <1>2, <2>1, <2>9
<1> QED
  BY <1>7, <1>8

(* A claim given back by a tree in which nothing waits.                    *)
LEMMA FinishEmpty ==
  ASSUME TreesInv, NEW m \in Messages, NEW r, r = root[m],
         r \in Messages, task[m] = "finishing", active[r] = m, queue[r] = <<>>,
         asked' = asked \ {m},
         UNCHANGED <<intakeVars, nodeVars, indexVars, commandVars>>,
         active' = [active EXCEPT ![r] = NoMessage],
         queue' = [queue EXCEPT ![r] = <<>>],
         task' = [task EXCEPT ![m] = "over"]
  PROVE  TreesInv'
<1> USE DEF intakeVars, nodeVars, indexVars, commandVars
<1>1. /\ queue \in [Messages -> Seq(Messages)] /\ task \in [Messages -> Tasks]
      /\ active \in [Messages -> Messages \union {NoMessage}]
  BY DEF TreesInv, TypeOK
<1>2. /\ \A k \in Messages : task'[k] = IF k = m THEN "over" ELSE task[k]
      /\ \A k \in Messages : active'[k] = IF k = r THEN NoMessage ELSE active[k]
      /\ queue' = queue
  BY <1>1
<1>3. TypeOK'
  <2>1. asked' \in SUBSET ActiveIn(Messages)'
    <3> SUFFICES ASSUME NEW k \in asked, k # m PROVE k \in ActiveIn(Messages)'
      OBVIOUS
    <3>1. k \in Messages /\ root[k] \in Messages /\ active[root[k]] = k
      BY ClaimFacts
    <3>2. active'[root[k]] = k
      BY <3>1, <1>2
    <3> QED
      BY <3>1, <3>2, MessageFacts DEF ActiveIn
  <2>2. active' \in [Messages -> Messages \union {NoMessage}] /\ task' \in [Messages -> Tasks]
    BY <1>1 DEF Tasks
  <2> QED
    BY <1>2, <2>1, <2>2 DEF TreesInv, TypeOK
<1>4. IntakeInv' /\ RootInv'
  BY <1>2 DEF TreesInv, IntakeInv, RootInv
<1>5. ClaimInv'
  <2>1. \A k \in Messages : root[k] # NoMessage => root[k] \in Messages
    BY NodeFacts
  <2>2. state[m] # "pending"
    BY DEF TreesInv, ClaimInv
  <2> QED
    BY <1>2, <2>1, <2>2, MessageFacts DEF TreesInv, ClaimInv
<1>6. QueueInv'
  BY <1>2 DEF TreesInv, QueueInv, ToSet, IsInjective
<1>7. IndexInv' /\ GraphInv'
  BY DEF TreesInv, IndexInv, GraphInv, ToSet
<1>8. ServedInv' /\ StoppedInv'
  <2>1. stopped \subseteq Messages
    BY DEF TreesInv, TypeOK
  <2> QED
    BY <2>1, <1>2 DEF TreesInv, ServedInv, StoppedInv, ToSet
<1> QED
  BY <1>3, <1>4, <1>5, <1>6, <1>7, <1>8 DEF TreesInv

(* A claim handed over to the node that waited first.                      *)
LEMMA FinishNext ==
  ASSUME TreesInv, NEW m \in Messages, NEW r, r = root[m],
         r \in Messages, task[m] = "finishing", active[r] = m,
         asked' = asked \ {m},
         UNCHANGED <<intakeVars, status, session, indexVars, commandVars>>,
         NEW next \in Messages, HandsOver(m, r, next)
  PROVE  TreesInv'
<1> USE DEF intakeVars, indexVars, commandVars
<1>1. /\ queue \in [Messages -> Seq(Messages)] /\ task \in [Messages -> Tasks]
      /\ active \in [Messages -> Messages \union {NoMessage}] /\ state \in [Messages -> States]
  BY DEF TreesInv, TypeOK
<1>a. /\ next = queue[r][1] /\ next # m
      /\ state[next] = "pending" /\ root[next] = r /\ task[next] = "none"
      /\ r \in ToSet(trees) /\ queue[r] # <<>>
  BY DEF HandsOver
<1>2. /\ \A k \in Messages : k # m /\ k # next => task'[k] = task[k]
      /\ task'[m] = "over" /\ task'[next] = "launched"
      /\ \A k \in Messages : k # r => active'[k] = active[k]
      /\ active'[r] = next
      /\ \A k \in Messages : k # next => state'[k] = state[k]
      /\ state'[next] = "in_progress"
      /\ \A k \in Messages : k # r => queue'[k] = queue[k]
      /\ queue'[r] = SubSeq(queue[r], 2, Len(queue[r]))
  BY <1>1 DEF HandsOver
<1>b. /\ active' \in [Messages -> Messages \union {NoMessage}] /\ task' \in [Messages -> Tasks]
      /\ state' \in [Messages -> States]
  BY <1>1 DEF HandsOver, States, Tasks
<1>3. /\ queue'[r] \in Seq(Messages) /\ IsInjective(queue'[r])
      /\ ToSet(queue'[r]) = ToSet(queue[r]) \ {next}
  <2>1. queue[r] \in Seq(Messages) /\ IsInjective(queue[r])
    BY <1>1 DEF TreesInv, QueueInv
  <2> QED
    BY <1>2, <1>a, <2>1, Rest
<1>4. TypeOK'
  <2>1. asked' \in SUBSET ActiveIn(Messages)'
    <3> SUFFICES ASSUME NEW k \in asked, k # m PROVE k \in ActiveIn(Messages)'
      OBVIOUS
    <3>1. k \in Messages /\ root[k] \in Messages /\ active[root[k]] = k
      BY ClaimFacts
    <3>2. active'[root[k]] = k
      BY <3>1, <1>2
    <3> QED
      BY <3>1, <3>2, MessageFacts DEF ActiveIn
  <2>2. queue' \in [Messages -> Seq(Messages)]
    <3>1. queue' = [queue EXCEPT ![r] = queue'[r]]
      BY <1>1, <1>2 DEF HandsOver
    <3> QED
      BY <3>1, <1>1, <1>3
  <2> QED
    BY <2>1, <2>2, <1>b DEF TreesInv, TypeOK
<1>5. IntakeInv' /\ RootInv'
  <2>1. \A k \in Messages : intake[k] # "admitted" => k # m /\ k # next
    BY <1>a DEF TreesInv, IntakeInv
  <2> QED
    BY <1>2, <2>1 DEF TreesInv, IntakeInv, RootInv
<1>6. ClaimInv'
  <2>1. \A k \in Messages : root[k] # NoMessage => root[k] \in Messages
    BY NodeFacts
  <2>2. state[m] # "pending"
    BY DEF TreesInv, ClaimInv
  <2>3. \A k \in Messages : state'[k] = "pending" => task'[k] = "none"
    BY <1>2, <1>a, <2>2 DEF TreesInv, ClaimInv
  <2>4. \A k \in Messages : active'[k] # NoMessage => root[active'[k]] = k
    BY <1>2, <1>a DEF TreesInv, ClaimInv
  <2>5. \A k \in Messages : task'[k] \notin {"none", "over"} <=> root[k] # NoMessage /\ active'[root[k]] = k
    <3> SUFFICES ASSUME NEW k \in Messages
                 PROVE  task'[k] \notin {"none", "over"} <=> root[k] # NoMessage /\ active'[root[k]] = k
      OBVIOUS
    <3>1. task[k] \notin {"none", "over"} <=> root[k] # NoMessage /\ active[root[k]] = k
      BY DEF TreesInv, ClaimInv
    <3>2. CASE k = m \/ k = next
      BY <3>2, <1>2, <1>a, MessageFacts
    <3>3. CASE k # m /\ k # next
      <4>1. root[k] # NoMessage => (active'[root[k]] = k <=> active[root[k]] = k)
        BY <3>3, <1>2, <2>1
      <4> QED
        BY <3>1, <3>3, <4>1, <1>2
    <3> QED
      BY <3>2, <3>3
  <2> QED
    BY <2>3, <2>4, <2>5 DEF ClaimInv
<1>7. QueueInv'
  <2> SUFFICES ASSUME NEW k \in Messages
               PROVE  /\ IsInjective(queue'[k])
                      /\ \A c \in Messages : c \in ToSet(queue'[k]) <=> state'[c] = "pending" /\ root[c] = k
                      /\ queue'[k] # <<>> => active'[k] # NoMessage
    BY DEF QueueInv, IsInjective, ToSet
  <2>1. /\ IsInjective(queue[k])
        /\ \A c \in Messages : c \in ToSet(queue[k]) <=> state[c] = "pending" /\ root[c] = k
        /\ queue[k] # <<>> => active[k] # NoMessage
    BY DEF TreesInv, QueueInv
  <2>2. CASE k = r
    BY <2>1, <2>2, <1>2, <1>3, MessageFacts
  <2>3. CASE k # r
    BY <2>1, <2>3, <1>2, <1>a
  <2> QED
    BY <2>2, <2>3
<1>8. \A k \in Messages : state'[k] = "none" <=> state[k] = "none"
  BY <1>2, <1>a
<1>9. ToSet(trees)' = ToSet(trees) /\ ToSet(trees) \subseteq Messages
  BY NodeFacts DEF ToSet
<1>10. IndexInv'
  BY <1>8, <1>9 DEF TreesInv, IndexInv
<1>11. GraphInv'
  <2>1. \A k \in Messages : state'[k] \in Runnable => state[k] \in Runnable
    BY <1>2, <1>a DEF Runnable
  <2> QED
    BY <1>8, <1>9, <2>1 DEF TreesInv, GraphInv
<1>12. ServedInv'
  BY <1>2, <1>a, <1>8, <1>9 DEF TreesInv, ServedInv
<1>13. StoppedInv'
  <2>1. stopped \subseteq Messages
    BY DEF TreesInv, TypeOK
  <2>2. next \notin stopped
    BY <1>a DEF TreesInv, StoppedInv, Runnable
  <2> QED
    BY <2>1, <2>2, <1>2 DEF TreesInv, StoppedInv
<1> QED
  BY <1>4, <1>5, <1>6, <1>7, <1>10, <1>11, <1>12, <1>13 DEF TreesInv

(* Both kinds of hand-over.                                                *)
LEMMA FinishStep ==
  ASSUME TreesInv, NEW m \in Messages, Finish(m)
  PROVE  TreesInv'
<1> DEFINE r == root[m]
<1>1. /\ r \in Messages /\ task[m] = "finishing" /\ active[r] = m
      /\ asked' = asked \ {m}
      /\ UNCHANGED <<intakeVars, status, session, indexVars, commandVars>>
      /\ \/ /\ queue[r] = <<>>
            /\ active' = [active EXCEPT ![r] = NoMessage]
            /\ queue' = [queue EXCEPT ![r] = <<>>]
            /\ task' = [task EXCEPT ![m] = "over"]
            /\ UNCHANGED state
         \/ \E next \in Messages : HandsOver(m, r, next)
  BY FinishFacts
<1>2. CASE /\ queue[r] = <<>>
           /\ active' = [active EXCEPT ![r] = NoMessage]
           /\ queue' = [queue EXCEPT ![r] = <<>>]
           /\ task' = [task EXCEPT ![m] = "over"]
           /\ UNCHANGED state
  BY <1>1, <1>2, FinishEmpty DEF nodeVars
<1>3. ASSUME NEW next \in Messages, HandsOver(m, r, next) PROVE TreesInv'
  BY <1>1, <1>3, FinishNext
<1> QED
  BY <1>1, <1>2, <1>3

-----------------------------------------------------------------------------
(* The commands.                                                           *)

(* What they all do to claims and nodes: nothing is made to run.            *)
Cancelling ==
  /\ UNCHANGED <<intake, reply, root, active>>
  /\ fresh' \subseteq fresh
  /\ state' \in [Messages -> States]
  /\ \A k \in Messages : /\ state[k] = "none" => state'[k] = "none"
                         /\ state'[k] \in Runnable => state'[k] = state[k]
  /\ task' \in [Messages -> Tasks]
  /\ \A k \in Messages : /\ task'[k] \in {"none", "over"} => task'[k] = task[k]
                         /\ task[k] \in {"none", "over"} => task'[k] = task[k]
                         /\ task'[k] \in {"launched", "running"} => task'[k] = task[k]
  /\ asked' \subseteq asked \union {active[r] : r \in Messages}
  /\ NoMessage \notin asked'

(* Cancelling keeps claims and what may not run where they are.             *)
LEMMA CancellingKeeps ==
  ASSUME TreesInv, Cancelling
  PROVE  /\ IntakeInv' /\ RootInv' /\ ClaimInv'
         /\ asked' \in SUBSET ActiveIn(Messages)'
<1>1. IntakeInv' /\ RootInv'
  BY DEF Cancelling, TreesInv, IntakeInv, RootInv
<1>2. ClaimInv'
  <2>1. \A k \in Messages :
          /\ task'[k] \notin {"none", "over"} <=> task[k] \notin {"none", "over"}
          /\ state'[k] = "pending" => state[k] = "pending"
          /\ task[k] = "none" => task'[k] = "none"
    BY DEF Cancelling, Runnable
  <2>2. UNCHANGED <<root, active>>
    BY DEF Cancelling
  <2> QED
    BY <2>1, <2>2 DEF TreesInv, ClaimInv
<1>3. asked' \in SUBSET ActiveIn(Messages)'
  <2>1. asked \subseteq {active[r] : r \in Messages}
    BY DEF TreesInv, TypeOK, ActiveIn
  <2> QED
    BY <2>1 DEF Cancelling, ActiveIn
<1> QED
  BY <1>1, <1>2, <1>3

(* Cancelling the tasks of claims does that.                               *)
LEMMA CancelTasksFacts ==
  ASSUME TreesInv, NEW ms, CancelTasks(ms)
  PROVE  /\ task' \in [Messages -> Tasks]
         /\ \A k \in Messages : /\ task'[k] \in {"none", "over"} => task'[k] = task[k]
                                /\ task[k] \in {"none", "over"} => task'[k] = task[k]
                                /\ task'[k] \in {"launched", "running"} =>
                                     task'[k] = task[k] /\ k \notin ms
<1>1. task \in [Messages -> Tasks]
  BY DEF TreesInv, TypeOK
<1>2. \A k \in Messages : task'[k] = IF k \notin ms THEN task[k]
                                     ELSE IF task[k] = "launched" THEN "finishing"
                                     ELSE IF task[k] = "running" THEN "unwinding"
                                     ELSE task[k]
  BY DEF CancelTasks
<1>3. \A k \in Messages : task'[k] \in Tasks
  BY <1>1, <1>2 DEF Tasks
<1>4. task' = [k \in Messages |-> task'[k]]
  BY DEF CancelTasks
<1>5. task' \in [Messages -> Tasks]
  BY <1>3, <1>4
<1> QED
  BY <1>2, <1>5

LEMMA IssueFacts ==
  ASSUME TreesInv, Issue
  PROVE  commands' \in 0..MaxCommands
BY MaxType DEF TreesInv, TypeOK, Issue

(* A command on the whole chat gets through trees that are published.       *)
LEMMA ReachedFacts ==
  ASSUME TreesInv
  PROVE  Reached \subseteq ToSet(trees)
<1> DEFINE Test(r) == active[r] # NoMessage /\ Raises(active[r])
           I == {i \in 1..Len(trees) : Test(trees[i])}
           bad == SelectInSeq(trees, LAMBDA r : active[r] # NoMessage /\ Raises(active[r]))
<1>1. trees \in Seq(Messages)
  BY DEF TreesInv, TypeOK
<1>2. bad = IF I # {} THEN Min(I) ELSE 0
  BY DEF SelectInSeq
<1>3. Len(trees) \in Nat /\ DOMAIN trees = 1..Len(trees) /\ \A i \in 1..Len(trees) : trees[i] \in Messages
  BY <1>1, LenProperties, ElementOfSeq
<1>4. bad \in 0..Len(trees)
  <2>1. I \in SUBSET Nat /\ I \subseteq 1..Len(trees)
    BY <1>3
  <2> HIDE DEF I
  <2>2. CASE I = {}
    BY <2>2, <1>2, <1>3
  <2>3. CASE I # {}
    <3>1. \E n \in I : \A k \in I : n <= k
      BY <2>1, <2>3, Least
    <3>2. Min(I) \in I
      BY <3>1 DEF Min
    <3> QED
      BY <3>2, <2>1, <2>3, <1>2, <1>3
  <2> QED
    BY <2>2, <2>3
<1>5. Reached = IF bad = 0 THEN ToSet(trees) ELSE ToSet(SubSeq(trees, 1, bad - 1))
  BY DEF Reached
<1> HIDE DEF bad
<1>6. CASE bad = 0
  BY <1>5, <1>6
<1>7. CASE bad # 0
  <2> DEFINE t == SubSeq(trees, 1, bad - 1)
  <2>1. bad - 1 \in Nat /\ bad - 1 < Len(trees) /\ 1 \in Int /\ bad - 1 \in Int
    BY <1>3, <1>4, <1>7
  <2>2. \A i \in 1..bad - 1 : trees[i] \in Messages /\ i \in 1..Len(trees)
    BY <2>1, <1>3
  <2>3. /\ t \in Seq(Messages) /\ Len(t) = IF 1 <= bad - 1 THEN bad - 1 - 1 + 1 ELSE 0
        /\ \A i \in 1..bad - 1 - 1 + 1 : t[i] = trees[1 + i - 1]
    BY <2>1, <2>2, SubSeqProperties
  <2> HIDE DEF t
  <2>4. Len(t) = bad - 1
    <3>1. \A n \in Nat : (IF 1 <= n THEN n - 1 + 1 ELSE 0) = n
      OBVIOUS
    <3> QED
      BY <3>1, <2>1, <2>3
  <2>5. DOMAIN t = 1..bad - 1
    BY <2>3, <2>4, LenProperties
  <2>6. \A i \in 1..bad - 1 : t[i] = trees[i]
    <3>1. bad - 1 - 1 + 1 = bad - 1 /\ \A i \in 1..bad - 1 : 1 + i - 1 = i
      BY <2>1
    <3> QED
      BY <3>1, <2>3
  <2>7. ToSet(t) \subseteq ToSet(trees)
    BY <2>2, <2>5, <2>6, <1>3 DEF ToSet
  <2> QED
    BY <2>7, <1>5, <1>7 DEF t
<1> QED
  BY <1>6, <1>7

(* What /stop and /clear of the chat do to the trees they get through.      *)
LEMMA WholeChatFacts ==
  ASSUME TreesInv, NEW rs, rs \subseteq ToSet(trees), WholeChat(rs),
         UNCHANGED <<intake, reply, root>>
  PROVE  /\ Cancelling /\ QueueInv' /\ StoppedInv'
         /\ queue' \in [Messages -> Seq(Messages)]
         /\ commands' \in 0..MaxCommands /\ draining' \in BOOLEAN /\ stopped' \subseteq Messages
         /\ \A k \in Messages :
              /\ state'[k] = "none" <=> state[k] = "none"
              /\ state'[k] \in Runnable => root[k] \notin rs
              /\ task'[k] \in {"launched", "running"} => root[k] \notin rs
<1>1. /\ Issue /\ CancelTrees(rs) /\ fresh' = {} /\ draining' = (rs = ToSet(trees))
      /\ stopped' = IF rs = ToSet(trees) THEN {m \in Messages : intake[m] # "unsent"} ELSE stopped
  BY DEF WholeChat
<1>2. /\ state' = [m \in Messages |->
                     IF root[m] \in rs /\ state[m] \in Runnable THEN "error" ELSE state[m]]
      /\ queue' = [r \in Messages |-> IF r \in rs THEN <<>> ELSE queue[r]]
      /\ asked' = asked \union ActiveIn(rs)
      /\ CancelTasks(ActiveIn(rs)) /\ active' = active
  BY <1>1 DEF CancelTrees
<1>3. /\ state \in [Messages -> States] /\ queue \in [Messages -> Seq(Messages)]
      /\ stopped \subseteq Messages /\ rs \subseteq Messages
      /\ NoMessage \notin asked
  BY NodeFacts, ClaimFacts, MessageFacts DEF TreesInv, TypeOK
<1>4. /\ \A k \in Messages :
           state'[k] = IF root[k] \in rs /\ state[k] \in Runnable THEN "error" ELSE state[k]
      /\ state' \in [Messages -> States]
  BY <1>2, <1>3 DEF States
<1>5. /\ task' \in [Messages -> Tasks]
      /\ \A k \in Messages : /\ task'[k] \in {"none", "over"} => task'[k] = task[k]
                             /\ task[k] \in {"none", "over"} => task'[k] = task[k]
                             /\ task'[k] \in {"launched", "running"} =>
                                  task'[k] = task[k] /\ k \notin ActiveIn(rs)
  BY <1>2, CancelTasksFacts
<1>6. Cancelling
  <2>1. asked' \subseteq asked \union {active[r] : r \in Messages} /\ NoMessage \notin asked'
    BY <1>2, <1>3 DEF ActiveIn
  <2>2. fresh' \subseteq fresh
    BY <1>1
  <2> QED
    BY <2>1, <2>2, <1>2, <1>4, <1>5 DEF Cancelling, Runnable
<1>7. \A k \in Messages :
        /\ state'[k] = "none" <=> state[k] = "none"
        /\ state'[k] \in Runnable => root[k] \notin rs /\ state'[k] = state[k]
  BY <1>4 DEF Runnable
<1>8. \A k \in Messages : task'[k] \in {"launched", "running"} => root[k] \notin rs
  <2> SUFFICES ASSUME NEW k \in Messages, task'[k] \in {"launched", "running"}, root[k] \in rs
               PROVE  FALSE
    OBVIOUS
  <2>1. task[k] \notin {"none", "over"} /\ k \notin ActiveIn(rs)
    BY <1>5
  <2>2. active[root[k]] = k
    BY <2>1 DEF TreesInv, ClaimInv
  <2> QED
    BY <2>1, <2>2, MessageFacts DEF ActiveIn
<1>9. QueueInv'
  <2> SUFFICES ASSUME NEW k \in Messages
               PROVE  /\ IsInjective(queue'[k])
                      /\ \A c \in Messages : c \in ToSet(queue'[k]) <=> state'[c] = "pending" /\ root[c] = k
                      /\ queue'[k] # <<>> => active[k] # NoMessage
    BY <1>2 DEF QueueInv, IsInjective, ToSet
  <2>1. /\ IsInjective(queue[k])
        /\ \A c \in Messages : c \in ToSet(queue[k]) <=> state[c] = "pending" /\ root[c] = k
        /\ queue[k] # <<>> => active[k] # NoMessage
    BY DEF TreesInv, QueueInv
  <2>2. CASE k \in rs
    <3>1. queue'[k] = <<>>
      BY <2>2, <1>2
    <3>2. ToSet(<<>>) = {} /\ IsInjective(<<>>)
      BY DEF ToSet, IsInjective
    <3> QED
      BY <2>2, <3>1, <3>2, <1>7 DEF Runnable
  <2>3. CASE k \notin rs
    <3>1. queue'[k] = queue[k]
      BY <2>3, <1>2
    <3>2. \A c \in Messages : root[c] = k => (state'[c] = "pending" <=> state[c] = "pending")
      BY <2>3, <1>4
    <3> QED
      BY <2>1, <3>1, <3>2
  <2> QED
    BY <2>2, <2>3
<1>10. StoppedInv'
  <2>1. CASE rs = ToSet(trees)
    <3> SUFFICES ASSUME NEW k \in Messages, intake[k] # "unsent"
                 PROVE  state'[k] \notin Runnable /\ task'[k] \notin {"launched", "running"}
      BY <2>1, <1>1 DEF StoppedInv
    <3>1. state'[k] \notin Runnable
      BY <2>1, <1>7 DEF TreesInv, ServedInv
    <3>2. task'[k] \notin {"launched", "running"}
      BY <2>1, <1>5, <1>8 DEF TreesInv, ServedInv
    <3> QED
      BY <3>1, <3>2
  <2>2. CASE rs # ToSet(trees)
    BY <2>2, <1>1, <1>3, <1>5, <1>7 DEF TreesInv, StoppedInv
  <2> QED
    BY <2>1, <2>2
<1>11. queue' \in [Messages -> Seq(Messages)]
  BY <1>2, <1>3, EmptySeq
<1>12. commands' \in 0..MaxCommands /\ draining' \in BOOLEAN /\ stopped' \subseteq Messages
  BY <1>1, <1>3, IssueFacts
<1> QED
  BY <1>6, <1>7, <1>8, <1>9, <1>10, <1>11, <1>12

(* /stop of the chat.                                                      *)
LEMMA StopAllStep ==
  ASSUME TreesInv, StopAll
  PROVE  TreesInv'
<1> USE DEF indexVars
<1>1. WholeChat(Reached) /\ UNCHANGED <<intake, reply, root, status, session, indexVars>>
  BY DEF StopAll
<1>2. /\ Cancelling /\ QueueInv' /\ StoppedInv'
      /\ queue' \in [Messages -> Seq(Messages)]
      /\ commands' \in 0..MaxCommands /\ draining' \in BOOLEAN /\ stopped' \subseteq Messages
      /\ \A k \in Messages : state'[k] = "none" <=> state[k] = "none"
  BY <1>1, ReachedFacts, WholeChatFacts
<1>3. IntakeInv' /\ RootInv' /\ ClaimInv' /\ asked' \in SUBSET ActiveIn(Messages)'
  BY <1>2, CancellingKeeps
<1>4. TypeOK'
  <2>1. fresh' \subseteq Messages /\ active' = active
    BY <1>2 DEF Cancelling, TreesInv, TypeOK
  <2> QED
    BY <1>1, <1>2, <1>3, <2>1 DEF Cancelling, TreesInv, TypeOK
<1>5. /\ ToSet(trees)' = ToSet(trees) /\ ToSet(trees) \subseteq Messages
      /\ \A k \in Messages : state'[k] \in Runnable => state[k] \in Runnable
      /\ \A k \in Messages : task'[k] \in {"launched", "running"} => task'[k] = task[k]
  BY <1>1, <1>2, NodeFacts DEF Cancelling, ToSet
<1>6. ServedInv' /\ IndexInv'
  BY <1>1, <1>2, <1>5 DEF TreesInv, ServedInv, IndexInv
<1>7. GraphInv'
  BY <1>1, <1>2, <1>5 DEF TreesInv, GraphInv
<1> QED
  BY <1>2, <1>3, <1>4, <1>6, <1>7 DEF TreesInv

(* /clear of the chat, which forgets the trees unless it raises.            *)
LEMMA ClearChatStep ==
  ASSUME TreesInv, ClearChat
  PROVE  TreesInv'
<1>1. /\ WholeChat(Reached) /\ UNCHANGED <<intake, reply, root, status, session>>
      /\ trees' = Without(trees, Reached)
      /\ indexed' = {ref \in indexed : root[ref[1]] \notin Reached}
  BY DEF ClearChat
<1>2. /\ Cancelling /\ QueueInv' /\ StoppedInv'
      /\ queue' \in [Messages -> Seq(Messages)]
      /\ commands' \in 0..MaxCommands /\ draining' \in BOOLEAN /\ stopped' \subseteq Messages
      /\ \A k \in Messages :
           /\ state'[k] = "none" <=> state[k] = "none"
           /\ state'[k] \in Runnable => root[k] \notin Reached
           /\ task'[k] \in {"launched", "running"} => root[k] \notin Reached
  BY <1>1, ReachedFacts, WholeChatFacts
<1>3. IntakeInv' /\ RootInv' /\ ClaimInv' /\ asked' \in SUBSET ActiveIn(Messages)'
  BY <1>2, CancellingKeeps
<1>4. trees' \in Seq(Messages) /\ ToSet(trees') = ToSet(trees) \ Reached
  BY <1>1, Kept DEF TreesInv, TypeOK
<1>5. TypeOK'
  <2>1. fresh' \subseteq Messages /\ active' = active /\ indexed' \subseteq References
    BY <1>1, <1>2 DEF Cancelling, TreesInv, TypeOK
  <2> QED
    BY <1>1, <1>2, <1>3, <1>4, <2>1 DEF Cancelling, TreesInv, TypeOK
<1>6. /\ \A k \in Messages : state'[k] \in Runnable => state[k] \in Runnable
      /\ \A k \in Messages : task'[k] \in {"launched", "running"} => task'[k] = task[k]
      /\ ToSet(trees)' = ToSet(trees') /\ ToSet(trees) \subseteq Messages
      /\ UNCHANGED root
  BY <1>2, NodeFacts DEF Cancelling, ToSet
<1>7. ServedInv'
  BY <1>2, <1>4, <1>6 DEF TreesInv, ServedInv
<1>8. IndexInv'
  <2>1. \A k \in Messages : /\ Prompt(k) \in indexed' <=> Prompt(k) \in indexed /\ root[k] \notin Reached
                            /\ Status(k) \in indexed' <=> Status(k) \in indexed /\ root[k] \notin Reached
    BY <1>1, ReferenceFacts
  <2> QED
    BY <2>1, <1>1, <1>2, <1>4, <1>6 DEF TreesInv, IndexInv, Prompt, Status
<1>9. GraphInv'
  <2>1. \A r \in ToSet(trees') : state'[r] # "none" /\ reply'[r] = NoReference
    BY <1>1, <1>2, <1>4, <1>6 DEF TreesInv, GraphInv
  <2>2. \A k \in Messages :
          state'[k] # "none" /\ root[k] \in ToSet(trees') =>
            /\ reply[k] # NoReference => reply[k] \in indexed'
            /\ state'[k] \in Runnable => k \in status
    <3> SUFFICES ASSUME NEW k \in Messages, state'[k] # "none", root[k] \in ToSet(trees')
                 PROVE  /\ reply[k] # NoReference => reply[k] \in indexed'
                        /\ state'[k] \in Runnable => k \in status
      OBVIOUS
    <3>1. state[k] # "none" /\ root[k] \in ToSet(trees) /\ root[k] \notin Reached /\ root[k] # NoMessage
      BY <1>2, <1>4, <1>6, MessageFacts
    <3>2. reply[k] # NoReference => reply[k] \in indexed /\ root[reply[k][1]] = root[k]
      BY <3>1 DEF TreesInv, GraphInv, RootInv
    <3>3. state[k] \in Runnable => k \in status
      BY <3>1 DEF TreesInv, GraphInv
    <3> QED
      BY <3>1, <3>2, <3>3, <1>1, <1>6
  <2> QED
    BY <2>1, <2>2, <1>1, <1>6 DEF GraphInv
<1> QED
  BY <1>2, <1>3, <1>5, <1>7, <1>8, <1>9 DEF TreesInv

(* A command that removes no node leaves the graph as it is.               *)
LEMMA CancellingOnly ==
  ASSUME TreesInv, Cancelling, \A k \in Messages : state'[k] = "none" <=> state[k] = "none",
         queue' \in [Messages -> Seq(Messages)], QueueInv',
         commands' \in 0..MaxCommands, draining' \in BOOLEAN,
         UNCHANGED <<status, session, indexVars, stopped>>
  PROVE  TreesInv'
<1> USE DEF indexVars
<1>1. IntakeInv' /\ RootInv' /\ ClaimInv' /\ asked' \in SUBSET ActiveIn(Messages)'
  BY CancellingKeeps
<1>2. TypeOK'
  <2>1. fresh' \subseteq Messages /\ active' = active
    BY DEF Cancelling, TreesInv, TypeOK
  <2> QED
    BY <1>1, <2>1 DEF Cancelling, TreesInv, TypeOK
<1>3. /\ ToSet(trees)' = ToSet(trees) /\ ToSet(trees) \subseteq Messages /\ stopped \subseteq Messages
      /\ \A k \in Messages : state'[k] \in Runnable => state[k] \in Runnable
      /\ \A k \in Messages : task'[k] \in {"launched", "running"} => task'[k] = task[k]
      /\ UNCHANGED <<intake, reply, root>> /\ fresh' \subseteq fresh
  BY NodeFacts DEF TreesInv, TypeOK, Cancelling, ToSet
<1>4. ServedInv' /\ IndexInv' /\ StoppedInv'
  BY <1>3 DEF TreesInv, ServedInv, IndexInv, StoppedInv
<1>5. GraphInv'
  BY <1>3 DEF TreesInv, GraphInv
<1> QED
  BY <1>1, <1>2, <1>4, <1>5 DEF TreesInv

(* /stop in reply to a message.                                            *)
LEMMA StopReplyStep ==
  ASSUME TreesInv, NEW ref \in References, StopReply(ref)
  PROVE  TreesInv'
<1> DEFINE m == ref[1]
           r == root[m]
           claimed == Claimed(r, {m})
<1>1. /\ ref \in indexed /\ Issue /\ asked' = asked \union claimed
      /\ IF claimed # {} /\ Raises(m)
         THEN UNCHANGED <<state, queue, task, draining>>
         ELSE /\ state' = [state EXCEPT ![m] = IF @ \in Runnable THEN "error" ELSE @]
              /\ queue' = DroppedFromQueue(r, {m})
              /\ CancelTasks(claimed)
              /\ draining' = TRUE
      /\ UNCHANGED <<intakeVars, status, session, active, indexVars, stopped>>
  BY DEF StopReply
<1>2. m \in Messages /\ state[m] # "none" /\ r \in Messages
  BY <1>1, IndexFacts
<1>3. claimed \subseteq {active[k] : k \in Messages} /\ NoMessage \notin claimed
  BY <1>2, MessageFacts DEF Claimed
<1>4. /\ state \in [Messages -> States] /\ queue \in [Messages -> Seq(Messages)]
      /\ task \in [Messages -> Tasks] /\ draining \in BOOLEAN
      /\ NoMessage \notin asked
  BY ClaimFacts, MessageFacts DEF TreesInv, TypeOK
<1>5. commands' \in 0..MaxCommands
  BY <1>1, IssueFacts
<1> HIDE DEF m, r, claimed
<1>6. asked' \subseteq asked \union {active[k] : k \in Messages} /\ NoMessage \notin asked'
  BY <1>1, <1>3, <1>4
<1>7. CASE claimed # {} /\ Raises(m)
  <2>1. UNCHANGED <<state, queue, task, draining>>
    BY <1>1, <1>7
  <2>2. Cancelling
    BY <2>1, <1>1, <1>4, <1>6 DEF Cancelling, intakeVars
  <2>3. QueueInv'
    BY <2>1, <1>1 DEF TreesInv, QueueInv, IsInjective, ToSet, intakeVars
  <2> QED
    BY <2>1, <2>2, <2>3, <1>1, <1>4, <1>5, CancellingOnly
<1>8. CASE ~(claimed # {} /\ Raises(m))
  <2>1. /\ state' = [state EXCEPT ![m] = IF @ \in Runnable THEN "error" ELSE @]
        /\ queue' = DroppedFromQueue(r, {m}) /\ CancelTasks(claimed) /\ draining' = TRUE
    BY <1>1, <1>8
  <2>2. /\ state' \in [Messages -> States]
        /\ \A k \in Messages : state'[k] = IF k = m /\ state[m] \in Runnable THEN "error" ELSE state[k]
    BY <2>1, <1>2, <1>4 DEF States
  <2>3. /\ task' \in [Messages -> Tasks]
        /\ \A k \in Messages : /\ task'[k] \in {"none", "over"} => task'[k] = task[k]
                               /\ task[k] \in {"none", "over"} => task'[k] = task[k]
                               /\ task'[k] \in {"launched", "running"} => task'[k] = task[k]
    BY <2>1, CancelTasksFacts
  <2>4. /\ \A k \in Messages : state'[k] = "none" <=> state[k] = "none"
        /\ \A k \in Messages : state'[k] \in Runnable => state'[k] = state[k]
        /\ \A k \in Messages : state'[k] = "pending" <=> state[k] = "pending" /\ k \notin {m}
    BY <2>2 DEF Runnable
  <2>5. Cancelling
    BY <2>2, <2>3, <2>4, <1>1, <1>6 DEF Cancelling, intakeVars
  <2>6. queue' \in [Messages -> Seq(Messages)]
    BY <2>1, <1>2, DropFacts
  <2>7. QueueInv'
    <3>1. \A k \in Messages :
            /\ IsInjective(queue'[k])
            /\ \A c \in Messages : c \in ToSet(queue'[k]) <=> state'[c] = "pending" /\ root[c] = k
            /\ queue'[k] # <<>> => active[k] # NoMessage
      <4> DEFINE ms == {m}
      <4>1. \A k \in Messages : k \in ms => root[k] = r
        BY DEF r
      <4>2. /\ \A k \in Messages : state'[k] = "pending" <=> state[k] = "pending" /\ k \notin ms
            /\ queue' = DroppedFromQueue(r, ms)
        BY <2>1, <2>4
      <4> HIDE DEF ms
      <4> QED
        BY <4>1, <4>2, <1>2, MarkedQueue
    <3> QED
      BY <3>1, <1>1 DEF QueueInv, IsInjective, ToSet, intakeVars
  <2>8. draining' \in BOOLEAN
    BY <2>1
  <2> QED
    BY <2>4, <2>5, <2>6, <2>7, <2>8, <1>1, <1>5, CancellingOnly
<1> QED
  BY <1>7, <1>8

(* What a removal takes out of a tree: nodes of that tree only, with every  *)
(* reply to them and every status message of theirs; all of them, if it     *)
(* takes the first.                                                        *)
LEMMA SubtreeFacts ==
  ASSUME TreesInv, NEW ref \in indexed, NEW r, r = root[ref[1]], NEW refs, refs = Subtree(ref)
  PROVE  /\ refs \subseteq References /\ ref \in refs
         /\ \A x \in refs : x[1] \in Messages /\ state[x[1]] # "none" /\ root[x[1]] = r
         /\ \A m \in Messages :
              /\ state[m] # "none" /\ reply[m] \in refs => Prompt(m) \in refs
              /\ state[m] # "none" /\ m \in status /\ Prompt(m) \in refs => Status(m) \in refs
              /\ Status(m) \in refs => Status(m) = ref \/ Prompt(m) \in refs
              /\ Prompt(r) \in refs /\ state[m] # "none" /\ root[m] = r => Prompt(m) \in refs
<1>1. /\ ref \in References /\ ref[1] \in Messages /\ state[ref[1]] # "none"
      /\ r \in ToSet(trees) /\ r \in Messages
  BY IndexFacts
<1>2. /\ refs \subseteq References /\ ref \in refs /\ Replies(refs) \subseteq refs
      /\ \A x \in refs : x = ref \/ x \in Replies(refs)
  BY <1>1, SubtreeIsClosed, SubtreeHangs
<1>3. \A x \in refs : x[1] \in Messages /\ state[x[1]] # "none" /\ root[x[1]] = r
  <2> DEFINE X == {x \in References : state[x[1]] # "none" /\ root[x[1]] = r}
  <2>1. ref \in X
    BY <1>1
  <2>2. ASSUME NEW m \in Messages, state[m] # "none", reply[m] \in X PROVE Prompt(m) \in X
    <3>1. root[m] # NoMessage /\ reply[m] # NoReference
      BY <2>2, NodeFacts, MessageFacts, ReferenceFacts
    <3>2. root[m] = root[reply[m][1]]
      BY <3>1 DEF TreesInv, RootInv
    <3> QED
      BY <2>2, <3>2, ReferenceFacts
  <2>3. ASSUME NEW m \in Messages, Prompt(m) \in X PROVE Status(m) \in X
    BY <2>3, ReferenceFacts
  <2>4. Replies(X) \subseteq X
    <3> HIDE DEF X
    <3> QED
      BY <2>2, <2>3 DEF Replies, Nodes
  <2>5. Subtree(ref) \subseteq X
    <3> HIDE DEF X
    <3> QED
      BY <1>1, <2>1, <2>4, SubtreeIsLeast
  <2> QED
    BY <2>5, ReferenceFacts
<1>4. ASSUME NEW m \in Messages, state[m] # "none", reply[m] \in refs PROVE Prompt(m) \in refs
  BY <1>2, <1>4 DEF Replies, Nodes
<1>5. ASSUME NEW m \in Messages, state[m] # "none", m \in status, Prompt(m) \in refs
      PROVE  Status(m) \in refs
  BY <1>2, <1>5 DEF Replies, Nodes
<1>6. ASSUME NEW m \in Messages, Status(m) \in refs, Status(m) # ref PROVE Prompt(m) \in refs
  <2>1. Status(m) \in Replies(refs)
    BY <1>2, <1>6
  <2> QED
    BY <2>1, ReferenceFacts DEF Replies
<1>7. ASSUME Prompt(r) \in refs
      PROVE  \A m \in Messages : state[m] # "none" /\ root[m] = r => Prompt(m) \in refs
  <2> DEFINE Bad == {m \in Messages : state[m] # "none" /\ root[m] = r /\ Prompt(m) \notin refs}
  <2> SUFFICES ASSUME Bad # {} PROVE FALSE
    OBVIOUS
  <2>1. Bad \in SUBSET Nat
    BY MessageFacts
  <2>2. PICK b \in Bad : \A n \in Bad : b <= n
    <3> HIDE DEF Bad
    <3> QED
      BY <2>1, Least
  <2>3. b \in Messages /\ state[b] # "none" /\ root[b] = r /\ Prompt(b) \notin refs /\ root[b] # NoMessage
    BY <1>1, MessageFacts
  <2>4. reply[b] # NoReference
    BY <2>3, <1>7 DEF TreesInv, RootInv
  <2>5. reply[b] \in indexed /\ reply[b][1] < b /\ root[reply[b][1]] = r
    BY <2>3, <2>4, <1>1 DEF TreesInv, GraphInv, IntakeInv, RootInv
  <2> DEFINE x == reply[b][1]
  <2>6. /\ x \in Messages /\ state[x] # "none" /\ root[x] = r /\ x < b
        /\ reply[b] = Prompt(x) \/ reply[b] = Status(x)
    BY <2>5, IndexFacts, ReferenceFacts
  <2>7. x \notin Bad
    BY <2>1, <2>2, <2>6
  <2>8. Prompt(x) \in refs
    BY <2>6, <2>7
  <2>9. reply[b] \in refs
    <3>1. CASE reply[b] = Prompt(x)
      BY <3>1, <2>8
    <3>2. CASE reply[b] = Status(x)
      <4>1. x \in status
        BY <2>5, <2>6, <3>2 DEF TreesInv, IndexInv
      <4> QED
        BY <4>1, <3>2, <2>6, <2>8, <1>5
    <3> QED
      BY <2>6, <3>1, <3>2
  <2> QED
    BY <2>3, <2>9, <1>4
<1> QED
  BY <1>2, <1>3, <1>4, <1>5, <1>6, <1>7

(* A removal that raises has marked some nodes of the tree.                 *)
LEMMA ClearReplyRaises ==
  ASSUME TreesInv, NEW r \in Messages, NEW affected, NEW claimed, NEW ms \in SUBSET (affected \ claimed),
         \A k \in affected : k \in Messages /\ state[k] # "none" /\ root[k] = r,
         claimed \subseteq {active[k] : k \in Messages}, NoMessage \notin claimed,
         Issue, asked' = asked \union claimed,
         state' = [m \in Messages |->
                     IF m \in ms /\ state[m] \in Runnable THEN "error" ELSE state[m]],
         queue' = DroppedFromQueue(r, ms),
         UNCHANGED <<status, session, task, indexVars, draining>>,
         UNCHANGED <<intakeVars, active, stopped>>
  PROVE  TreesInv'
<1>1. state \in [Messages -> States] /\ task \in [Messages -> Tasks] /\ draining \in BOOLEAN /\ NoMessage \notin asked
  BY ClaimFacts, MessageFacts DEF TreesInv, TypeOK
<1>2. \A k \in Messages : state'[k] = IF k \in ms /\ state[k] \in Runnable THEN "error" ELSE state[k]
  OBVIOUS
<1>3. state' \in [Messages -> States]
  BY <1>1 DEF States
<1>4. \A k \in Messages : /\ state'[k] = "none" <=> state[k] = "none"
                          /\ state'[k] \in Runnable => state'[k] = state[k]
                          /\ state'[k] = "pending" <=> state[k] = "pending" /\ k \notin ms
  BY <1>2 DEF Runnable
<1>5. Cancelling
  <2>1. asked' \subseteq asked \union {active[k] : k \in Messages} /\ NoMessage \notin asked'
    BY <1>1
  <2> QED
    BY <2>1, <1>1, <1>3, <1>4 DEF Cancelling, intakeVars
<1>6. queue' \in [Messages -> Seq(Messages)]
  BY DropFacts
<1>7. \A k \in Messages : k \in ms => root[k] = r
  OBVIOUS
<1>8. QueueInv'
  <2>1. \A k \in Messages :
          /\ IsInjective(queue'[k])
          /\ \A c \in Messages : c \in ToSet(queue'[k]) <=> state'[c] = "pending" /\ root[c] = k
          /\ queue'[k] # <<>> => active[k] # NoMessage
    BY <1>4, <1>7, MarkedQueue
  <2> QED
    BY <2>1 DEF QueueInv, IsInjective, ToSet, intakeVars
<1>9. commands' \in 0..MaxCommands
  BY IssueFacts
<1> QED
  BY <1>1, <1>4, <1>5, <1>6, <1>8, <1>9, CancellingOnly

(* One that does not takes the subtree out of the tree and of the index.    *)
Takes(ref, r, refs, removed, affected, claimed) ==
  /\ state' = [m \in Messages |->
                 IF m \in removed THEN "none" ELSE IF m = ref[1] THEN "error" ELSE state[m]]
  /\ status' = status \ affected
  /\ session' = session \ affected
  /\ queue' = DroppedFromQueue(r, affected)
  /\ indexed' = indexed \ Unindexed(r, refs)
  /\ trees' = Without(trees, removed)
  /\ CancelTasks(claimed)
  /\ draining' = TRUE

(* A removal that goes through.                                            *)
LEMMA ClearReplyTakes ==
  ASSUME TreesInv, NEW ref \in indexed, NEW r, r = root[ref[1]],
         NEW refs, refs = Subtree(ref),
         NEW removed, removed = {m \in Nodes : Prompt(m) \in refs},
         NEW affected, affected = removed \union {ref[1]},
         NEW claimed, claimed = Claimed(r, affected),
         Issue, asked' = asked \union claimed,
         Takes(ref, r, refs, removed, affected, claimed),
         UNCHANGED <<intakeVars, active, stopped>>
  PROVE  TreesInv'
<1> USE DEF intakeVars
<1>1. /\ ref \in References /\ ref[1] \in Messages /\ state[ref[1]] # "none"
      /\ r \in ToSet(trees) /\ r \in Messages
  BY IndexFacts
<1>2. /\ refs \subseteq References /\ ref \in refs
      /\ \A x \in refs : x[1] \in Messages /\ state[x[1]] # "none" /\ root[x[1]] = r
      /\ \A m \in Messages :
           /\ state[m] # "none" /\ reply[m] \in refs => Prompt(m) \in refs
           /\ state[m] # "none" /\ m \in status /\ Prompt(m) \in refs => Status(m) \in refs
           /\ Status(m) \in refs => Status(m) = ref \/ Prompt(m) \in refs
           /\ Prompt(r) \in refs /\ state[m] # "none" /\ root[m] = r => Prompt(m) \in refs
  BY SubtreeFacts
<1>3. /\ \A m \in Messages : m \in removed <=> Prompt(m) \in refs
      /\ removed \subseteq Messages
      /\ \A m \in affected : m \in Messages /\ state[m] # "none" /\ root[m] = r
  BY <1>1, <1>2, ReferenceFacts DEF Nodes
<1>4. \A m \in Messages : m \in affected <=> m \in removed \/ m = ref[1]
  OBVIOUS
<1>5. \A m \in affected : active[r] = m => m \in claimed
  BY DEF Claimed
<1>6. claimed \subseteq {active[k] : k \in Messages} /\ NoMessage \notin claimed
  BY <1>1, <1>3, MessageFacts DEF Claimed
<1>7. /\ state \in [Messages -> States] /\ NoMessage \notin asked
      /\ trees \in Seq(Messages) /\ ToSet(trees) \subseteq Messages
      /\ indexed \subseteq References /\ status \subseteq Messages /\ session \subseteq Messages
      /\ stopped \subseteq Messages
  BY ClaimFacts, NodeFacts, MessageFacts DEF TreesInv, TypeOK
<1>8. /\ state' = [m \in Messages |->
                     IF m \in removed THEN "none" ELSE IF m = ref[1] THEN "error" ELSE state[m]]
      /\ status' = status \ affected /\ session' = session \ affected
      /\ queue' = DroppedFromQueue(r, affected)
      /\ indexed' = indexed \ Unindexed(r, refs)
      /\ trees' = Without(trees, removed)
      /\ CancelTasks(claimed) /\ draining' = TRUE
  BY DEF Takes
<1> HIDE DEF Takes
<1>9. \A m \in Messages : /\ m \in removed => state'[m] = "none"
                          /\ m \notin removed /\ m = ref[1] => state'[m] = "error"
                          /\ m \notin affected => state'[m] = state[m]
  BY <1>4, <1>8
<1>10. state' \in [Messages -> States]
  BY <1>7, <1>8 DEF States
<1>11. \A m \in Messages : /\ state'[m] # "none" <=> state[m] # "none" /\ m \notin removed
                           /\ state'[m] \in Runnable => state'[m] = state[m] /\ m \notin affected
                           /\ state'[m] = "pending" <=> state[m] = "pending" /\ m \notin affected
  BY <1>1, <1>3, <1>4, <1>9 DEF Runnable
<1>12. /\ task' \in [Messages -> Tasks]
       /\ \A k \in Messages : /\ task'[k] \in {"none", "over"} => task'[k] = task[k]
                              /\ task[k] \in {"none", "over"} => task'[k] = task[k]
                              /\ task'[k] \in {"launched", "running"} =>
                                   task'[k] = task[k] /\ k \notin claimed
  BY <1>8, CancelTasksFacts
<1>13. Cancelling
  <2>1. asked' \subseteq asked \union {active[k] : k \in Messages} /\ NoMessage \notin asked'
    BY <1>6, <1>7
  <2>2. \A k \in Messages : state[k] = "none" => state'[k] = "none"
    BY <1>11
  <2> QED
    BY <2>1, <2>2, <1>10, <1>11, <1>12 DEF Cancelling
<1>14. IntakeInv' /\ RootInv' /\ ClaimInv' /\ asked' \in SUBSET ActiveIn(Messages)'
  BY <1>13, CancellingKeeps
<1>15. trees' \in Seq(Messages) /\ ToSet(trees') = ToSet(trees) \ removed /\ ToSet(trees)' = ToSet(trees')
  <2>1. trees' \in Seq(Messages) /\ ToSet(trees') = ToSet(trees) \ removed
    BY <1>7, <1>8, Kept
  <2>2. ToSet(trees)' = ToSet(trees')
    BY DEF ToSet
  <2> QED
    BY <2>1, <2>2
<1>16. queue' \in [Messages -> Seq(Messages)]
  BY <1>1, <1>8, DropFacts
<1>17. TypeOK'
  <2>1. draining' \in BOOLEAN /\ commands' \in 0..MaxCommands
    BY <1>8, IssueFacts
  <2>2. indexed' \subseteq References /\ status' \subseteq Messages /\ session' \subseteq Messages
    BY <1>7, <1>8
  <2> QED
    BY <2>1, <2>2, <1>10, <1>12, <1>14, <1>15, <1>16 DEF TreesInv, TypeOK
<1>18. QueueInv'
  <2>1. \A k \in Messages :
          /\ IsInjective(queue'[k])
          /\ \A c \in Messages : c \in ToSet(queue'[k]) <=> state'[c] = "pending" /\ root[c] = k
          /\ queue'[k] # <<>> => active[k] # NoMessage
    <3>1. \A k \in Messages : k \in affected => root[k] = r
      BY <1>3
    <3>2. \A k \in Messages : state'[k] = "pending" <=> state[k] = "pending" /\ k \notin affected
      BY <1>11
    <3> QED
      BY <3>1, <3>2, <1>1, <1>8, MarkedQueue
  <2> QED
    BY <2>1 DEF QueueInv, IsInjective, ToSet
(* The tree goes if its first node does, and then with all its nodes.      *)
<1>19. \A k \in Messages :
         state'[k] # "none" => (root[k] \in ToSet(trees') <=> root[k] \in ToSet(trees))
  <2> SUFFICES ASSUME NEW k \in Messages, state'[k] # "none", root[k] \in ToSet(trees), root[k] \in removed
               PROVE  FALSE
    BY <1>15
  <2>1. root[k] \in Messages /\ root[root[k]] = root[k]
    BY <1>7, NodeFacts
  <2>2. root[k] = r /\ Prompt(r) \in refs
    BY <2>1, <1>3
  <2> QED
    BY <2>2, <1>2, <1>3, <1>11
<1>20. ServedInv'
  <2>1. \A k \in Messages : state'[k] \in Runnable => root[k] \in ToSet(trees')
    BY <1>11, <1>19 DEF TreesInv, ServedInv, Runnable
  <2>2. ASSUME NEW k \in Messages, task'[k] \in {"launched", "running"}
        PROVE  state'[k] # "none" /\ root[k] \in ToSet(trees')
    <3>1. /\ task[k] \in {"launched", "running"} /\ k \notin claimed
          /\ state[k] # "none" /\ root[k] \in ToSet(trees)
      BY <2>2, <1>12 DEF TreesInv, ServedInv
    <3>2. active[root[k]] = k
      BY <3>1 DEF TreesInv, ClaimInv
    <3>3. k \notin affected
      BY <3>1, <3>2, <1>3, <1>5
    <3>4. state'[k] # "none"
      BY <3>1, <3>3, <1>9
    <3> QED
      BY <3>1, <3>4, <1>19
  <2> QED
    BY <2>1, <2>2, <1>15 DEF ServedInv
(* What leaves the index: the references of the nodes that go, and the      *)
(* status message that the removal started from.                           *)
<1>21. \A k \in Messages :
         /\ Prompt(k) \in indexed' <=> Prompt(k) \in indexed /\ k \notin removed
         /\ Status(k) \in indexed' <=> Status(k) \in indexed /\ k \notin affected
  <2> SUFFICES ASSUME NEW k \in Messages
               PROVE  /\ Prompt(k) \in indexed' <=> Prompt(k) \in indexed /\ k \notin removed
                      /\ Status(k) \in indexed' <=> Status(k) \in indexed /\ k \notin affected
    OBVIOUS
  <2>1. CASE Prompt(r) \in refs
    <3>1. Unindexed(r, refs) = {x \in indexed : root[x[1]] = r}
      BY <2>1 DEF Unindexed
    <3>2. /\ Prompt(k) \in indexed' <=> Prompt(k) \in indexed /\ root[k] # r
          /\ Status(k) \in indexed' <=> Status(k) \in indexed /\ root[k] # r
      BY <3>1, <1>8, ReferenceFacts
    <3>3. Prompt(k) \in indexed \/ Status(k) \in indexed => state[k] # "none"
      BY DEF TreesInv, IndexInv
    <3>4. state[k] # "none" => (root[k] = r <=> k \in removed)
      BY <2>1, <1>2, <1>3
    <3>5. ref[1] \in removed
      BY <2>1, <1>1, <1>2, <1>3
    <3> QED
      BY <3>2, <3>3, <3>4, <3>5, <1>4
  <2>2. CASE Prompt(r) \notin refs
    <3>1. Unindexed(r, refs) = refs
      BY <2>2 DEF Unindexed
    <3>2. /\ Prompt(k) \in indexed' <=> Prompt(k) \in indexed /\ Prompt(k) \notin refs
          /\ Status(k) \in indexed' <=> Status(k) \in indexed /\ Status(k) \notin refs
      BY <3>1, <1>8
    <3>3. Status(k) \in indexed => (Status(k) \in refs <=> k \in affected)
      <4> SUFFICES ASSUME Status(k) \in indexed PROVE Status(k) \in refs <=> k \in affected
        OBVIOUS
      <4>1. state[k] # "none" /\ k \in status
        BY DEF TreesInv, IndexInv
      <4>2. Status(k) \in refs => k \in affected
        BY <1>2, <1>3, <1>4, ReferenceFacts
      <4>3. k \in removed => Status(k) \in refs
        BY <4>1, <1>2, <1>3
      <4>4. k = ref[1] => Status(k) \in refs
        BY <4>1, <1>1, <1>2, ReferenceFacts
      <4> QED
        BY <4>2, <4>3, <4>4, <1>4
    <3> QED
      BY <3>2, <3>3, <1>3
  <2> QED
    BY <2>1, <2>2
<1>22. IndexInv'
  <2>1. \A k \in Messages :
          /\ Prompt(k) \in indexed' <=> state'[k] # "none" /\ root[k] \in ToSet(trees')
          /\ Status(k) \in indexed' <=> state'[k] # "none" /\ root[k] \in ToSet(trees') /\ k \in status'
    <3> SUFFICES ASSUME NEW k \in Messages
                 PROVE  /\ Prompt(k) \in indexed' <=> state'[k] # "none" /\ root[k] \in ToSet(trees')
                        /\ Status(k) \in indexed' <=>
                             state'[k] # "none" /\ root[k] \in ToSet(trees') /\ k \in status'
      OBVIOUS
    <3>1. /\ Prompt(k) \in indexed <=> state[k] # "none" /\ root[k] \in ToSet(trees)
          /\ Status(k) \in indexed <=> state[k] # "none" /\ root[k] \in ToSet(trees) /\ k \in status
      BY DEF TreesInv, IndexInv
    <3>2. k \in status' <=> k \in status /\ k \notin affected
      BY <1>8
    <3> QED
      BY <3>1, <3>2, <1>4, <1>11, <1>19, <1>21
  <2> QED
    BY <2>1, <1>15 DEF IndexInv, Prompt, Status
(* No node that stays replies to a reference that goes.                    *)
<1>23. GraphInv'
  <2>1. \A t \in ToSet(trees') : state'[t] # "none" /\ reply[t] = NoReference
    BY <1>7, <1>11, <1>15 DEF TreesInv, GraphInv
  <2>2. ASSUME NEW k \in Messages, state'[k] # "none", root[k] \in ToSet(trees')
        PROVE  /\ reply[k] # NoReference => reply[k] \in indexed'
               /\ state'[k] \in Runnable => k \in status'
    <3>1. state[k] # "none" /\ root[k] \in ToSet(trees) /\ k \notin removed
      BY <2>2, <1>11, <1>19
    <3>2. /\ reply[k] # NoReference => reply[k] \in indexed
          /\ state[k] \in Runnable => k \in status
      BY <3>1 DEF TreesInv, GraphInv
    <3>3. state'[k] \in Runnable => k \in status'
      BY <3>2, <1>8, <1>11
    <3>4. reply[k] # NoReference => reply[k] \in indexed'
      <4> SUFFICES ASSUME reply[k] # NoReference PROVE reply[k] \in indexed'
        OBVIOUS
      <4> DEFINE x == reply[k][1]
      <4>1. /\ reply[k] \in indexed /\ reply[k] \notin refs /\ x \in Messages
            /\ reply[k] = Prompt(x) \/ reply[k] = Status(x)
        BY <3>1, <3>2, <1>2, <1>3, IndexFacts, ReferenceFacts
      <4>2. CASE reply[k] = Prompt(x)
        <5>1. Prompt(x) \in indexed /\ x \notin removed
          BY <4>1, <4>2, <1>3
        <5> QED
          BY <5>1, <4>1, <4>2, <1>21
      <4>3. CASE reply[k] = Status(x)
        <5>1. Status(x) \in indexed /\ Status(x) \notin refs
          BY <4>1, <4>3
        <5>2. state[x] # "none" /\ x \in status
          BY <5>1, <4>1 DEF TreesInv, IndexInv
        <5>3. x \notin removed
          BY <5>1, <5>2, <4>1, <1>2, <1>3
        <5>4. x # ref[1]
          BY <5>1, <5>3, <1>1, <1>2, <1>3, ReferenceFacts
        <5> QED
          BY <5>1, <5>3, <5>4, <4>1, <4>3, <1>4, <1>21
      <4> QED
        BY <4>1, <4>2, <4>3
    <3> QED
      BY <3>3, <3>4
  <2> QED
    BY <2>1, <2>2, <1>15 DEF GraphInv
<1>24. StoppedInv'
  BY <1>7, <1>11, <1>12 DEF TreesInv, StoppedInv
<1> QED
  BY <1>14, <1>17, <1>18, <1>20, <1>22, <1>23, <1>24 DEF TreesInv

(* /clear in reply to a message.                                           *)
LEMMA ClearReplyStep ==
  ASSUME TreesInv, NEW ref \in References, ClearReply(ref)
  PROVE  TreesInv'
<1>1. PICK r, refs, removed, affected, claimed :
        /\ r = root[ref[1]] /\ refs = Subtree(ref)
        /\ removed = {m \in Nodes : Prompt(m) \in refs}
        /\ affected = removed \union {ref[1]}
        /\ claimed = Claimed(r, affected)
  OBVIOUS
<1>2. /\ ref \in indexed /\ Issue /\ asked' = asked \union claimed
      /\ \/ /\ \E ms \in SUBSET (affected \ claimed) :
                 /\ state' = [m \in Messages |->
                                IF m \in ms /\ state[m] \in Runnable THEN "error" ELSE state[m]]
                 /\ queue' = DroppedFromQueue(r, ms)
            /\ UNCHANGED <<status, session, task, indexVars, draining>>
         \/ Takes(ref, r, refs, removed, affected, claimed)
      /\ UNCHANGED <<intakeVars, active, stopped>>
  BY <1>1 DEF ClearReply, Takes
<1>3. /\ r \in Messages
      /\ \A k \in affected : k \in Messages /\ state[k] # "none" /\ root[k] = r
  <2>1. ref[1] \in Messages /\ state[ref[1]] # "none" /\ r \in Messages
    BY <1>1, <1>2, IndexFacts
  <2>2. \A x \in refs : x[1] \in Messages /\ state[x[1]] # "none" /\ root[x[1]] = r
    BY <1>1, <1>2, SubtreeFacts
  <2>3. \A m \in removed : m \in Messages /\ state[m] # "none" /\ root[m] = r
    BY <1>1, <2>2, ReferenceFacts DEF Nodes
  <2> QED
    BY <1>1, <2>1, <2>3
<1>4. claimed \subseteq {active[k] : k \in Messages} /\ NoMessage \notin claimed
  BY <1>1, <1>3, MessageFacts DEF Claimed
<1>5. ASSUME NEW ms \in SUBSET (affected \ claimed),
             state' = [m \in Messages |->
                         IF m \in ms /\ state[m] \in Runnable THEN "error" ELSE state[m]],
             queue' = DroppedFromQueue(r, ms),
             UNCHANGED <<status, session, task, indexVars, draining>>
      PROVE  TreesInv'
  BY <1>2, <1>3, <1>4, <1>5, ClearReplyRaises
<1>6. CASE Takes(ref, r, refs, removed, affected, claimed)
  BY <1>1, <1>2, <1>6, ClearReplyTakes
<1> QED
  BY <1>2, <1>5, <1>6

-----------------------------------------------------------------------------
(* The theorems.                                                           *)

LEMMA NextKeeps ==
  ASSUME TreesInv, [Next]_vars
  PROVE  TreesInv'
<1>1. ASSUME NEW m \in Messages, IntakeStep(m) PROVE TreesInv'
  BY <1>1, ReceiveStep, DiscardStep, AdmitStep DEF IntakeStep
<1>2. ASSUME NEW m \in Messages, RecordSession(m) \/ Report(m) PROVE TreesInv'
  BY <1>2, RecordSessionStep, CompleteStep, FailStep DEF Report
<1>3. ASSUME NEW m \in Messages, TaskStep(m) PROVE TreesInv'
  BY <1>3, StartRunnerStep, EndRunnerStep, FinishStep DEF TaskStep
<1>4. CASE Command
  BY <1>4, StopAllStep, ClearChatStep, StopReplyStep, ClearReplyStep DEF Command
<1>5. CASE EndCommand
  BY <1>5, EndCommandStep
<1>6. CASE Quiescent \/ UNCHANGED vars
  BY <1>6, StutterStep DEF Quiescent
<1> QED
  BY <1>1, <1>2, <1>3, <1>4, <1>5, <1>6 DEF Next

(* The inductive invariant of the messaging trees: intake, claims, queues,  *)
(* repository, index and graphs agree in every state.                      *)
THEOREM Invariance == Spec => []TreesInv
<1>1. TreesInv /\ [Next]_vars => TreesInv'
  BY NextKeeps
<1> QED
  BY <1>1, InitInv, PTL DEF Spec

(* Every variable has its type (messaging/trees and the workflow's state).  *)
THEOREM TypeCorrect == Spec => []TypeOK
<1>1. TreesInv => TypeOK
  BY DEF TreesInv
<1> QED
  BY <1>1, Invariance, PTL

(* A tree executes one node at a time and holds the claim exactly as long   *)
(* as its task lives; its queue has each of its pending nodes once, and no  *)
(* node waits where nothing executes.                                      *)
THEOREM TreesServed == Spec => []TreesAreServed
<1>1. TreesInv => TreesAreServed
  <2> SUFFICES ASSUME TreesInv PROVE TreesAreServed
    OBVIOUS
  <2>1. \A r \in Messages :
          /\ IsInjective(queue[r]) /\ (queue[r] # <<>> => active[r] # NoMessage)
          /\ ToSet(queue[r]) = {m \in NodesOf(r) : state[m] = "pending"}
    <3> SUFFICES ASSUME NEW r \in Messages
                 PROVE  /\ IsInjective(queue[r]) /\ (queue[r] # <<>> => active[r] # NoMessage)
                        /\ ToSet(queue[r]) = {m \in NodesOf(r) : state[m] = "pending"}
      OBVIOUS
    <3>1. /\ IsInjective(queue[r])
          /\ \A m \in Messages : m \in ToSet(queue[r]) <=> state[m] = "pending" /\ root[m] = r
          /\ queue[r] # <<>> => active[r] # NoMessage
      BY DEF TreesInv, QueueInv
    <3>2. ToSet(queue[r]) \subseteq Messages
      <4>1. queue[r] \in Seq(Messages)
        BY DEF TreesInv, TypeOK
      <4> QED
        BY <4>1, LenProperties, ElementOfSeq DEF ToSet
    <3> QED
      BY <3>1, <3>2 DEF NodesOf, Nodes
  <2> QED
    BY <2>1 DEF TreesAreServed, TreesInv, ClaimInv
<1> QED
  BY <1>1, Invariance, PTL

(* The index knows exactly the prompts and live status messages of the      *)
(* trees the repository has.                                               *)
THEOREM IndexIsRight == Spec => []IndexMatchesGraphs
<1>1. TreesInv => IndexMatchesGraphs
  <2> SUFFICES ASSUME TreesInv PROVE IndexMatchesGraphs
    OBVIOUS
  <2>1. ASSUME NEW ref \in indexed
        PROVE  \E r \in ToSet(trees) : ref \in ReferencesOf(NodesOf(r))
    <3> DEFINE m == ref[1]
    <3>1. /\ m \in Messages /\ state[m] # "none" /\ root[m] \in ToSet(trees)
          /\ ref = Prompt(m) \/ ref = Status(m)
      BY IndexFacts, ReferenceFacts
    <3>2. ref = Status(m) => m \in status
      BY <3>1 DEF TreesInv, IndexInv
    <3>3. ref \in ReferencesOf(NodesOf(root[m]))
      BY <3>1, <3>2 DEF ReferencesOf, NodesOf, Nodes
    <3> QED
      BY <3>1, <3>3
  <2>2. ASSUME NEW r \in ToSet(trees), NEW ref \in ReferencesOf(NodesOf(r))
        PROVE  ref \in indexed
    BY DEF TreesInv, IndexInv, ReferencesOf, NodesOf, Nodes
  <2>3. indexed = UNION {ReferencesOf(NodesOf(r)) : r \in ToSet(trees)}
    BY <2>1, <2>2
  <2> QED
    BY <2>3 DEF IndexMatchesGraphs
<1> QED
  BY <1>1, Invariance, PTL

(* Every published tree can be restored: its first node is there, every     *)
(* other node replies to something that still is, and a node that may run   *)
(* has a status message.                                                   *)
THEOREM TreesRestorable == Spec => []Restorable
<1>1. TreesInv => Restorable
  <2> SUFFICES ASSUME TreesInv, NEW r \in ToSet(trees)
               PROVE  /\ r \in Nodes /\ reply[r] = NoReference
                      /\ \A m \in NodesOf(r) :
                           /\ m # r => reply[m] \in ReferencesOf(NodesOf(r))
                           /\ state[m] \in Runnable => m \in status
    BY DEF Restorable
  <2>1. r \in Nodes /\ reply[r] = NoReference
    BY NodeFacts DEF TreesInv, GraphInv, Nodes
  <2>2. ASSUME NEW m \in NodesOf(r)
        PROVE  /\ m # r => reply[m] \in ReferencesOf(NodesOf(r))
               /\ state[m] \in Runnable => m \in status
    <3>1. m \in Messages /\ state[m] # "none" /\ root[m] = r /\ root[m] # NoMessage
      BY NodeFacts, MessageFacts DEF NodesOf, Nodes
    <3>2. state[m] \in Runnable => m \in status
      BY <3>1 DEF TreesInv, GraphInv
    <3>3. ASSUME m # r PROVE reply[m] \in ReferencesOf(NodesOf(r))
      <4> DEFINE x == reply[m][1]
      <4>1. reply[m] # NoReference /\ root[x] = r
        BY <3>1, <3>3 DEF TreesInv, RootInv
      <4>2. reply[m] \in indexed
        BY <3>1, <4>1 DEF TreesInv, GraphInv
      <4>3. /\ x \in Messages /\ state[x] # "none"
            /\ reply[m] = Prompt(x) \/ reply[m] = Status(x)
        BY <4>2, IndexFacts, ReferenceFacts
      <4>4. reply[m] = Status(x) => x \in status
        BY <4>2, <4>3 DEF TreesInv, IndexInv
      <4> QED
        BY <4>1, <4>3, <4>4 DEF ReferencesOf, NodesOf, Nodes
    <3> QED
      BY <3>2, <3>3
  <2> QED
    BY <2>1, <2>2
<1> QED
  BY <1>1, Invariance, PTL

(* What was received before a successful /stop or /clear of the chat never  *)
(* runs after it, wherever it was on its way.                              *)
THEOREM StoppedForGood == Spec => []StoppedStaysStopped
<1>1. TreesInv => StoppedStaysStopped
  BY DEF TreesInv, StoppedInv, StoppedStaysStopped
<1> QED
  BY <1>1, Invariance, PTL

(* No step completes a cancelled claim or gives its node a session.         *)
LEMMA FinalNext ==
  ASSUME TreesInv, [Next]_vars, NEW m \in Messages, m \in asked \/ task[m] = "over"
  PROVE  /\ state'[m] \in {state[m], "error", "none"}
         /\ m \in session' => m \in session
<1>1. /\ state \in [Messages -> States]
      /\ intake[m] = "admitted" /\ state[m] # "pending" /\ task[m] # "none"
  BY NodeFacts, ClaimFacts DEF TreesInv, TypeOK, ClaimInv
<1>2. \A k \in Messages : MayReport(k) => k # m
  BY DEF MayReport, Working
<1>3. CASE \E k \in Messages : IntakeStep(k)
  <2>1. PICK k \in Messages : IntakeStep(k)
    BY <1>3
  <2>2. CASE Receive(k) \/ Discard(k)
    BY <2>2 DEF Receive, Discard, nodeVars
  <2>3. CASE Admit(k)
    <3>1. k # m
      BY <2>3, <1>1 DEF Admit
    <3>2. state'[m] = state[m] /\ session' = session
      BY <2>3, <3>1, <1>1 DEF Admit, Enter
    <3> QED
      BY <3>2
  <2> QED
    BY <2>1, <2>2, <2>3 DEF IntakeStep
<1>4. CASE \E k \in Messages : RecordSession(k) \/ Report(k)
  <2>1. PICK k \in Messages : RecordSession(k) \/ Complete(k) \/ Fail(k)
    BY <1>4 DEF Report
  <2>2. CASE RecordSession(k)
    BY <2>2, <1>2 DEF RecordSession
  <2>3. CASE Complete(k)
    BY <2>3, <1>1, <1>2 DEF Complete
  <2>4. CASE Fail(k)
    BY <2>4 DEF Fail
  <2> QED
    BY <2>1, <2>2, <2>3, <2>4
<1>5. CASE \E k \in Messages : TaskStep(k)
  <2>1. PICK k \in Messages : StartRunner(k) \/ EndRunner(k) \/ Finish(k)
    BY <1>5 DEF TaskStep
  <2>2. CASE StartRunner(k) \/ EndRunner(k)
    BY <2>2 DEF StartRunner, EndRunner, nodeVars
  <2>3. CASE Finish(k)
    <3>1. /\ session' = session
          /\ state' = state \/ \E next \in Messages : HandsOver(k, root[k], next)
      BY <2>3, FinishFacts
    <3>2. ASSUME NEW next \in Messages, HandsOver(k, root[k], next) PROVE state'[m] = state[m]
      BY <3>2, <1>1 DEF HandsOver
    <3> QED
      BY <3>1, <3>2
  <2> QED
    BY <2>1, <2>2, <2>3
<1>6. CASE Command
  <2>1. CASE StopAll \/ ClearChat
    BY <2>1 DEF StopAll, ClearChat, WholeChat, CancelTrees
  <2>2. ASSUME NEW ref \in References, StopReply(ref)
        PROVE  state'[m] \in {state[m], "error", "none"} /\ session' = session
    BY <2>2, <1>1 DEF StopReply
  <2>3. ASSUME NEW ref \in References, ClearReply(ref)
        PROVE  state'[m] \in {state[m], "error", "none"} /\ session' \subseteq session
    BY <2>3 DEF ClearReply
  <2> QED
    BY <1>6, <2>1, <2>2, <2>3 DEF Command
<1>7. CASE EndCommand \/ Quiescent \/ UNCHANGED vars
  BY <1>7 DEF EndCommand, Quiescent, vars, nodeVars
<1> QED
  BY <1>3, <1>4, <1>5, <1>6, <1>7 DEF Next

(* Once a claim is cancelled or over, its node neither completes nor gets a *)
(* session that a later reply could resume.                                *)
THEOREM CancelledForGood == Spec => CancelledIsFinal
<1>1. TreesInv /\ [Next]_vars =>
        [\A m \in Messages :
           m \in asked \/ task[m] = "over" =>
             /\ state'[m] \in {state[m], "error", "none"}
             /\ m \in session' => m \in session]_vars
  BY FinalNext
<1> QED
  BY <1>1, Invariance, PTL DEF Spec, CancelledIsFinal
=============================================================================
