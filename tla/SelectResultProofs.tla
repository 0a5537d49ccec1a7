------------------------- MODULE SelectResultProofs -------------------------
(***************************************************************************)
(* Theorems about SelectResult: a token is decoded to its own alternative, *)
(* and a result answers every question as that alternative demands, for    *)
(* selections of any length over any channels.                             *)
(***************************************************************************)
EXTENDS SelectResult, FiniteSetTheorems, NaturalsInduction, TLAPS

-----------------------------------------------------------------------------
(* Numbers.                                                                *)

\* Less than, as a well-founded relation.
LEMMA LessThan ==
  \E R, S : /\ IsWellFoundedOn(R, S) /\ \A x : x \in S <=> x \in Nat
            /\ \A x, y \in Nat : <<x, y>> \in R <=> x < y
<1>1. IsWellFoundedOn(OpToRel(<, Nat), Nat)
  BY NatLessThanWellFounded
<1>2. \A x, y \in Nat : <<x, y>> \in OpToRel(<, Nat) <=> x < y
  BY DEF OpToRel
<1> WITNESS OpToRel(<, Nat), Nat
<1> QED
  BY <1>1, <1>2

LEMMA LeastOne ==
  ASSUME NEW T \in SUBSET Nat, T # {}
  PROVE  \E x \in T : \A y \in T : x <= y
<1> PICK R, S : /\ IsWellFoundedOn(R, S) /\ \A x : x \in S <=> x \in Nat
                /\ \A x, y \in Nat : <<x, y>> \in R <=> x < y
  BY LessThan
<1>1. T \subseteq S
  OBVIOUS
<1>2. \E x \in T : \A y \in T : ~(<<y, x>> \in R)
  BY <1>1, WFMin
<1>3. PICK x \in T : \A y \in T : ~(<<y, x>> \in R)
  BY <1>2
<1>4. \A y \in T : ~(y < x)
  BY <1>3
<1> QED
  BY <1>4

\* A set of indices that has all below each of its own is an interval.
LEMMA Initial ==
  ASSUME NEW n \in Nat, NEW D \in SUBSET (1..n),
         \A i, j \in 1..n : i < j /\ j \in D => i \in D
  PROVE  Cardinality(D) \in Nat /\ D = 1..Cardinality(D)
<1> PICK T : T = (1..(n + 1)) \ D
  OBVIOUS
<1>1. T \in SUBSET Nat /\ n + 1 \in T
  OBVIOUS
<1>2. PICK x \in T : \A y \in T : x <= y
  BY <1>1, LeastOne
<1>3. x \in 1..(n + 1) /\ x \notin D /\ x - 1 \in Nat
  OBVIOUS
<1>4. D = 1..(x - 1)
  <2>1. ASSUME NEW i \in 1..(x - 1)
        PROVE  i \in D
    BY <1>2, <1>3
  <2>2. ASSUME NEW i \in D
        PROVE  i \in 1..(x - 1)
    <3>1. i \in 1..n /\ i # x
      BY <1>3
    <3>2. ~(x < i)
      BY <1>3, <3>1
    <3> QED
      BY <1>3, <3>1, <3>2
  <2> QED
    BY <2>1, <2>2
<1>5. Cardinality(1..(x - 1)) = x - 1
  BY <1>3, FS_Interval
<1> QED
  BY <1>3, <1>4, <1>5

\* How many there are from one number on, up to another one.
LEMMA Between ==
  ASSUME NEW a \in Nat, NEW b \in Nat, a <= b
  PROVE  Cardinality((a + 1)..b) = b - a
<1> PICK c \in Int : c = a + 1
  OBVIOUS
<1>1. Cardinality(c..b) = IF c > b THEN 0 ELSE b - c + 1
  BY FS_Interval
<1> QED
  BY <1>1

-----------------------------------------------------------------------------
(* The alternatives of an operation stand together, in the order of the    *)
(* operations.                                                             *)

LEMMA SelectionFacts ==
  ASSUME NEW s \in SelectionsOfChannels
  PROVE  /\ Len(s.alts) \in Nat /\ DOMAIN s.alts = 1..Len(s.alts)
         /\ \A i \in 1..Len(s.alts) :
              /\ s.alts[i].op \in Nat
              /\ s.alts[i].kind \in {"read", "write", "nothing"}
              /\ s.alts[i].kind # "nothing" => s.alts[i].chan \in Channels
<1>1. s.alts \in Seq(Alternatives)
  BY DEF SelectionsOfChannels
<1>2. \A a \in Alternatives : /\ a.op \in Nat /\ a.kind \in {"read", "write", "nothing"}
                              /\ a.kind # "nothing" => a.chan \in Channels
  BY DEF Alternatives, Ops
<1> QED
  BY <1>1, <1>2

\* The number of the operation never falls from one alternative to the next.
LEMMA OpsRise ==
  ASSUME NEW s \in SelectionsOfChannels, NEW i \in 1..Len(s.alts), NEW j \in 1..Len(s.alts),
         i < j
  PROVE  s.alts[i].op <= s.alts[j].op
<1>1. OpsInOrder(s.alts)
  BY DEF SelectionsOfChannels
<1>2. Len(s.alts) \in Nat /\ \A k \in 1..Len(s.alts) : s.alts[k].op \in Nat
  BY SelectionFacts
<1> PICK n, f : n = Len(s.alts) /\ f = [k \in 1..n |-> s.alts[k].op]
  OBVIOUS
<1>3. /\ n \in Nat /\ f \in [1..n -> Nat] /\ \A k \in 1..n : f[k] = s.alts[k].op
      /\ i \in 1..n /\ j \in 1..n
  BY <1>2
<1>4. ASSUME NEW k \in 2..n
      PROVE  f[k - 1] <= f[k]
  <2>1. k \in 1..n /\ k - 1 \in 1..n
    BY <1>3
  <2>2. f[k] = f[k - 1] \/ f[k] = f[k - 1] + 1
    BY <1>1, <1>3, <2>1 DEF OpsInOrder
  <2>3. f[k - 1] \in Nat
    BY <1>3, <2>1
  <2> QED
    BY <2>2, <2>3
<1> DEFINE T == {k \in (i + 1)..n : f[k] < f[i]}
<1>5. T = {}
  <2> SUFFICES ASSUME T # {} PROVE FALSE
    OBVIOUS
  <2>1. T \in SUBSET Nat
    BY <1>3
  <2>2. PICK x \in T : \A y \in T : x <= y
    BY <2>1, LeastOne
  <2>3. x \in 2..n /\ x - 1 \in 1..n /\ x - 1 >= i /\ x - 1 < x /\ f[x] < f[i]
    BY <1>3
  <2>4. f[x - 1] <= f[x] /\ f[x - 1] \in Nat /\ f[x] \in Nat /\ f[i] \in Nat
    <3>1. f[x - 1] <= f[x]
      BY <1>4, <2>3
    <3>2. x \in 1..n /\ x - 1 \in 1..n /\ i \in 1..n
      BY <1>3, <2>3
    <3> QED
      BY <1>3, <3>1, <3>2
  <2>5. f[x - 1] < f[i]
    BY <2>3, <2>4
  <2>6. x - 1 # i
    BY <2>4, <2>5
  <2>7. x - 1 \in T
    BY <1>3, <2>3, <2>5, <2>6
  <2>8. x \in Nat /\ ~(x <= x - 1)
    BY <1>3
  <2> HIDE DEF T
  <2> QED
    BY <2>2, <2>7, <2>8
<1>6. j \in (i + 1)..n
  BY <1>3
<1>7. ~(f[j] < f[i]) /\ f[j] \in Nat /\ f[i] \in Nat
  BY <1>3, <1>5, <1>6
<1> QED
  BY <1>3, <1>7

\* The tokens of operation k, and of those before it.
Tokens(k) == {i \in DOMAIN sel.alts : sel.alts[i].op = k}
TokensBefore(k) == {i \in DOMAIN sel.alts : sel.alts[i].op < k}

LEMMA TokensStand ==
  ASSUME sel \in SelectionsOfChannels, NEW k \in Nat
  PROVE  /\ BaseToken(k) \in Nat /\ NumAlternatives(k) \in Nat
         /\ Tokens(k) = (BaseToken(k) + 1)..(BaseToken(k) + NumAlternatives(k))
<1> PICK n \in Nat : n = Len(sel.alts)
  BY SelectionFacts
<1>1. DOMAIN sel.alts = 1..n /\ \A i \in 1..n : sel.alts[i].op \in Nat
  BY SelectionFacts
<1>2. \A i, j \in 1..n : i < j => sel.alts[i].op <= sel.alts[j].op
  BY OpsRise
<1> DEFINE L == TokensBefore(k)
           U == {i \in 1..n : sel.alts[i].op <= k}
           b == Cardinality(L)
           m == Cardinality(U)
<1>3. L \in SUBSET (1..n) /\ U \in SUBSET (1..n)
  BY <1>1 DEF TokensBefore
<1>4. \A i, j \in 1..n : i < j /\ j \in L => i \in L
  BY <1>1, <1>2 DEF TokensBefore
<1>5. \A i, j \in 1..n : i < j /\ j \in U => i \in U
  BY <1>1, <1>2
<1>6. L \subseteq U /\ Tokens(k) = U \ L
  BY <1>1 DEF Tokens, TokensBefore
<1> HIDE DEF L, U
<1>7. b \in Nat /\ L = 1..b
  BY <1>3, <1>4, Initial
<1>8. m \in Nat /\ U = 1..m
  BY <1>3, <1>5, Initial
<1>9. b <= m
  <2>1. IsFiniteSet(U)
    BY <1>8, FS_Interval
  <2> QED
    BY <1>6, <2>1, FS_Subset
<1>10. Tokens(k) = (b + 1)..m
  BY <1>6, <1>7, <1>8
<1>11. Cardinality(Tokens(k)) = m - b
  BY <1>7, <1>8, <1>9, <1>10, Between
<1>12. BaseToken(k) = b /\ NumAlternatives(k) = m - b
  BY <1>11 DEF BaseToken, NumAlternatives, Tokens, TokensBefore, L
<1> QED
  BY <1>7, <1>8, <1>9, <1>10, <1>12

\* A token is among those of one operation, the one of its own alternative, and
\* is decoded to that alternative.  (select.hpp, select_ops_base_tokens)
THEOREM TokenDecoded ==
  ASSUME sel \in SelectionsOfChannels, NEW t \in DOMAIN sel.alts, NEW k \in Nat
  PROVE  /\ t - 1 - BaseToken(k) \in 0..(NumAlternatives(k) - 1) <=> sel.alts[t].op = k
         /\ sel.alts[t].op = k => AlternativeOf(k, t - 1 - BaseToken(k)) = sel.alts[t]
<1> DEFINE b == BaseToken(k)
           m == NumAlternatives(k)
<1>1. b \in Nat /\ m \in Nat /\ Tokens(k) = (b + 1)..(b + m)
  BY TokensStand
<1>2. t \in Nat
  BY SelectionFacts
<1>3. t \in Tokens(k) <=> sel.alts[t].op = k
  BY DEF Tokens
<1>4. t - 1 - b \in 0..(m - 1) <=> t \in (b + 1)..(b + m)
  BY <1>1, <1>2
<1>5. ASSUME sel.alts[t].op = k
      PROVE  AlternativeOf(k, t - 1 - b) = sel.alts[t]
  <2> DEFINE at == Tokens(k)
  <2>1. t \in at
    BY <1>3, <1>5
  <2>2. ASSUME NEW j \in at
        PROVE  Cardinality({i \in at : i < j}) = j - 1 - b
    <3>1. j \in Nat /\ j >= b + 1 /\ j <= b + m
      BY <1>1
    <3>2. {i \in at : i < j} = (b + 1)..(j - 1)
      BY <1>1, <3>1
    <3>3. j - 1 \in Nat /\ b <= j - 1
      BY <1>1, <3>1
    <3> HIDE DEF at
    <3>4. Cardinality((b + 1)..(j - 1)) = j - 1 - b
      BY <1>1, <3>3, Between
    <3> QED
      BY <3>2, <3>4
  <2>3. \A j \in at : Cardinality({i \in at : i < j}) = t - 1 - b <=> j = t
    BY <1>1, <1>2, <2>2
  <2>4. (CHOOSE j \in at : Cardinality({i \in at : i < j}) = t - 1 - b) = t
    BY <2>1, <2>3
  <2> QED
    BY <2>4 DEF AlternativeOf, Tokens
<1> QED
  BY <1>1, <1>3, <1>4, <1>5

-----------------------------------------------------------------------------
(* What is known of a result.                                              *)

\* The result is that of the alternative that took effect.
Told ==
  /\ token \in DOMAIN sel.alts
  /\ result \in Results
  /\ result.type = ResultType(Effective)
  /\ Effective.kind # "nothing" => result.chan = Effective.chan
  /\ result.val # NoValue <=> Effective.kind = "read" /\ SendType[Effective.chan] # Void

RInv == sel \in SelectionsOfChannels /\ (token # 0 => Told)

\* The alternative that took effect.
LEMMA EffectiveFacts ==
  ASSUME RInv, token # 0
  PROVE  /\ Told /\ token \in 1..Len(sel.alts)
         /\ Effective.op \in Nat /\ Effective.kind \in {"read", "write", "nothing"}
         /\ Effective.kind # "nothing" => Effective.chan \in Channels
BY SelectionFacts DEF RInv, Told, Effective

LEMMA TypeFacts ==
  ASSUME NEW a
  PROVE  /\ a.kind = "read" => ResultType(a) = ReadResult(SendType[a.chan])
         /\ a.kind = "write" => ResultType(a) = WriteResult(SendType[a.chan])
         /\ a.kind = "nothing" => ResultType(a) = NoResultT
BY DEF ResultType

\* Types of results are told apart by kind and send_type.
LEMMA TypesApart ==
  ASSUME NEW S, NEW T
  PROVE  /\ ReadResult(S) = ReadResult(T) <=> S = T
         /\ WriteResult(S) = WriteResult(T) <=> S = T
         /\ ReadResult(S) # WriteResult(T)
         /\ ReadResult(S) # NoResultT /\ WriteResult(S) # NoResultT
         /\ ReadResult(S).type = S /\ WriteResult(S).type = S
BY DEF ReadResult, WriteResult, NoResultT

LEMMA CompleteTells ==
  ASSUME RInv, NEW t \in DOMAIN sel.alts, Complete(t)
  PROVE  RInv'
<1>1. sel \in SelectionsOfChannels /\ sel' = sel /\ token' = t
  BY DEF RInv, Complete
<1>2. PICK k \in {sel.alts[i].op : i \in DOMAIN sel.alts} :
        /\ t - 1 - BaseToken(k) \in 0..(NumAlternatives(k) - 1)
        /\ result' = [type |-> ResultType(AlternativeOf(k, t - 1 - BaseToken(k))),
                      chan |-> IF AlternativeOf(k, t - 1 - BaseToken(k)).kind = "nothing"
                               THEN "none" ELSE AlternativeOf(k, t - 1 - BaseToken(k)).chan,
                      val |-> IF /\ AlternativeOf(k, t - 1 - BaseToken(k)).kind = "read"
                                 /\ SendType[AlternativeOf(k, t - 1 - BaseToken(k)).chan] # Void
                              THEN Value ELSE NoValue]
  BY DEF Complete
<1>3. k \in Nat
  BY <1>1, <1>2, SelectionFacts
<1>4. AlternativeOf(k, t - 1 - BaseToken(k)) = sel.alts[t]
  BY <1>1, <1>2, <1>3, TokenDecoded
<1> PICK a : a = sel.alts[t]
  OBVIOUS
<1>5. result' = [type |-> ResultType(a),
                 chan |-> IF a.kind = "nothing" THEN "none" ELSE a.chan,
                 val |-> IF a.kind = "read" /\ SendType[a.chan] # Void THEN Value ELSE NoValue]
  BY <1>2, <1>4
<1>6. a.kind \in {"read", "write", "nothing"} /\ (a.kind # "nothing" => a.chan \in Channels)
  BY <1>1, SelectionFacts
<1>7. result' \in Results
  BY <1>5, <1>6, TypeFacts DEF Results
<1>8. /\ result'.type = ResultType(a)
      /\ a.kind # "nothing" => result'.chan = a.chan
      /\ result'.val # NoValue <=> a.kind = "read" /\ SendType[a.chan] # Void
  BY <1>5, ResultAssumption DEF ResultAssumption
<1>9. Effective' = a
  BY <1>1 DEF Effective
<1>10. Told'
  BY <1>1, <1>7, <1>8, <1>9 DEF Told, ResultType
<1> QED
  BY <1>1, <1>10 DEF RInv

LEMMA MoveTells ==
  ASSUME RInv, NEW c \in Channels, MoveReceived(SendType[c])
  PROVE  RInv'
<1> DEFINE T == SendType[c]
<1>1. /\ sel' = sel /\ token' = token /\ token # 0
      /\ result.type = ReadResult(T) /\ T # Void
      /\ result' = [result EXCEPT !.val = MovedOut]
  BY DEF MoveReceived, Throws, Is
<1>2. Told
  BY <1>1 DEF RInv
<1>3. Effective.kind = "read" /\ SendType[Effective.chan] = T
  <2>1. ResultType(Effective) = ReadResult(T)
    BY <1>1, <1>2 DEF Told
  <2>2. Effective.kind \in {"read", "write", "nothing"}
    BY <1>1, EffectiveFacts
  <2>3. Effective.kind = "read"
    BY <2>1, <2>2, TypeFacts, TypesApart
  <2> QED
    BY <2>1, <2>3, TypeFacts, TypesApart
<1>4. /\ result' \in Results /\ result'.type = result.type /\ result'.chan = result.chan
      /\ result'.val = MovedOut
  BY <1>1, <1>2 DEF Told, Results
<1>5. MovedOut # NoValue
  BY ResultAssumption DEF ResultAssumption
<1>6. Effective' = Effective /\ ResultType(Effective)' = ResultType(Effective)
  BY <1>1 DEF Effective, ResultType
<1>7. Told'
  BY <1>1, <1>2, <1>3, <1>4, <1>5, <1>6 DEF Told
<1> QED
  BY <1>1, <1>7 DEF RInv

\* A result is that of the alternative that took effect, from the moment it is
\* returned, and whoever moves the value out of it.  (select_result.hpp)
THEOREM RInvHolds == Spec => []RInv
<1>1. Init => RInv
  BY ResultAssumption DEF Init, RInv, ResultAssumption
<1>2. RInv /\ [Next]_vars => RInv'
  <2>1. ASSUME RInv, UNCHANGED vars
        PROVE  RInv'
    BY <2>1 DEF vars, RInv, Told, Effective, ResultType
  <2> QED
    BY <2>1, CompleteTells, MoveTells DEF Next
<1> QED
  BY <1>1, <1>2, PTL DEF Spec

-----------------------------------------------------------------------------
(* The answers.                                                            *)

\* What a result says of its operation and its channel.
LEMMA Answers ==
  ASSUME RInv, token # 0, NEW c \in Channels
  PROVE  /\ ResultMatches(c) <=> Effective.kind # "nothing" /\ Effective.chan = c
         /\ Received(SendType[c]) <=>
              Effective.kind = "read" /\ SendType[Effective.chan] = SendType[c]
         /\ Sent(SendType[c]) <=>
              Effective.kind = "write" /\ SendType[Effective.chan] = SendType[c]
         /\ HasValue <=> Effective.kind # "nothing"
<1> PICK e : e = Effective
  OBVIOUS
<1>1. /\ e.kind \in {"read", "write", "nothing"}
      /\ result.type = ResultType(e) /\ (e.kind # "nothing" => result.chan = e.chan)
  BY EffectiveFacts DEF Told
<1>2. CASE e.kind = "read"
  <2>1. result.type = ReadResult(SendType[e.chan])
    BY <1>1, <1>2, TypeFacts
  <2>2. result.type # NoResultT /\ result.type.type = SendType[e.chan]
    BY <2>1, TypesApart
  <2> QED
    BY <1>1, <1>2, <2>1, <2>2, TypesApart DEF ResultMatches, Received, Sent, HasValue, Is
<1>3. CASE e.kind = "write"
  <2>1. result.type = WriteResult(SendType[e.chan])
    BY <1>1, <1>3, TypeFacts
  <2>2. result.type # NoResultT /\ result.type.type = SendType[e.chan]
    BY <2>1, TypesApart
  <2> QED
    BY <1>1, <1>3, <2>1, <2>2, TypesApart DEF ResultMatches, Received, Sent, HasValue, Is
<1>4. CASE e.kind = "nothing"
  <2>1. result.type = NoResultT
    BY <1>1, <1>4, TypeFacts
  <2> QED
    BY <1>4, <2>1, TypesApart DEF ResultMatches, Received, Sent, HasValue, Is
<1> QED
  BY <1>1, <1>2, <1>3, <1>4

\* Whichever channel a result is asked for, the answer is that of the
\* alternative that took effect.  (matches, received_from, sent_to)
THEOREM ResultsToldApart == Spec => []ToldApart
<1>1. ASSUME RInv
      PROVE  ToldApart
  <2> SUFFICES ASSUME token # 0, NEW c \in Channels
               PROVE  LET moved == Effective.kind # "nothing" /\ Effective.chan = c IN
                        /\ Asked(c, {"read", "write"}) => (Matches(c) <=> moved)
                        /\ Asked(c, {"read"}) =>
                             (ReceivedFrom(c) <=> moved /\ Effective.kind = "read")
                        /\ Asked(c, {"write"}) =>
                             (SentTo(c) <=> moved /\ Effective.kind = "write")
    BY DEF ToldApart
  <2> QED
    BY <1>1, Answers DEF Matches, ReceivedFrom, SentTo
<1> QED
  BY <1>1, RInvHolds, PTL

\* Two alternatives have one result type if and only if they are of one operation.
LEMMA OneTypeEach ==
  ASSUME NEW s \in SelectionsOfChannels, NEW i \in 1..Len(s.alts), NEW j \in 1..Len(s.alts)
  PROVE  ResultType(s.alts[i]) = ResultType(s.alts[j]) <=> s.alts[i].op = s.alts[j].op
<1> PICK a, b : a = s.alts[i] /\ b = s.alts[j]
  OBVIOUS
<1>1. a.kind \in {"read", "write", "nothing"} /\ b.kind \in {"read", "write", "nothing"}
  BY SelectionFacts
<1>2. OpsInOrder(s.alts) /\ WellTyped(s.alts)
      /\ IF s.wait THEN WaitableSelection(s.alts) ELSE WaitfreeSelection(s.alts)
  BY DEF SelectionsOfChannels
<1>3. a.op = b.op => a.kind = b.kind
  BY <1>2 DEF OpsInOrder
<1>4. a.kind # "nothing" /\ a.kind = b.kind =>
        (a.op = b.op <=> SendType[a.chan] = SendType[b.chan])
  BY <1>2 DEF WellTyped
<1>5. a.kind = "nothing" /\ b.kind = "nothing" => i = j
  BY <1>2 DEF WaitableSelection, WaitfreeSelection, AlwaysWaitfree
<1>6. CASE a.kind = "nothing" /\ b.kind = "nothing"
  BY <1>5, <1>6
<1>7. CASE a.kind = "read" /\ b.kind = "read"
  BY <1>4, <1>7, TypeFacts, TypesApart
<1>8. CASE a.kind = "write" /\ b.kind = "write"
  BY <1>4, <1>8, TypeFacts, TypesApart
<1>9. CASE a.kind # b.kind
  BY <1>1, <1>3, <1>9, TypeFacts, TypesApart
<1> QED
  BY <1>1, <1>6, <1>7, <1>8, <1>9

\* get() finds one type, that of the operation that was served, and throws for
\* all others of the selection.
THEOREM OneTypeIsFound == Spec => []OneTypeFits
<1>1. ASSUME RInv, token # 0
      PROVE  /\ \A T \in Types : ~Throws(T) <=> T = ResultType(Effective)
             /\ \A i \in DOMAIN sel.alts :
                  ~Throws(ResultType(sel.alts[i])) <=> sel.alts[i].op = Effective.op
             /\ NoResultT \in Types => (HasValue <=> Effective.kind # "nothing")
  <2>1. Told /\ token \in 1..Len(sel.alts) /\ sel \in SelectionsOfChannels
    BY <1>1, EffectiveFacts DEF RInv
  <2>2. result.type = ResultType(Effective) /\ Effective = sel.alts[token]
    BY <2>1 DEF Told, Effective
  <2>3. \A T : ~Throws(T) <=> T = ResultType(Effective)
    BY <2>2 DEF Throws, Is
  <2>4. ASSUME NEW i \in DOMAIN sel.alts
        PROVE  ~Throws(ResultType(sel.alts[i])) <=> sel.alts[i].op = Effective.op
    <3>1. i \in 1..Len(sel.alts)
      BY <2>1, SelectionFacts
    <3> QED
      BY <2>1, <2>2, <2>3, <3>1, OneTypeEach
  <2>5. HasValue <=> Effective.kind # "nothing"
    <3>1. Effective.kind = "nothing" <=> result.type = NoResultT
      BY <1>1, <2>2, EffectiveFacts, TypeFacts, TypesApart
    <3> QED
      BY <3>1 DEF HasValue, Is
  <2> QED
    BY <2>3, <2>4, <2>5
<1>2. RInv => OneTypeFits
  BY <1>1 DEF OneTypeFits
<1> QED
  BY <1>2, RInvHolds, PTL

\* A value is found through its type and through the channel it was read from,
\* and through nothing else.  (get_if_received, get_if_received_from)
THEOREM ValuesFound == Spec => []ValueFound
<1>1. ASSUME RInv, token # 0, NEW c \in Channels, SendType[c] # Void
      PROVE  /\ GetIfReceived(SendType[c]) # NoValue <=>
                  Effective.kind = "read" /\ SendType[Effective.chan] = SendType[c]
             /\ GetIfReceivedFrom(c) # NoValue <=> Effective.kind = "read" /\ Effective.chan = c
  <2>1. result # NoValue
    BY <1>1, EffectiveFacts, ResultAssumption DEF Told, ResultAssumption
  <2>2. result.val # NoValue <=> Effective.kind = "read" /\ SendType[Effective.chan] # Void
    BY <1>1, EffectiveFacts DEF Told
  <2>3. GetIf(ReadResult(SendType[c])) # NoValue <=> Received(SendType[c])
    BY <2>1 DEF GetIf, Received
  <2>4. /\ Received(SendType[c]) <=>
             Effective.kind = "read" /\ SendType[Effective.chan] = SendType[c]
        /\ ResultMatches(c) <=> Effective.kind # "nothing" /\ Effective.chan = c
    BY <1>1, Answers
  <2>5. GetIfReceived(SendType[c]) # NoValue <=>
          Effective.kind = "read" /\ SendType[Effective.chan] = SendType[c]
    BY <1>1, <2>2, <2>3, <2>4 DEF GetIfReceived
  <2>6. GetIfReceivedFrom(c) # NoValue <=> Effective.kind = "read" /\ Effective.chan = c
    BY <1>1, <2>2, <2>3, <2>4 DEF GetIfReceivedFrom
  <2> QED
    BY <2>5, <2>6
<1>2. RInv => ValueFound
  BY <1>1 DEF ValueFound
<1> QED
  BY <1>2, RInvHolds, PTL

=============================================================================
