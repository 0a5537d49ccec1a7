-------------------------- MODULE ExampleSumProofs --------------------------
(***************************************************************************)
(* Theorems about ExampleSum: no number is lost or added twice, every      *)
(* subtask is joined, and what sum_task returns is the sum of the array,   *)
(* for any number of subtasks and any array.                               *)
(***************************************************************************)
EXTENDS ExampleSum, FiniteSetTheorems, WellFoundedInduction, TLAPS

-----------------------------------------------------------------------------
(* Sums over finite sets.  A sum takes its set apart in one order, which   *)
(* CHOOSE picks; that it does not depend on it is an induction over the    *)
(* subsets of the set.                                                     *)

\* What holds of a subset whenever it holds of all smaller ones holds of all.
\* (The property is the set Q of the subsets that have it.)
LEMMA SubsetInduction ==
  ASSUME NEW S, IsFiniteSet(S), NEW Q,
         \A s \in SUBSET S : (\A r \in SUBSET s : r # s => r \in Q) => s \in Q
  PROVE  \A s \in SUBSET S : s \in Q
<1> SUFFICES ASSUME (SUBSET S) \ Q # {} PROVE FALSE
  OBVIOUS
<1> PICK T : T = (SUBSET S) \ Q
  OBVIOUS
<1>1. T \subseteq FiniteSubsetsOf(S) /\ T # {}
  BY FS_FiniteSubsetsOfFinite
<1>2. \E s \in T : \A r \in T : ~(<<r, s>> \in StrictSubsetOrdering(S))
  BY <1>1, FS_StrictSubsetOrderingWellFounded, WFMin
<1>3. PICK s \in T : \A r \in T : ~(<<r, s>> \in StrictSubsetOrdering(S))
  BY <1>2
<1>4. ASSUME NEW r \in SUBSET s, r # s
      PROVE  r \in Q
  <2>1. <<r, s>> \in StrictSubsetOrdering(S)
    BY <1>4 DEF StrictSubsetOrdering
  <2> QED
    BY <1>3, <2>1
<1> QED
  BY <1>4

\* The element taken first.
Pick(s) == CHOOSE x \in s : TRUE

\* h adds up f over every subset of S.
Adds(f, S, h) ==
  h = [s \in SUBSET S |-> IF s = {} THEN 0 ELSE f[Pick(s)] + h[s \ {Pick(s)}]]

LEMMA Picked ==
  ASSUME NEW s, s # {}
  PROVE  Pick(s) \in s /\ s \ {Pick(s)} \in SUBSET s /\ s \ {Pick(s)} # s
  BY DEF Pick

LEMMA AddsFacts ==
  ASSUME NEW f, NEW S, NEW h, Adds(f, S, h)
  PROVE  \A s \in SUBSET S :
           h[s] = IF s = {} THEN 0 ELSE f[Pick(s)] + h[s \ {Pick(s)}]
<1> PICK g : g = [s \in SUBSET S |-> IF s = {} THEN 0 ELSE f[Pick(s)] + h[s \ {Pick(s)}]]
  OBVIOUS
<1>1. h = g
  BY DEF Adds
<1>2. \A s \in SUBSET S : g[s] = IF s = {} THEN 0 ELSE f[Pick(s)] + h[s \ {Pick(s)}]
  OBVIOUS
<1> QED
  BY <1>1, <1>2

\* There is at most one such function: two agree wherever both are defined.
LEMMA AddsAgree ==
  ASSUME NEW f, NEW S, IsFiniteSet(S), NEW T, NEW g, NEW h, Adds(f, S, g), Adds(f, T, h)
  PROVE  \A s \in SUBSET S : s \in SUBSET T => g[s] = h[s]
<1> PICK Q : Q = {s \in SUBSET S : s \in SUBSET T => g[s] = h[s]}
  OBVIOUS
<1>1. ASSUME NEW s \in SUBSET S, \A r \in SUBSET s : r # s => r \in Q, s \in SUBSET T
      PROVE  g[s] = h[s]
  <2>1. CASE s = {}
    BY <1>1, <2>1, AddsFacts
  <2>2. CASE s # {}
    <3>1. s \ {Pick(s)} \in SUBSET T /\ s \ {Pick(s)} \in Q
      BY <1>1, <2>2, Picked
    <3>2. g[s \ {Pick(s)}] = h[s \ {Pick(s)}]
      BY <3>1
    <3>3. g[s] = f[Pick(s)] + g[s \ {Pick(s)}] /\ h[s] = f[Pick(s)] + h[s \ {Pick(s)}]
      BY <1>1, <2>2, AddsFacts
    <3> QED
      BY <3>2, <3>3
  <2> QED
    BY <2>1, <2>2
<1>2. \A s \in SUBSET S : (\A r \in SUBSET s : r # s => r \in Q) => s \in Q
  BY <1>1
<1>3. \A s \in SUBSET S : s \in Q
  BY ONLY IsFiniteSet(S), <1>2, SubsetInduction
<1> QED
  BY <1>3

\* A function that adds up over S does so over every part of S.
LEMMA AddsWithin ==
  ASSUME NEW f, NEW S, NEW h, Adds(f, S, h), NEW T \in SUBSET S
  PROVE  Adds(f, T, [s \in SUBSET T |-> h[s]])
<1> PICK g : g = [s \in SUBSET T |-> h[s]]
  OBVIOUS
<1>1. ASSUME NEW s \in SUBSET T
      PROVE  g[s] = IF s = {} THEN 0 ELSE f[Pick(s)] + g[s \ {Pick(s)}]
  <2>1. s \in SUBSET S /\ g[s] = h[s]
    OBVIOUS
  <2>2. s # {} => s \ {Pick(s)} \in SUBSET T /\ g[s \ {Pick(s)}] = h[s \ {Pick(s)}]
    OBVIOUS
  <2> QED
    BY <2>1, <2>2, AddsFacts
<1>2. g = [s \in SUBSET T |-> g[s]]
  OBVIOUS
<1> QED
  BY <1>1, <1>2 DEF Adds

\* The sum over the proper subsets of S, each by a function of its own.
Value(f, s) == (CHOOSE h : Adds(f, s, h))[s]

\* There is one.
LEMMA AddsExists ==
  ASSUME NEW f, NEW S, IsFiniteSet(S)
  PROVE  \E h : Adds(f, S, h)
<1> PICK Q : Q = {s \in SUBSET S : \E h : Adds(f, s, h)}
  OBVIOUS
<1>1. ASSUME NEW s \in SUBSET S, \A r \in SUBSET s : r # s => r \in Q
      PROVE  \E h : Adds(f, s, h)
  <2>1. PICK t : t = s \ {Pick(s)}
    OBVIOUS
  <2> PICK g : g = [r \in SUBSET s |->
                      IF r # s THEN Value(f, r)
                      ELSE IF s = {} THEN 0 ELSE f[Pick(s)] + Value(f, t)]
    OBVIOUS
  <2>2. ASSUME NEW r \in SUBSET s, r # s
        PROVE  g[r] = IF r = {} THEN 0 ELSE f[Pick(r)] + g[r \ {Pick(r)}]
    <3>1. PICK h : Adds(f, r, h) /\ g[r] = h[r]
      BY <1>1, <2>2 DEF Value
    <3>2. ASSUME r # {}
          PROVE  g[r \ {Pick(r)}] = h[r \ {Pick(r)}]
      <4> PICK q : q = r \ {Pick(r)}
        OBVIOUS
      <4>1. q \in SUBSET r /\ q \in SUBSET s /\ q \in SUBSET S /\ q # s
        BY <2>2, <3>2, Picked
      <4>2. PICK i : Adds(f, q, i) /\ g[q] = i[q]
        BY <1>1, <4>1 DEF Value
      <4>3. IsFiniteSet(q) /\ Adds(f, q, i) /\ Adds(f, r, h)
        BY <3>1, <4>1, <4>2, FS_Subset
      <4>4. \A p \in SUBSET q : p \in SUBSET r => i[p] = h[p]
        BY ONLY <4>3, AddsAgree
      <4> QED
        BY <4>1, <4>2, <4>4
    <3>3. h[r] = IF r = {} THEN 0 ELSE f[Pick(r)] + h[r \ {Pick(r)}]
      <4>1. \A q \in SUBSET r : h[q] = IF q = {} THEN 0 ELSE f[Pick(q)] + h[q \ {Pick(q)}]
        BY <3>1, AddsFacts
      <4> QED
        BY <4>1
    <3> QED
      BY <3>1, <3>2, <3>3
  <2>3. g[s] = IF s = {} THEN 0 ELSE f[Pick(s)] + g[s \ {Pick(s)}]
    <3>1. s # {} => g[t] = Value(f, t)
      BY <2>1, Picked
    <3> QED
      BY <2>1, <3>1
  <2>4. g = [r \in SUBSET s |-> g[r]]
    OBVIOUS
  <2>5. \A r \in SUBSET s : g[r] = IF r = {} THEN 0 ELSE f[Pick(r)] + g[r \ {Pick(r)}]
    BY <2>2, <2>3
  <2>6. g = [r \in SUBSET s |-> IF r = {} THEN 0 ELSE f[Pick(r)] + g[r \ {Pick(r)}]]
    BY <2>4, <2>5
  <2> QED
    BY <2>6 DEF Adds
<1>2. \A s \in SUBSET S : (\A r \in SUBSET s : r # s => r \in Q) => s \in Q
  BY <1>1
<1>3. \A s \in SUBSET S : s \in Q
  BY ONLY IsFiniteSet(S), <1>2, SubsetInduction
<1> QED
  BY <1>3

\* The sum over a set is what this function says.
LEMMA SumOfSubset ==
  ASSUME NEW f, NEW S, IsFiniteSet(S), NEW h, Adds(f, S, h), NEW T \in SUBSET S
  PROVE  SumFunctionOnSet(f, T) = h[T]
<1> PICK g : g = [s \in SUBSET T |-> h[s]]
  OBVIOUS
<1>1. Adds(f, T, g) /\ IsFiniteSet(T)
  BY AddsWithin, FS_Subset
<1>2. ASSUME NEW i, Adds(f, T, i)
      PROVE  i = g
  <2>1. \A s \in SUBSET T : s \in SUBSET T => i[s] = g[s]
    BY ONLY <1>1, <1>2, AddsAgree
  <2>2. DOMAIN i = SUBSET T /\ i = [s \in SUBSET T |-> i[s]]
    <3> PICK j : j = [s \in SUBSET T |-> IF s = {} THEN 0 ELSE f[Pick(s)] + i[s \ {Pick(s)}]]
      OBVIOUS
    <3>1. i = j
      BY <1>2 DEF Adds
    <3> QED
      BY <3>1
  <2>3. g = [s \in SUBSET T |-> g[s]]
    OBVIOUS
  <2> QED
    BY <2>1, <2>2, <2>3
<1>3. g = CHOOSE i : Adds(f, T, i)
  BY <1>1, <1>2
<1>4. SumFunctionOnSet(f, T) = g[T]
  BY <1>3 DEF SumFunctionOnSet, FoldFunctionOnSet, MapThenFoldSet, Adds, Pick
<1> QED
  BY <1>4

\* The defining equation of a sum.
LEMMA SumUnfolds ==
  ASSUME NEW f, NEW S, IsFiniteSet(S), NEW T \in SUBSET S
  PROVE  SumFunctionOnSet(f, T) = IF T = {} THEN 0
                                  ELSE f[Pick(T)] + SumFunctionOnSet(f, T \ {Pick(T)})
<1> PICK h : Adds(f, S, h)
  BY AddsExists
<1>1. h[T] = IF T = {} THEN 0 ELSE f[Pick(T)] + h[T \ {Pick(T)}]
  BY AddsFacts
<1>2. SumFunctionOnSet(f, T) = h[T]
  BY SumOfSubset
<1>3. T \ {Pick(T)} \in SUBSET S
  OBVIOUS
<1>4. SumFunctionOnSet(f, T \ {Pick(T)}) = h[T \ {Pick(T)}]
  BY <1>3, SumOfSubset
<1> QED
  BY <1>1, <1>2, <1>4

LEMMA SumEmpty ==
  ASSUME NEW f
  PROVE  SumFunctionOnSet(f, {}) = 0
  BY SumUnfolds, FS_EmptySet

\* Sums of natural numbers are natural numbers.
LEMMA SumNat ==
  ASSUME NEW S, IsFiniteSet(S), NEW f, \A x \in S : f[x] \in Nat
  PROVE  SumFunctionOnSet(f, S) \in Nat
<1> PICK Q : Q = {s \in SUBSET S : SumFunctionOnSet(f, s) \in Nat}
  OBVIOUS
<1>1. ASSUME NEW s \in SUBSET S, \A r \in SUBSET s : r # s => r \in Q
      PROVE  SumFunctionOnSet(f, s) \in Nat
  <2>1. CASE s = {}
    BY <2>1, SumEmpty
  <2>2. CASE s # {}
    <3>1. SumFunctionOnSet(f, s \ {Pick(s)}) \in Nat /\ f[Pick(s)] \in Nat
      BY <1>1, <2>2, Picked
    <3> QED
      BY <2>2, <3>1, SumUnfolds
  <2> QED
    BY <2>1, <2>2
<1>2. \A s \in SUBSET S : (\A r \in SUBSET s : r # s => r \in Q) => s \in Q
  BY <1>1
<1>3. \A s \in SUBSET S : s \in Q
  BY ONLY IsFiniteSet(S), <1>2, SubsetInduction
<1> QED
  BY <1>3

\* Whichever element is taken first.
LEMMA SumTake ==
  ASSUME NEW S, IsFiniteSet(S), NEW f, \A x \in S : f[x] \in Nat, NEW x \in S
  PROVE  SumFunctionOnSet(f, S) = f[x] + SumFunctionOnSet(f, S \ {x})
<1> PICK Q : Q = {s \in SUBSET S : \A y \in s :
                    SumFunctionOnSet(f, s) = f[y] + SumFunctionOnSet(f, s \ {y})}
  OBVIOUS
<1>1. ASSUME NEW s \in SUBSET S, \A r \in SUBSET s : r # s => r \in Q, NEW y \in s
      PROVE  SumFunctionOnSet(f, s) = f[y] + SumFunctionOnSet(f, s \ {y})
  <2> PICK z : z = Pick(s)
    OBVIOUS
  <2>1. /\ z \in s /\ SumFunctionOnSet(f, s) = f[z] + SumFunctionOnSet(f, s \ {z})
    BY Picked, SumUnfolds
  <2>2. CASE y = z
    BY <2>1, <2>2
  <2>3. CASE y # z
    <3> PICK t : t = s \ {y, z}
      OBVIOUS
    <3>1. t = (s \ {y}) \ {z} /\ t = (s \ {z}) \ {y} /\ t \in SUBSET S
      OBVIOUS
    <3>2. s \ {y} \in Q /\ s \ {z} \in Q
      BY <1>1, <2>1
    <3>3. SumFunctionOnSet(f, s \ {y}) = f[z] + SumFunctionOnSet(f, t)
      BY <2>1, <2>3, <3>1, <3>2
    <3>4. SumFunctionOnSet(f, s \ {z}) = f[y] + SumFunctionOnSet(f, t)
      BY <2>3, <3>1, <3>2
    <3>5. IsFiniteSet(t)
      BY <3>1, FS_Subset
    <3>6. SumFunctionOnSet(f, t) \in Nat /\ f[y] \in Nat /\ f[z] \in Nat
      BY <2>1, <3>1, <3>5, SumNat
    <3> QED
      BY <2>1, <3>3, <3>4, <3>6
  <2> QED
    BY <2>2, <2>3
<1>2. \A s \in SUBSET S : (\A r \in SUBSET s : r # s => r \in Q) => s \in Q
  BY <1>1
<1>3. \A s \in SUBSET S : s \in Q
  BY ONLY IsFiniteSet(S), <1>2, SubsetInduction
<1>4. S \in Q
  BY <1>3
<1> QED
  BY <1>4

\* A sum is that of the values.
LEMMA SumSame ==
  ASSUME NEW S, IsFiniteSet(S), NEW f, NEW g, \A x \in S : f[x] = g[x]
  PROVE  SumFunctionOnSet(f, S) = SumFunctionOnSet(g, S)
<1> PICK Q : Q = {s \in SUBSET S : SumFunctionOnSet(f, s) = SumFunctionOnSet(g, s)}
  OBVIOUS
<1>1. ASSUME NEW s \in SUBSET S, \A r \in SUBSET s : r # s => r \in Q
      PROVE  SumFunctionOnSet(f, s) = SumFunctionOnSet(g, s)
  <2>1. CASE s = {}
    BY <2>1, SumEmpty
  <2>2. CASE s # {}
    <3>1. /\ SumFunctionOnSet(f, s \ {Pick(s)}) = SumFunctionOnSet(g, s \ {Pick(s)})
          /\ f[Pick(s)] = g[Pick(s)]
      BY <1>1, <2>2, Picked
    <3>2. /\ SumFunctionOnSet(f, s) = f[Pick(s)] + SumFunctionOnSet(f, s \ {Pick(s)})
          /\ SumFunctionOnSet(g, s) = g[Pick(s)] + SumFunctionOnSet(g, s \ {Pick(s)})
      BY <2>2, SumUnfolds
    <3> QED
      BY <3>1, <3>2
  <2> QED
    BY <2>1, <2>2
<1>2. \A s \in SUBSET S : (\A r \in SUBSET s : r # s => r \in Q) => s \in Q
  BY <1>1
<1>3. \A s \in SUBSET S : s \in Q
  BY ONLY IsFiniteSet(S), <1>2, SubsetInduction
<1> QED
  BY <1>3

-----------------------------------------------------------------------------
(* The invariant.                                                          *)

\* The numbers are sent first, and all of them.
ArrayFirst == IF pc = "array" THEN next <= Len(array) ELSE next = Len(array) + 1

\* The subtask that is being joined, and no other one, offers its result.
OneJoined ==
  /\ pc = "retrieve" <=> \E t \in Subtasks : sub[t] = "write"
  /\ \A t, u \in Subtasks : sub[t] = "write" /\ sub[u] = "write" => t = u

EInv == TypeOK /\ SumKept /\ NobodyLeft /\ ArrayFirst /\ OneJoined

\* Somebody takes what sum_task sends, or offers what it waits for: it is never
\* left alone on a channel.
SomebodyThere ==
  /\ pc \in {"array", "nullopt", "send on"} =>
       \E t \in Subtasks : sub[t] \in {"spawned", "read"}
  /\ pc = "retrieve" => \E t \in Subtasks : sub[t] = "write"

\* What sum_task returns is the sum of the array.
Result == pc = "done" => subresult = SumFunction(array)

LEMMA TaskFacts ==
  ASSUME TypeOK
  PROVE  /\ NumTasks \in Nat /\ IsFiniteSet(Active) /\ Cardinality(Active) \in Nat
         /\ Active = {} <=> joined = NumTasks
         /\ Total(Active) \in Nat /\ Len(array) \in Nat
<1>1. IsFiniteSet(Subtasks) /\ Active \in SUBSET Subtasks
  BY SumAssumption DEF Active
<1>2. NumTasks \in Nat /\ IsFiniteSet(Active) /\ Cardinality(Active) \in Nat
  BY <1>1, FS_Subset, FS_CardinalityType DEF NumTasks
<1>3. Active = {} <=> Cardinality(Active) = 0
  BY <1>2, FS_EmptySet
<1>4. joined = NumTasks - Cardinality(Active)
  BY DEF TypeOK
<1>0. Active = {} <=> joined = NumTasks
  BY <1>2, <1>3, <1>4
<1>5. \A t \in Active : sum[t] \in Nat
  BY DEF TypeOK, Active
<1>6. Total(Active) \in Nat
  BY <1>2, <1>5, SumNat DEF Total
<1> QED
  BY <1>0, <1>2, <1>6, SumAssumption

\* The numbers that are still to be sent, but for the first of them.
LEMMA Sending ==
  ASSUME TypeOK, next <= Len(array)
  PROVE  /\ array[next] \in Nat
         /\ SumFunctionOnSet(array, (next + 1)..Len(array)) \in Nat
         /\ ToSend = array[next] + SumFunctionOnSet(array, (next + 1)..Len(array))
<1> PICK S : S = next..Len(array)
  OBVIOUS
<1>0. next \in 1..(Len(array) + 1) /\ array \in Seq(Nat) /\ Len(array) \in Nat
  <2>1. array \in Seq(Nat) /\ Len(array) \in Nat
    BY SumAssumption
  <2>2. next \in 1..(Len(array) + 1)
    BY DEF TypeOK
  <2> QED
    BY <2>1, <2>2
<1>1. next \in Nat /\ next \in S /\ next >= 1
  BY <1>0
<1>2. S \ {next} = (next + 1)..Len(array)
  BY <1>0, <1>1
<1>3. IsFiniteSet(S) /\ IsFiniteSet(S \ {next})
  <2>1. IsFiniteSet(S)
    BY <1>0, <1>1, FS_Interval
  <2> QED
    BY <2>1, FS_RemoveElement
<1>4. \A i \in S : array[i] \in Nat
  BY <1>0, <1>1
<1>5. SumFunctionOnSet(array, S) = array[next] + SumFunctionOnSet(array, S \ {next})
  BY <1>1, <1>3, <1>4, SumTake
<1>6. SumFunctionOnSet(array, S \ {next}) \in Nat
  BY <1>3, <1>4, SumNat
<1> QED
  BY <1>1, <1>2, <1>4, <1>5, <1>6 DEF ToSend

\* A number handed to a subtask is in its sum.
LEMMA NumberReceived ==
  ASSUME TypeOK, NEW t \in Subtasks, NEW v \in Nat, Receive(t, v)
  PROVE  /\ sub[t] = "read" /\ sub' = sub /\ sum' \in [Subtasks -> Nat] /\ Active' = Active
         /\ Total(Active)' = Total(Active) + v
<1>0. v # Nullopt
  BY SumAssumption
<1>1. sub[t] = "read" /\ sub' = sub /\ sum' = [sum EXCEPT ![t] = @ + v]
  BY <1>0 DEF Receive
<1>2. sum' \in [Subtasks -> Nat] /\ Active' = Active /\ t \in Active
  <2>1. sum \in [Subtasks -> Nat]
    BY DEF TypeOK
  <2>2. sum' \in [Subtasks -> Nat]
    BY <1>1, <2>1
  <2>3. Active' = Active /\ t \in Active
    BY <1>1 DEF Active
  <2> QED
    BY <2>2, <2>3
<1> PICK S : S = Active
  OBVIOUS
<1>3. IsFiniteSet(S) /\ IsFiniteSet(S \ {t}) /\ \A u \in S : sum[u] \in Nat /\ sum'[u] \in Nat
  BY <1>2, TaskFacts, FS_RemoveElement DEF TypeOK, Active
<1>4. SumFunctionOnSet(sum, S) = sum[t] + SumFunctionOnSet(sum, S \ {t})
  BY <1>2, <1>3, SumTake
<1>5. SumFunctionOnSet(sum', S) = sum'[t] + SumFunctionOnSet(sum', S \ {t})
  BY <1>2, <1>3, SumTake
<1>6. \A u \in S \ {t} : sum[u] = sum'[u]
  BY <1>1 DEF TypeOK, Active
<1>7. SumFunctionOnSet(sum, S \ {t}) = SumFunctionOnSet(sum', S \ {t})
  BY <1>3, <1>6, SumSame
<1>8. SumFunctionOnSet(sum, S \ {t}) \in Nat /\ sum[t] \in Nat /\ sum'[t] = sum[t] + v
  BY <1>1, <1>2, <1>3, SumNat DEF TypeOK
<1>9. SumFunctionOnSet(sum', S) = SumFunctionOnSet(sum, S) + v
  BY <1>4, <1>5, <1>7, <1>8
<1> QED
  BY <1>1, <1>2, <1>9 DEF Total

\* A subtask that returns takes its sum with it.
LEMMA Returned ==
  ASSUME TypeOK, NEW t \in Subtasks, sub[t] = "write",
         sub' = [sub EXCEPT ![t] = "returned"], sum' = sum
  PROVE  /\ Total(Active) = sum[t] + Total(Active)' /\ Total(Active)' \in Nat
         /\ Cardinality(Active') = Cardinality(Active) - 1
<1>1. t \in Active /\ Active' = Active \ {t}
  BY DEF TypeOK, Active
<1>2. IsFiniteSet(Active) /\ \A u \in Active : sum[u] \in Nat
  BY TaskFacts DEF TypeOK, Active
<1>3. IsFiniteSet(Active \ {t}) /\ Cardinality(Active \ {t}) = Cardinality(Active) - 1
  BY <1>1, <1>2, FS_RemoveElement
<1>4. SumFunctionOnSet(sum, Active) = sum[t] + SumFunctionOnSet(sum, Active \ {t})
  BY <1>1, <1>2, SumTake
<1>5. SumFunctionOnSet(sum, Active \ {t}) \in Nat
  BY <1>2, <1>3, SumNat
<1> QED
  BY <1>1, <1>3, <1>4, <1>5 DEF Total

LEMMA EInvInit ==
  ASSUME Init
  PROVE  EInv
<1>1. Len(array) \in Nat /\ IsFiniteSet(Subtasks) /\ NumTasks \in Nat /\ NumTasks # 0
  BY SumAssumption, FS_CardinalityType, FS_EmptySet DEF NumTasks
<1>2. Active = Subtasks
  BY DEF Init, Active
<1>3. TypeOK
  BY <1>1, <1>2 DEF Init, TypeOK, AfterArray, NumTasks
<1>4. NobodyLeft /\ ArrayFirst /\ OneJoined
  BY <1>1, <1>2, SumAssumption DEF Init, NobodyLeft, ArrayFirst, OneJoined, AfterArray
<1>5. Total(Active) = 0
  <2> PICK S : S = Subtasks
    OBVIOUS
  <2> PICK Q : Q = {s \in SUBSET S : SumFunctionOnSet(sum, s) = 0}
    OBVIOUS
  <2>1. ASSUME NEW s \in SUBSET S, \A r \in SUBSET s : r # s => r \in Q
        PROVE  SumFunctionOnSet(sum, s) = 0
    <3>1. CASE s = {}
      BY <3>1, SumEmpty
    <3>2. CASE s # {}
      <4>1. SumFunctionOnSet(sum, s \ {Pick(s)}) = 0 /\ Pick(s) \in S
        BY <2>1, <3>2, Picked
      <4>2. sum[Pick(s)] = 0
        BY <4>1 DEF Init
      <4> QED
        BY <1>1, <3>2, <4>1, <4>2, SumUnfolds
    <3> QED
      BY <3>1, <3>2
  <2>2. \A s \in SUBSET S : (\A r \in SUBSET s : r # s => r \in Q) => s \in Q
    BY <2>1
  <2>3. IsFiniteSet(S)
    BY <1>1
  <2>4. \A s \in SUBSET S : s \in Q
    BY ONLY <2>2, <2>3, SubsetInduction
  <2> QED
    BY <1>2, <2>4 DEF Total
<1>6. ToSend = SumFunction(array) /\ ToSend \in Nat
  <2>1. ToSend = SumFunctionOnSet(array, 1..Len(array)) /\ DOMAIN array = 1..Len(array)
    BY SumAssumption DEF Init, ToSend
  <2>2. IsFiniteSet(1..Len(array)) /\ \A i \in 1..Len(array) : array[i] \in Nat
    <3>1. IsFiniteSet(1..Len(array))
      BY <1>1, FS_Interval
    <3>2. \A i \in 1..Len(array) : array[i] \in Nat
      BY SumAssumption
    <3> QED
      BY <3>1, <3>2
  <2> QED
    BY <2>1, <2>2, SumNat DEF SumFunction
<1>7. pc \notin {"send on", "done"}
  BY DEF Init, AfterArray
<1> QED
  <2>1. SumKept
    <3> PICK a, b : a \in Nat /\ a = ToSend /\ b = Total(Active)
      BY <1>6
    <3>1. a + b + 0 = SumFunction(array)
      BY <1>5, <1>6
    <3> QED
      BY <1>7, <3>1 DEF SumKept
  <2> QED
    BY <1>3, <1>4, <2>1 DEF EInv

LEMMA SendNumberKeeps ==
  ASSUME EInv, SendNumber
  PROVE  EInv'
<1>1. TypeOK /\ SumKept /\ NobodyLeft /\ ArrayFirst /\ OneJoined
  BY DEF EInv
<1>2. pc = "array" /\ next <= Len(array)
  BY <1>1 DEF SendNumber, ArrayFirst
<1>3. PICK t \in Subtasks : Receive(t, array[next])
  BY DEF SendNumber
<1> PICK v, a, b : /\ v = array[next] /\ b = Total(Active)
                   /\ a = SumFunctionOnSet(array, (next + 1)..Len(array))
  OBVIOUS
<1>4. v \in Nat /\ a \in Nat /\ b \in Nat /\ ToSend = v + a
  BY <1>1, <1>2, Sending, TaskFacts
<1>5. /\ sub' = sub /\ sum' \in [Subtasks -> Nat] /\ Active' = Active /\ Total(Active)' = b + v
  BY <1>1, <1>3, <1>4, NumberReceived
<1>6. /\ next' = next + 1 /\ pc' = AfterArray(next + 1)
      /\ joined' = joined /\ subresult' = subresult
  BY DEF SendNumber
<1>7. next \in 1..(Len(array) + 1) /\ Len(array) \in Nat
  BY <1>1, TaskFacts DEF TypeOK
<1>8. next' \in 1..(Len(array) + 1) /\ next' \in Nat
  BY <1>2, <1>6, <1>7
<1>9. pc' \in {"array", "nullopt"} /\ (pc' = "array" <=> next' <= Len(array))
  BY <1>6 DEF AfterArray
<1>10. TypeOK'
  BY <1>1, <1>5, <1>6, <1>8, <1>9 DEF TypeOK
<1>11. SumKept'
  <2>1. ToSend' = a
    BY <1>6 DEF ToSend
  <2>2. v + a + b + 0 = SumFunction(array)
    BY <1>1, <1>2, <1>4 DEF SumKept
  <2>3. a + (b + v) + 0 = SumFunction(array)
    BY <1>4, <2>2
  <2> QED
    BY <1>5, <1>9, <2>1, <2>3 DEF SumKept
<1>12. NobodyLeft' /\ OneJoined'
  BY <1>1, <1>2, <1>5, <1>9 DEF NobodyLeft, OneJoined
<1>13. ArrayFirst'
  <2>1. ~(next' <= Len(array)) => next' = Len(array) + 1
    BY <1>7, <1>8
  <2> QED
    BY <1>9, <2>1 DEF ArrayFirst
<1> QED
  BY <1>10, <1>11, <1>12, <1>13 DEF EInv

\* What a step does that leaves the numbers and the sums alone.
LEMMA QuietStep ==
  ASSUME EInv, NEW t \in Subtasks, NEW s \in {"read", "write"}, sub[t] \in {"spawned", "read"},
         sub' = [sub EXCEPT ![t] = s], UNCHANGED <<next, joined, subresult, sum>>
  PROVE  /\ sub' \in [Subtasks -> {"spawned", "read", "write", "returned"}]
         /\ Active' = Active /\ ToSend' = ToSend /\ Total(Active)' = Total(Active)
         /\ \A u \in Subtasks : sub'[u] = IF u = t THEN s ELSE sub[u]
<1>1. TypeOK
  BY DEF EInv
<1>2. sub \in [Subtasks -> {"spawned", "read", "write", "returned"}]
  BY <1>1 DEF TypeOK
<1>3. Active' = Active
  BY <1>2 DEF Active
<1>4. ToSend' = ToSend
  BY DEF ToSend
<1>5. Total(Active)' = Total(Active)
  BY <1>3 DEF Total
<1> QED
  BY <1>2, <1>3, <1>4, <1>5

LEMMA StartKeeps ==
  ASSUME EInv, NEW t \in Subtasks, Start(t)
  PROVE  EInv'
<1>1. TypeOK /\ SumKept /\ NobodyLeft /\ ArrayFirst /\ OneJoined
  BY DEF EInv
<1>2. /\ sub[t] = "spawned" /\ sub' = [sub EXCEPT ![t] = "read"]
      /\ pc' = pc /\ UNCHANGED <<next, joined, subresult, sum>>
  BY DEF Start
<1>3. /\ sub' \in [Subtasks -> {"spawned", "read", "write", "returned"}]
      /\ Active' = Active /\ ToSend' = ToSend /\ Total(Active)' = Total(Active)
      /\ \A u \in Subtasks : sub'[u] = IF u = t THEN "read" ELSE sub[u]
  BY <1>2, QuietStep
<1>4. TypeOK'
  BY <1>1, <1>2, <1>3 DEF TypeOK
<1>5. SumKept'
  BY <1>1, <1>2, <1>3 DEF SumKept
<1>6. NobodyLeft' /\ ArrayFirst'
  BY <1>1, <1>2, <1>3 DEF NobodyLeft, ArrayFirst
<1>7. \A u \in Subtasks : sub'[u] = "write" <=> sub[u] = "write"
  BY <1>2, <1>3
<1>8. OneJoined'
  BY <1>1, <1>2, <1>7 DEF OneJoined
<1> QED
  BY <1>4, <1>5, <1>6, <1>8 DEF EInv

LEMMA SendNulloptKeeps ==
  ASSUME EInv, SendNullopt
  PROVE  EInv'
<1>1. TypeOK /\ SumKept /\ NobodyLeft /\ ArrayFirst /\ OneJoined
  BY DEF EInv
<1>2. PICK t \in Subtasks : Receive(t, Nullopt)
  BY DEF SendNullopt
<1>3. /\ pc = "nullopt" /\ pc' = "retrieve" /\ UNCHANGED <<next, joined, subresult, sum>>
      /\ sub[t] = "read" /\ sub' = [sub EXCEPT ![t] = "write"]
  BY <1>2 DEF SendNullopt, Receive
<1>4. /\ sub' \in [Subtasks -> {"spawned", "read", "write", "returned"}]
      /\ Active' = Active /\ ToSend' = ToSend /\ Total(Active)' = Total(Active)
      /\ \A u \in Subtasks : sub'[u] = IF u = t THEN "write" ELSE sub[u]
  BY <1>3, QuietStep
<1>5. TypeOK'
  BY <1>1, <1>3, <1>4 DEF TypeOK
<1>6. SumKept'
  BY <1>1, <1>3, <1>4 DEF SumKept
<1>7. NobodyLeft' /\ ArrayFirst'
  BY <1>1, <1>3, <1>4 DEF NobodyLeft, ArrayFirst
<1>8. \A u \in Subtasks : sub'[u] = "write" <=> u = t
  BY <1>1, <1>3, <1>4 DEF OneJoined
<1>9. OneJoined'
  BY <1>3, <1>8 DEF OneJoined
<1> QED
  BY <1>5, <1>6, <1>7, <1>9 DEF EInv

LEMMA SendOnKeeps ==
  ASSUME EInv, SendOn
  PROVE  EInv'
<1>1. TypeOK /\ SumKept /\ NobodyLeft /\ ArrayFirst /\ OneJoined
  BY DEF EInv
<1>2. PICK t \in Subtasks : Receive(t, subresult)
  BY DEF SendOn
<1> PICK v, a, b : v = subresult /\ a = ToSend /\ b = Total(Active)
  OBVIOUS
<1>3. v \in Nat /\ b \in Nat
  BY <1>1, TaskFacts DEF TypeOK
<1>4. /\ pc = "send on" /\ pc' = "nullopt" /\ UNCHANGED <<next, joined, subresult>>
  BY DEF SendOn
<1>5. /\ sub' = sub /\ sum' \in [Subtasks -> Nat] /\ Active' = Active /\ Total(Active)' = b + v
  BY <1>1, <1>2, <1>3, NumberReceived
<1>6. ToSend' = a
  BY <1>4 DEF ToSend
<1>7. a \in Nat
  <2>1. next = Len(array) + 1 /\ Len(array) \in Nat
    BY <1>1, <1>4, TaskFacts DEF ArrayFirst
  <2>2. next..Len(array) = {}
    BY <2>1
  <2>3. ToSend = 0
    BY <2>2, SumEmpty DEF ToSend
  <2> QED
    BY <2>3
<1>8. TypeOK'
  BY <1>1, <1>4, <1>5 DEF TypeOK
<1>9. SumKept'
  <2>1. a + b + v = SumFunction(array)
    BY <1>1, <1>4 DEF SumKept
  <2>2. a + (b + v) + 0 = SumFunction(array)
    BY <1>3, <1>7, <2>1
  <2> QED
    BY <1>4, <1>5, <1>6, <2>2 DEF SumKept
<1>10. NobodyLeft' /\ ArrayFirst' /\ OneJoined'
  BY <1>1, <1>4, <1>5 DEF NobodyLeft, ArrayFirst, OneJoined
<1> QED
  BY <1>8, <1>9, <1>10 DEF EInv

LEMMA RetrieveKeeps ==
  ASSUME EInv, Retrieve
  PROVE  EInv'
<1>1. TypeOK /\ SumKept /\ NobodyLeft /\ ArrayFirst /\ OneJoined
  BY DEF EInv
<1>2. PICK t \in Subtasks : /\ sub[t] = "write" /\ sub' = [sub EXCEPT ![t] = "returned"]
                            /\ subresult' = sum[t]
  BY DEF Retrieve
<1>3. /\ pc = "retrieve" /\ pc' = (IF Last THEN "done" ELSE "send on")
      /\ joined' = joined + 1 /\ next' = next /\ sum' = sum
  BY DEF Retrieve
<1> PICK v, a, b, n, k : /\ v = sum[t] /\ a = ToSend /\ b = Total(Active)' /\ n = NumTasks
                         /\ k = Cardinality(Active)
  OBVIOUS
<1>4. Total(Active) = v + b /\ b \in Nat /\ Cardinality(Active') = k - 1
  BY <1>1, <1>2, <1>3, Returned
<1>5. n \in Nat /\ k \in Nat /\ joined = n - k /\ v \in Nat
  <2>1. n \in Nat /\ k \in Nat
    BY <1>1, TaskFacts
  <2>2. joined = n - k
    BY <1>1 DEF TypeOK
  <2>3. v \in Nat
    BY <1>1 DEF TypeOK
  <2> QED
    BY <2>1, <2>2, <2>3
<1>6. joined' = n - (k - 1) /\ (Last <=> joined' = n)
  <2>1. joined' = joined + 1
    BY <1>3
  <2>2. joined' = n - (k - 1)
    BY <1>5, <2>1
  <2> QED
    BY <2>1, <2>2 DEF Last
<1>7. sub' \in [Subtasks -> {"spawned", "read", "write", "returned"}]
  BY <1>1, <1>2 DEF TypeOK
<1>8. TypeOK'
  <2>1. joined' = NumTasks - Cardinality(Active')
    BY <1>4, <1>6
  <2>2. pc' \in {"done", "send on"} /\ subresult' \in Nat
    BY <1>2, <1>3, <1>5
  <2>3. next' \in 1..(Len(array) + 1) /\ sum' \in [Subtasks -> Nat]
    BY <1>1, <1>3 DEF TypeOK
  <2> QED
    BY <1>7, <2>1, <2>2, <2>3 DEF TypeOK, NumTasks
<1>9. Active' = {} <=> k - 1 = 0
  <2>1. IsFiniteSet(Active')
    <3>1. Active' \in SUBSET Subtasks
      BY DEF Active
    <3> QED
      BY <3>1, SumAssumption, FS_Subset
  <2> QED
    BY <1>4, <2>1, FS_EmptySet
<1>10. NobodyLeft'
  <2>1. Last <=> k - 1 = 0
    BY <1>5, <1>6
  <2>2. pc' = "done" <=> Last
    BY <1>3
  <2> QED
    BY <1>9, <2>1, <2>2 DEF NobodyLeft
<1>11. SumKept'
  <2>1. a = 0
    <3>1. next = Len(array) + 1 /\ Len(array) \in Nat
      BY <1>1, <1>3, TaskFacts DEF ArrayFirst
    <3>2. next..Len(array) = {}
      BY <3>1
    <3> QED
      BY <3>2, SumEmpty DEF ToSend
  <2>2. a + (v + b) + 0 = SumFunction(array)
    BY <1>1, <1>3, <1>4 DEF SumKept
  <2>3. a + b + v = SumFunction(array)
    BY <1>4, <1>5, <2>1, <2>2
  <2>4. ToSend' = a
    BY <1>3 DEF ToSend
  <2> QED
    BY <1>2, <1>3, <2>3, <2>4 DEF SumKept
<1>12. ArrayFirst'
  BY <1>1, <1>3 DEF ArrayFirst
<1>13. \A u \in Subtasks : sub'[u] # "write"
  BY <1>1, <1>2 DEF OneJoined, TypeOK
<1>14. OneJoined'
  BY <1>3, <1>13 DEF OneJoined
<1> QED
  BY <1>8, <1>10, <1>11, <1>12, <1>14 DEF EInv

\* The numbers are kept, every subtask is joined once, and sum_task does not
\* return before.
THEOREM EInvHolds == Spec => []EInv
<1>1. Init => EInv
  BY EInvInit
<1>2. EInv /\ [Next]_vars => EInv'
  <2> SUFFICES ASSUME EInv, [Next]_vars PROVE EInv'
    OBVIOUS
  <2>1. CASE SumTask
    BY <2>1, SendNumberKeeps, SendNulloptKeeps, RetrieveKeeps, SendOnKeeps DEF SumTask
  <2>2. CASE \E t \in Subtasks : Start(t)
    BY <2>2, StartKeeps
  <2>3. CASE UNCHANGED vars
    BY <2>3 DEF vars, EInv, TypeOK, SumKept, NobodyLeft, ArrayFirst, OneJoined,
                ToSend, Total, Active
  <2> QED
    BY <2>1, <2>2, <2>3 DEF Next, Terminated
<1> QED
  BY <1>1, <1>2, PTL DEF Spec

\* Every variable of sum_task and of the subtasks holds values of its type, and
\* as many subtasks have returned as were joined.
THEOREM SumTypeCorrect == Spec => []TypeOK
<1>1. EInv => TypeOK
  BY DEF EInv
<1> QED
  BY <1>1, EInvHolds, PTL

\* No number is lost or added twice on its way from the array through the
\* subtasks to the result.
THEOREM NumbersKept == Spec => []SumKept
<1>1. EInv => SumKept
  BY DEF EInv
<1> QED
  BY <1>1, EInvHolds, PTL

\* sum_task returns when every subtask has returned, and not before.
THEOREM EverybodyJoined == Spec => []NobodyLeft
<1>1. EInv => NobodyLeft
  BY DEF EInv
<1> QED
  BY <1>1, EInvHolds, PTL

\* sum_task is never left alone on a channel, the safety half of Returns:
\* before it is done there is a subtask that reads what it sends, or one that
\* writes what it retrieves.
THEOREM NeverAlone == Spec => []SomebodyThere
<1>1. EInv => SomebodyThere
  <2> SUFFICES ASSUME EInv PROVE SomebodyThere
    OBVIOUS
  <2>1. CASE pc \in {"array", "nullopt", "send on"}
    <3>1. Active # {} /\ \A t \in Subtasks : sub[t] # "write"
      BY <2>1 DEF EInv, NobodyLeft, OneJoined
    <3>2. \E t \in Subtasks : sub[t] \in {"spawned", "read"}
      BY <3>1 DEF EInv, TypeOK, Active
    <3> QED
      BY <2>1, <3>2 DEF SomebodyThere
  <2>2. CASE pc \notin {"array", "nullopt", "send on"}
    BY <2>2 DEF EInv, OneJoined, SomebodyThere
  <2> QED
    BY <2>1, <2>2
<1> QED
  BY <1>1, EInvHolds, PTL

\* What sum_task returns is the sum of the array.
THEOREM SumIsRight == Spec => []Result
<1>1. EInv => Result
  <2> SUFFICES ASSUME EInv, pc = "done" PROVE subresult = SumFunction(array)
    BY DEF Result
  <2>1. TypeOK /\ SumKept /\ NobodyLeft /\ ArrayFirst
    BY DEF EInv
  <2>2. Total(Active) = 0
    BY <2>1, SumEmpty DEF NobodyLeft, Total
  <2>3. ToSend = 0
    <3>1. next = Len(array) + 1 /\ Len(array) \in Nat
      BY <2>1, TaskFacts DEF ArrayFirst
    <3>2. next..Len(array) = {}
      BY <3>1
    <3> QED
      BY <3>2, SumEmpty DEF ToSend
  <2>4. 0 + 0 + subresult = SumFunction(array)
    BY <2>1, <2>2, <2>3 DEF SumKept
  <2>5. subresult \in Nat
    BY <2>1 DEF TypeOK
  <2> QED
    BY <2>4, <2>5
<1> QED
  BY <1>1, EInvHolds, PTL

=============================================================================
