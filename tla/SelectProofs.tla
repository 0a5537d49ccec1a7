---------------------------- MODULE SelectProofs ----------------------------
(***************************************************************************)
(* Theorems about WaiterList and Select: the operations of                 *)
(* channel_waiter_list keep the lists queues; the control invariant for    *)
(* every script, and the inductive invariant for orderly ones.             *)
(***************************************************************************)
EXTENDS SelectInvariant, FiniteSetTheorems, WellFoundedInduction, TLAPS

-----------------------------------------------------------------------------
(* Pointers and queues.                                                    *)

\* A sequence without one of its elements is a sequence, one shorter.
LEMMA WithoutIsSeq ==
  ASSUME NEW S, NEW s \in Seq(S), NEW k \in 1..Len(s)
  PROVE  /\ Without(s, k) \in Seq(S)
         /\ Len(Without(s, k)) = Len(s) - 1
         /\ \A i \in 1..(Len(s) - 1) :
              Without(s, k)[i] = IF i < k THEN s[i] ELSE s[i + 1]
<1>1. Len(s) \in Nat /\ Len(s) - 1 \in Nat
  OBVIOUS
<1>2. \A i \in 1..(Len(s) - 1) : s[i] \in S /\ s[i + 1] \in S
  OBVIOUS
<1>3. Without(s, k) \in [1..(Len(s) - 1) -> S]
  BY <1>1, <1>2 DEF Without
<1>4. \A t \in [1..(Len(s) - 1) -> S] : t \in Seq(S) /\ Len(t) = Len(s) - 1
  BY <1>1
<1> QED
  BY <1>1, <1>3, <1>4 DEF Without

LEMMA EmptyLen ==
  ASSUME NEW S, NEW s \in Seq(S)
  PROVE  s = <<>> <=> Len(s) = 0
  OBVIOUS

\* The chained lists after an enqueue: the node stands at the end of its list.
LEMMA EnqueueChains ==
  ASSUME NEW L, NEW N, Null \notin N,
         NEW q, Chains(L, N, q), LinksTypeOK(L, N),
         NEW l \in L, NEW n \in N, \A m \in L : ~Within(n, q[m]),
         Enqueue(l, n)
  PROVE  Chains(L, N, [q EXCEPT ![l] = Append(q[l], n)])' /\ LinksTypeOK(L, N)'
<1> DEFINE s == q[l]
           Q == [q EXCEPT ![l] = Append(s, n)]
<1>1. /\ s \in Seq(N) /\ Len(s) \in Nat
      /\ \A m \in L : q[m] \in Seq(N) /\ Len(q[m]) \in Nat
  BY DEF Chains
<1>2. /\ Q \in [L -> Seq(N)]
      /\ Q[l] = Append(s, n)
      /\ \A m \in L \ {l} : Q[m] = q[m]
      /\ Len(Q[l]) = Len(s) + 1
      /\ \A i \in 1..Len(s) : Q[l][i] = s[i]
      /\ Q[l][Len(s) + 1] = n
  BY <1>1 DEF Chains
<1>3. \A m \in L : \A i \in 1..Len(q[m]) : q[m][i] \in N /\ q[m][i] # n
  BY <1>1 DEF Within
<1>4. LinksTypeOK(L, N)'
  BY DEF Enqueue, LinksTypeOK
<1>5. IF s = <<>> THEN first[l] = Null /\ last[l] = Null
      ELSE first[l] = s[1] /\ last[l] = s[Len(s)] /\ first[l] # Null /\ Len(s) >= 1
  BY <1>1, <1>3 DEF Chains, Spells
<1>6. Spells(l, Q[l])'
  <2>1. first'[l] = Q[l][1] /\ last'[l] = Q[l][Len(Q[l])] /\ Q[l] # <<>>
    <3>1. Q[l] # <<>> /\ Q[l][Len(Q[l])] = n
      <4> HIDE DEF Q
      <4> QED
        BY <1>1, <1>2
    <3>2. last'[l] = n
      BY DEF Enqueue, LinksTypeOK
    <3>3. first'[l] = IF s = <<>> THEN n ELSE s[1]
      BY <1>5 DEF Enqueue, LinksTypeOK
    <3>4. Q[l][1] = IF s = <<>> THEN n ELSE s[1]
      BY <1>1, <1>2
    <3> QED
      BY <3>1, <3>2, <3>3, <3>4
  <2>2. ASSUME NEW i \in 1..Len(s)
        PROVE  /\ next'[s[i]] = IF i = Len(s) THEN n ELSE s[i + 1]
               /\ prev'[s[i]] = IF i = 1 THEN Null ELSE s[i - 1]
    <3>1. s[i] \in N /\ s[i] # n /\ s # <<>>
      BY <1>1, <1>3
    <3>2. /\ next[s[i]] = IF i = Len(s) THEN Null ELSE s[i + 1]
          /\ prev[s[i]] = IF i = 1 THEN Null ELSE s[i - 1]
      BY <1>1 DEF Chains, Spells
    <3>3. s[i] = s[Len(s)] <=> i = Len(s)
      BY <1>1, <3>1 DEF Chains
    <3> QED
      BY <1>5, <3>1, <3>2, <3>3 DEF Enqueue, LinksTypeOK
  <2>3. next'[n] = Null /\ prev'[n] = IF s = <<>> THEN Null ELSE s[Len(s)]
    <3>1. s # <<>> => last[l] # n
      BY <1>1, <1>3, <1>5
    <3> QED
      BY <1>5, <3>1 DEF Enqueue, LinksTypeOK
  <2> QED
    BY <1>1, <1>2, <2>1, <2>2, <2>3 DEF Spells
<1>7. ASSUME NEW m \in L, m # l
      PROVE  Spells(m, Q[m])'
  <2>1. Spells(m, q[m])
    BY DEF Chains
  <2>2. first'[m] = first[m] /\ last'[m] = last[m]
    BY <1>7 DEF Enqueue, LinksTypeOK
  <2>3. ASSUME NEW i \in 1..Len(q[m])
        PROVE  next'[q[m][i]] = next[q[m][i]] /\ prev'[q[m][i]] = prev[q[m][i]]
    <3>1. q[m][i] \in N /\ q[m][i] # n
      BY <1>3
    <3>2. first[l] # Null => q[m][i] # last[l]
      BY <1>1, <1>5, <1>7 DEF Chains
    <3> QED
      BY <3>1, <3>2 DEF Enqueue, LinksTypeOK
  <2> QED
    BY <1>2, <1>7, <2>1, <2>2, <2>3 DEF Spells
<1>8. ASSUME NEW m \in L, NEW k \in L, NEW i \in 1..Len(Q[m]), NEW j \in 1..Len(Q[k]),
             Q[m][i] = Q[k][j]
      PROVE  m = k /\ i = j
  <2>1. \A h \in L : \A o \in 1..Len(Q[h]) :
          IF Q[h][o] = n THEN h = l /\ o = Len(s) + 1
          ELSE o \in 1..Len(q[h]) /\ Q[h][o] = q[h][o]
    BY <1>1, <1>2, <1>3
  <2> QED
    BY <1>8, <2>1 DEF Chains
<1>9. ASSUME NEW m \in N, \A k \in L : ~Within(m, Q[k])
      PROVE  prev'[m] = Null /\ next'[m] = Null
  <2>1. m # n
    BY <1>1, <1>2, <1>9 DEF Within
  <2>2. \A k \in L : ~Within(m, q[k])
    BY <1>1, <1>2, <1>9 DEF Within
  <2>3. first[l] # Null => m # last[l]
    BY <1>1, <1>5, <2>2 DEF Within
  <2> QED
    BY <2>1, <2>2, <2>3 DEF Chains, Enqueue, LinksTypeOK
<1> QED
  BY <1>2, <1>4, <1>6, <1>7, <1>8, <1>9 DEF Chains

\* Dequeue unlinks a node that stands in the list it is asked of ...
LEMMA DequeueChains ==
  ASSUME NEW L, NEW N, Null \notin N,
         NEW q, Chains(L, N, q), LinksTypeOK(L, N),
         NEW l \in L, NEW k \in 1..Len(q[l]),
         Dequeue(l, q[l][k])
  PROVE  Chains(L, N, [q EXCEPT ![l] = Without(q[l], k)])' /\ LinksTypeOK(L, N)'
<1> DEFINE s == q[l]
           n == s[k]
           t == Without(s, k)
           Q == [q EXCEPT ![l] = t]
<1>1. /\ s \in Seq(N) /\ Len(s) \in Nat /\ Len(s) >= 1
      /\ \A m \in L : q[m] \in Seq(N) /\ Len(q[m]) \in Nat
  BY DEF Chains
<1>2. /\ t \in Seq(N) /\ Len(t) = Len(s) - 1
      /\ \A i \in 1..(Len(s) - 1) : t[i] = IF i < k THEN s[i] ELSE s[i + 1]
  BY <1>1, WithoutIsSeq
<1> HIDE DEF t
<1>3. /\ Q \in [L -> Seq(N)] /\ Q[l] = t
      /\ \A m \in L \ {l} : Q[m] = q[m]
  BY <1>1, <1>2 DEF Chains
<1>4. /\ n \in N
      /\ \A m \in L : \A i \in 1..Len(q[m]) :
           q[m][i] \in N /\ (q[m][i] = n <=> m = l /\ i = k)
  BY <1>1 DEF Chains
<1>5. /\ next[n] = IF k = Len(s) THEN Null ELSE s[k + 1]
      /\ prev[n] = IF k = 1 THEN Null ELSE s[k - 1]
      /\ first[l] = s[1] /\ last[l] = s[Len(s)]
  BY <1>1 DEF Chains, Spells
<1>6. \A m \in L : \A i \in 1..Len(q[m]) :
        /\ q[m][i] = prev[n] <=> m = l /\ i = k - 1
        /\ q[m][i] = next[n] <=> m = l /\ i = k + 1
  <2> SUFFICES ASSUME NEW m \in L, NEW i \in 1..Len(q[m])
               PROVE  /\ q[m][i] = prev[n] <=> m = l /\ i = k - 1
                      /\ q[m][i] = next[n] <=> m = l /\ i = k + 1
    OBVIOUS
  <2>1. q[m][i] # Null
    BY <1>4
  <2>2. \A j \in 1..Len(s) : q[m][i] = s[j] <=> m = l /\ i = j
    BY DEF Chains
  <2>3. (k # 1 => k - 1 \in 1..Len(s)) /\ (k # Len(s) => k + 1 \in 1..Len(s))
    BY <1>1
  <2> QED
    BY <1>1, <1>5, <2>1, <2>2, <2>3
<1>7. LinksTypeOK(L, N)'
  BY <1>4 DEF Dequeue, LinksTypeOK
<1>8. \A m \in N :
        /\ next'[m] = IF m = n THEN Null ELSE IF m = prev[n] THEN next[n] ELSE next[m]
        /\ prev'[m] = IF m = n THEN Null ELSE IF m = next[n] THEN prev[n] ELSE prev[m]
  BY DEF Dequeue, LinksTypeOK
<1>9. Spells(l, t)'
  <2>1. first'[l] = IF t = <<>> THEN Null ELSE t[1]
    <3>1. first'[l] = IF k = 1 THEN next[n] ELSE s[1]
      BY <1>4, <1>1, <1>5 DEF Dequeue, LinksTypeOK
    <3>2. t = <<>> <=> Len(s) = 1
      <4>1. t = <<>> <=> Len(t) = 0
        BY <1>2, EmptyLen
      <4> QED
        BY <1>1, <1>2, <4>1
    <3> QED
      BY <1>1, <1>2, <1>5, <3>1, <3>2
  <2>2. last'[l] = IF t = <<>> THEN Null ELSE t[Len(t)]
    <3>1. last'[l] = IF k = Len(s) THEN prev[n] ELSE s[Len(s)]
      BY <1>4, <1>1, <1>5 DEF Dequeue, LinksTypeOK
    <3>2. t = <<>> <=> Len(s) = 1
      <4>1. t = <<>> <=> Len(t) = 0
        BY <1>2, EmptyLen
      <4> QED
        BY <1>1, <1>2, <4>1
    <3> QED
      BY <1>1, <1>2, <1>5, <3>1, <3>2
  <2>3. ASSUME NEW i \in 1..Len(t)
        PROVE  /\ next'[t[i]] = IF i = Len(t) THEN Null ELSE t[i + 1]
               /\ prev'[t[i]] = IF i = 1 THEN Null ELSE t[i - 1]
    <3> DEFINE j == IF i < k THEN i ELSE i + 1
    <3>1. j \in 1..Len(s) /\ j # k /\ t[i] = s[j]
      BY <1>1, <1>2
    <3>2. /\ s[j] \in N /\ s[j] # n
          /\ s[j] = prev[n] <=> j = k - 1
          /\ s[j] = next[n] <=> j = k + 1
      BY <1>4, <1>6, <3>1
    <3>3. /\ next[s[j]] = IF j = Len(s) THEN Null ELSE s[j + 1]
          /\ prev[s[j]] = IF j = 1 THEN Null ELSE s[j - 1]
      <4>1. Spells(l, s)
        BY DEF Chains
      <4> HIDE DEF s, j
      <4> QED
        BY <3>1, <4>1 DEF Spells
    <3>4. /\ next'[s[j]] = IF j = k - 1 THEN next[n] ELSE next[s[j]]
          /\ prev'[s[j]] = IF j = k + 1 THEN prev[n] ELSE prev[s[j]]
      BY <1>8, <3>2
    <3>5. CASE i < k
      <4>1. j = i /\ (i = k - 1 => next'[t[i]] = next[n])
        BY <3>1, <3>4, <3>5
      <4>2. next'[t[i]] = IF i = k - 1 THEN next[n] ELSE s[i + 1]
        BY <1>1, <3>1, <3>3, <3>4, <3>5, <4>1
      <4>3. prev'[t[i]] = IF i = 1 THEN Null ELSE s[i - 1]
        BY <1>1, <3>1, <3>3, <3>4, <3>5, <4>1
      <4> HIDE DEF j
      <4>4. i # Len(t) => t[i + 1] = IF i + 1 < k THEN s[i + 1] ELSE s[i + 2]
        <5>1. i # Len(t) => i + 1 \in 1..(Len(s) - 1)
          BY <1>1, <1>2
        <5> QED
          BY <1>2, <5>1
      <4>5. i # 1 => t[i - 1] = s[i - 1]
        <5>1. i # 1 => i - 1 \in 1..(Len(s) - 1)
          BY <1>1, <1>2
        <5> QED
          BY <1>2, <3>5, <5>1
      <4>6. i = k - 1 => (i = Len(t) <=> k = Len(s)) /\ i + 2 = k + 1
        BY <1>1, <1>2
      <4>7. i # k - 1 => i # Len(t) /\ i + 1 < k
        BY <1>1, <1>2, <3>5
      <4> HIDE DEF s, n, Q
      <4>8. next'[t[i]] = IF i = Len(t) THEN Null ELSE t[i + 1]
        <5>1. CASE i = k - 1
          <6>1. i + 1 = k /\ i + 2 = k + 1 /\ ~(i + 1 < k)
            BY <5>1, <4>6
          <6> QED
            BY <1>5, <4>2, <4>4, <4>6, <5>1, <6>1
        <5>2. CASE i # k - 1
          BY <4>2, <4>4, <4>7, <5>2
        <5> QED
          BY <5>1, <5>2
      <4>9. prev'[t[i]] = IF i = 1 THEN Null ELSE t[i - 1]
        BY <4>3, <4>5
      <4> QED
        BY <4>8, <4>9
    <3>6. CASE ~(i < k)
      <4>1. j = i + 1
        BY <3>6
      <4> HIDE DEF j, s, n, Q
      <4>a. /\ j # k - 1 /\ (j = k + 1 <=> i = k) /\ j # 1 /\ j - 1 = i /\ j + 1 = i + 2
            /\ j = Len(s) <=> i = Len(t)
        BY <1>1, <1>2, <3>6, <4>1
      <4>2. next'[t[i]] = IF i = Len(t) THEN Null ELSE s[i + 2]
        <5>1. next'[t[i]] = next[s[j]]
          BY <3>1, <3>4, <4>a
        <5> QED
          BY <3>3, <4>a, <5>1
      <4>3. prev'[t[i]] = IF i = k THEN prev[n] ELSE s[i]
        <5>1. prev'[t[i]] = IF i = k THEN prev[n] ELSE prev[s[j]]
          BY <3>1, <3>4, <4>a
        <5> QED
          BY <3>3, <4>a, <5>1
      <4>4. i # Len(t) => t[i + 1] = s[i + 2]
        <5>1. i # Len(t) => i + 1 \in 1..(Len(s) - 1)
          BY <1>1, <1>2
        <5> QED
          BY <1>2, <3>6, <5>1
      <4>5. i # 1 => t[i - 1] = IF i = k THEN s[i - 1] ELSE s[i]
        <5>1. i # 1 => i - 1 \in 1..(Len(s) - 1)
          BY <1>1, <1>2
        <5> QED
          BY <1>2, <3>6, <5>1
      <4>6. i = 1 => i = k
        BY <3>6
      <4> QED
        BY <1>5, <4>2, <4>3, <4>4, <4>5, <4>6
    <3> QED
      BY <3>5, <3>6
  <2> QED
    BY <2>1, <2>2, <2>3 DEF Spells
<1>10. ASSUME NEW m \in L, m # l
       PROVE  Spells(m, q[m])'
  <2>1. Spells(m, q[m])
    BY DEF Chains
  <2>2. first'[m] = first[m] /\ last'[m] = last[m]
    BY <1>10 DEF Dequeue, LinksTypeOK
  <2>3. \A i \in 1..Len(q[m]) :
          next'[q[m][i]] = next[q[m][i]] /\ prev'[q[m][i]] = prev[q[m][i]]
    BY <1>4, <1>6, <1>8, <1>10
  <2> QED
    BY <2>1, <2>2, <2>3 DEF Spells
<1>11. \A m \in L : Spells(m, Q[m])'
  BY <1>3, <1>9, <1>10
<1>12. ASSUME NEW m \in L, NEW h \in L, NEW i \in 1..Len(Q[m]), NEW j \in 1..Len(Q[h]),
              Q[m][i] = Q[h][j]
       PROVE  m = h /\ i = j
  <2> DEFINE old(g, o) == IF g = l /\ o >= k THEN o + 1 ELSE o
  <2>a. ASSUME NEW g \in L, NEW o \in 1..Len(Q[g])
        PROVE  old(g, o) \in 1..Len(q[g]) /\ Q[g][o] = q[g][old(g, o)]
    BY <1>1, <1>2, <1>3
  <2>1. \A g \in L : \A o \in 1..Len(Q[g]) :
          old(g, o) \in 1..Len(q[g]) /\ Q[g][o] = q[g][old(g, o)]
    BY <2>a
  <2>b. q[m][old(m, i)] = q[h][old(h, j)]
    BY <1>12, <2>1
  <2>c. old(m, i) \in 1..Len(q[m]) /\ old(h, j) \in 1..Len(q[h])
    BY <2>1
  <2> HIDE DEF old
  <2>2. m = h /\ old(m, i) = old(h, j)
    BY <2>b, <2>c DEF Chains
  <2> USE DEF old
  <2> QED
    BY <1>1, <1>2, <1>3, <2>2
<1>13. ASSUME NEW m \in N, \A h \in L : ~Within(m, Q[h])
       PROVE  prev'[m] = Null /\ next'[m] = Null
  <2>1. CASE m = n
    BY <1>8, <2>1
  <2>2. CASE m # n
    <3>1. \A h \in L : ~Within(m, q[h])
      <4> SUFFICES ASSUME NEW h \in L, NEW i \in 1..Len(q[h]), q[h][i] = m
                   PROVE  FALSE
        BY DEF Within
      <4> DEFINE j == IF h = l /\ i > k THEN i - 1 ELSE i
      <4>1. ~(h = l /\ i = k)
        BY <2>2
      <4>2. j \in 1..Len(Q[h]) /\ Q[h][j] = m
        <5>1. CASE h # l
          BY <1>3, <5>1
        <5>2. CASE h = l /\ i > k
          <6>1. j = i - 1 /\ j \in 1..(Len(s) - 1) /\ ~(j < k) /\ j + 1 = i
            BY <1>1, <5>2
          <6> QED
            BY <1>2, <1>3, <5>2, <6>1
        <5>3. CASE h = l /\ i < k
          <6>1. j = i /\ j \in 1..(Len(s) - 1)
            BY <1>1, <5>3
          <6> QED
            BY <1>2, <1>3, <5>3, <6>1
        <5> QED
          BY <4>1, <5>1, <5>2, <5>3
      <4> QED
        BY <1>13, <4>2 DEF Within
    <3>2. m # prev[n] /\ m # next[n]
      BY <1>1, <1>4, <1>5, <3>1 DEF Within
    <3>3. prev[m] = Null /\ next[m] = Null
      BY <3>1 DEF Chains
    <3> QED
      BY <1>8, <2>2, <3>2, <3>3
  <2> QED
    BY <2>1, <2>2
<1>14. Chains(L, N, Q)'
  <2> HIDE DEF Q
  <2> QED
    BY <1>3, <1>11, <1>12, <1>13 DEF Chains
<1> QED
  BY <1>7, <1>14 DEF t

\* ... and changes nothing if the node stands in no list.
LEMMA DequeueUnlinked ==
  ASSUME NEW L, NEW N, Null \notin N,
         NEW q, Chains(L, N, q), LinksTypeOK(L, N),
         NEW l \in L, NEW n \in N, \A m \in L : ~Within(n, q[m]),
         Dequeue(l, n)
  PROVE  UNCHANGED linkVars
<1>1. prev[n] = Null /\ next[n] = Null
  BY DEF Chains
<1>2. q[l] \in Seq(N) /\ Len(q[l]) \in Nat
  BY DEF Chains
<1>3. first[l] # n /\ last[l] # n
  <2>1. q[l] # <<>> => 1 \in 1..Len(q[l]) /\ Len(q[l]) \in 1..Len(q[l])
    BY <1>2
  <2> QED
    BY <2>1 DEF Chains, Spells, Within
<1>4. next' = next /\ prev' = prev
  BY <1>1 DEF Dequeue, LinksTypeOK
<1> QED
  BY <1>3, <1>4 DEF Dequeue, linkVars

\* pop() does what dequeue does of the first node.
LEMMA PopFirstChains ==
  ASSUME NEW L, NEW N, Null \notin N,
         NEW q, Chains(L, N, q), LinksTypeOK(L, N),
         NEW l \in L, first[l] # Null,
         PopFirst(l)
  PROVE  /\ q[l] # <<>> /\ first[l] = q[l][1]
         /\ Chains(L, N, [q EXCEPT ![l] = Without(q[l], 1)])'
         /\ LinksTypeOK(L, N)'
<1> DEFINE n == first[l]
<1>1. /\ q[l] \in Seq(N) /\ Len(q[l]) \in Nat /\ q[l] # <<>>
      /\ n = q[l][1] /\ 1 \in 1..Len(q[l])
  BY DEF Chains, Spells
<1>2. /\ n \in N /\ prev[n] = Null
      /\ last[l] = n <=> next[n] = Null
  <2>1. last[l] = q[l][Len(q[l])] /\ Len(q[l]) \in 1..Len(q[l])
    BY <1>1 DEF Chains, Spells
  <2>2. q[l][Len(q[l])] = q[l][1] <=> Len(q[l]) = 1
    BY <1>1, <2>1 DEF Chains
  <2>3. \A i \in 1..Len(q[l]) : q[l][i] \in N /\ q[l][i] # Null
    BY <1>1
  <2>4. next[n] = IF 1 = Len(q[l]) THEN Null ELSE q[l][1 + 1]
    <3>1. Spells(l, q[l])
      BY DEF Chains
    <3> HIDE DEF n
    <3> QED
      BY <1>1, <3>1 DEF Spells
  <2>5. prev[n] = Null
    BY <1>1 DEF Chains, Spells
  <2> QED
    BY <1>1, <2>1, <2>2, <2>3, <2>4, <2>5
<1>3. Dequeue(l, n)
  <2>1. first' = IF first[l] = n THEN [first EXCEPT ![l] = next[n]] ELSE first
    BY DEF PopFirst
  <2>2. last' = IF last[l] = n THEN [last EXCEPT ![l] = prev[n]] ELSE last
    BY <1>2 DEF PopFirst
  <2>3. next' = [m \in DOMAIN next |-> IF m = n THEN Null
                                       ELSE IF m = prev[n] THEN next[n]
                                       ELSE next[m]]
    BY <1>2 DEF PopFirst, LinksTypeOK
  <2>4. prev' = [m \in DOMAIN prev |-> IF m = n THEN Null
                                       ELSE IF m = next[n] THEN prev[n]
                                       ELSE prev[m]]
    BY <1>2 DEF PopFirst, LinksTypeOK
  <2> QED
    BY <2>1, <2>2, <2>3, <2>4 DEF Dequeue
<1> QED
  BY <1>1, <1>3, DequeueChains

-----------------------------------------------------------------------------
(* The same, said of who is in which list.                                 *)

LEMMA WithoutWithin ==
  ASSUME NEW S, NEW s \in Seq(S), NEW k \in 1..Len(s), NEW x,
         \A i \in 1..Len(s) : s[i] = s[k] => i = k
  PROVE  Within(x, Without(s, k)) <=> Within(x, s) /\ x # s[k]
<1> DEFINE t == Without(s, k)
<1>1. /\ Len(s) \in Nat /\ Len(t) = Len(s) - 1
      /\ \A i \in 1..(Len(s) - 1) : t[i] = IF i < k THEN s[i] ELSE s[i + 1]
  BY WithoutIsSeq
<1> HIDE DEF t
<1>2. ASSUME NEW i \in 1..Len(t), t[i] = x
      PROVE  Within(x, s) /\ x # s[k]
  <2> DEFINE j == IF i < k THEN i ELSE i + 1
  <2>1. j \in 1..Len(s) /\ j # k /\ t[i] = s[j]
    BY <1>1
  <2> QED
    BY <1>2, <2>1 DEF Within
<1>3. ASSUME NEW i \in 1..Len(s), s[i] = x, x # s[k]
      PROVE  Within(x, t)
  <2> DEFINE j == IF i < k THEN i ELSE i - 1
  <2>1. i # k
    BY <1>3
  <2>2. j \in 1..Len(t) /\ t[j] = s[i]
    BY <1>1, <2>1
  <2> QED
    BY <1>3, <2>2 DEF Within
<1> QED
  BY <1>2, <1>3 DEF Within, t

\* The lists stand for queues again: those of q with n in queue l as well, or
\* without n.
Joined(L, N, q, l, n) ==
  \E Q : /\ Chains(L, N, Q)'
         /\ \A m \in L : \A x \in N :
              Within(x, Q[m]) <=> Within(x, q[m]) \/ (m = l /\ x = n)

TakenOut(L, N, q, n) ==
  \E Q : /\ Chains(L, N, Q)'
         /\ \A m \in L : \A x \in N : Within(x, Q[m]) <=> Within(x, q[m]) /\ x # n

\* Enqueue adds n to the end of l.
LEMMA EnqueueQueue ==
  ASSUME NEW L, NEW N, Null \notin N,
         NEW q, Chains(L, N, q), LinksTypeOK(L, N),
         NEW l \in L, NEW n \in N, \A m \in L : ~Within(n, q[m]),
         Enqueue(l, n)
  PROVE  Joined(L, N, q, l, n)
<1> DEFINE Q == [q EXCEPT ![l] = Append(q[l], n)]
<1>1. Chains(L, N, Q)'
  BY EnqueueChains
<1>2. q \in [L -> Seq(N)]
  BY DEF Chains
<1>3. \A m \in L \ {l} : Q[m] = q[m]
  BY <1>2
<1>4. ASSUME NEW x PROVE Within(x, Q[l]) <=> Within(x, q[l]) \/ x = n
  <2> DEFINE s == q[l]
  <2>1. s \in Seq(N) /\ Q[l] = Append(s, n)
    BY <1>2
  <2> HIDE DEF s
  <2>2. /\ Len(s) \in Nat /\ Len(Append(s, n)) = Len(s) + 1
        /\ \A i \in 1..Len(s) : Append(s, n)[i] = s[i]
        /\ Append(s, n)[Len(s) + 1] = n
    BY <2>1
  <2>3. Within(x, Append(s, n)) <=> Within(x, s) \/ x = n
    BY <2>2 DEF Within
  <2> QED
    BY <2>1, <2>3 DEF s
<1> HIDE DEF Q
<1> QED
  BY <1>1, <1>3, <1>4 DEF Joined

\* Dequeue takes a node out of the list it stands in.
LEMMA DequeueQueue ==
  ASSUME NEW L, NEW N, Null \notin N,
         NEW q, Chains(L, N, q), LinksTypeOK(L, N),
         NEW l \in L, NEW n \in N, Within(n, q[l]),
         Dequeue(l, n)
  PROVE  TakenOut(L, N, q, n)
<1> PICK k \in 1..Len(q[l]) : q[l][k] = n
  BY DEF Within
<1> DEFINE Q == [q EXCEPT ![l] = Without(q[l], k)]
<1>1. Chains(L, N, Q)'
  BY DequeueChains
<1>2. /\ q \in [L -> Seq(N)]
      /\ \A m \in L : \A i \in 1..Len(q[m]) : q[m][i] = n => m = l /\ i = k
  BY DEF Chains
<1>3. ASSUME NEW m \in L, m # l, NEW x
      PROVE  Within(x, Q[m]) <=> Within(x, q[m]) /\ x # n
  BY <1>2, <1>3 DEF Within
<1>4. ASSUME NEW x PROVE Within(x, Q[l]) <=> Within(x, q[l]) /\ x # n
  <2>1. Q[l] = Without(q[l], k) /\ q[l] \in Seq(N)
    BY <1>2
  <2>2. \A i \in 1..Len(q[l]) : q[l][i] = q[l][k] => i = k
    BY <1>2
  <2> QED
    BY <2>1, <2>2, WithoutWithin
<1> HIDE DEF Q
<1> QED
  BY <1>1, <1>3, <1>4 DEF TakenOut

\* Dequeue of a node that stands in l or nowhere: afterwards it stands nowhere.
LEMMA DequeueAnyway ==
  ASSUME NEW L, NEW N, Null \notin N,
         NEW q, Chains(L, N, q), LinksTypeOK(L, N),
         NEW l \in L, NEW n \in N, \A m \in L : Within(n, q[m]) => m = l,
         Dequeue(l, n)
  PROVE  TakenOut(L, N, q, n)
<1>1. CASE Within(n, q[l])
  BY <1>1, DequeueQueue
<1>2. CASE ~Within(n, q[l])
  <2>1. \A m \in L : ~Within(n, q[m])
    BY <1>2
  <2>2. UNCHANGED linkVars
    BY <2>1, DequeueUnlinked
  <2>3. Chains(L, N, q)'
    BY <2>2 DEF Chains, Spells, linkVars
  <2>4. \A m \in L : \A x \in N : Within(x, q[m]) <=> Within(x, q[m]) /\ x # n
    BY <2>1
  <2> QED
    BY <2>3, <2>4 DEF TakenOut
<1> QED
  BY <1>1, <1>2

\* Pop takes out the first node of a list.
LEMMA PopFirstQueue ==
  ASSUME NEW L, NEW N, Null \notin N,
         NEW q, Chains(L, N, q), LinksTypeOK(L, N),
         NEW l \in L, first[l] # Null,
         PopFirst(l)
  PROVE  TakenOut(L, N, q, first[l])
<1> DEFINE Q == [q EXCEPT ![l] = Without(q[l], 1)]
           n == first[l]
<1>1. Chains(L, N, Q)' /\ q[l] # <<>> /\ n = q[l][1]
  BY PopFirstChains
<1>2. /\ q \in [L -> Seq(N)] /\ 1 \in 1..Len(q[l])
      /\ \A m \in L : \A i \in 1..Len(q[m]) : q[m][i] = n => m = l /\ i = 1
  <2>1. q \in [L -> Seq(N)]
    BY DEF Chains
  <2>2. 1 \in 1..Len(q[l])
    BY <1>1, <2>1, EmptyLen
  <2> QED
    BY <1>1, <2>1, <2>2 DEF Chains
<1> HIDE DEF n
<1>3. ASSUME NEW m \in L, m # l, NEW x
      PROVE  Within(x, Q[m]) <=> Within(x, q[m]) /\ x # n
  BY <1>2, <1>3 DEF Within
<1>4. ASSUME NEW x PROVE Within(x, Q[l]) <=> Within(x, q[l]) /\ x # n
  <2>1. Q[l] = Without(q[l], 1) /\ q[l] \in Seq(N)
    BY <1>2
  <2>2. \A i \in 1..Len(q[l]) : q[l][i] = q[l][1] => i = 1
    BY <1>1, <1>2
  <2> QED
    BY <1>1, <1>2, <2>1, <2>2, WithoutWithin
<1> HIDE DEF Q
<1> QED
  BY <1>1, <1>3, <1>4 DEF n, TakenOut

\* The first node of a list stands in it.
LEMMA FirstWithin ==
  ASSUME NEW L, NEW N, NEW q, Chains(L, N, q), NEW l \in L, first[l] # Null
  PROVE  Within(first[l], q[l])
<1>1. first[l] = q[l][1] /\ q[l] # <<>> /\ q[l] \in Seq(N)
  BY DEF Chains, Spells
<1>2. 1 \in 1..Len(q[l])
  BY <1>1, EmptyLen
<1> QED
  BY <1>1, <1>2 DEF Within

\* Pointers only lead to nodes that stand in a list.
LEMMA PointersWithin ==
  ASSUME NEW L, NEW N, NEW q, Chains(L, N, q)
  PROVE  /\ \A l \in L : \A x \in {first[l], last[l]} : x = Null \/ (x \in N /\ Within(x, q[l]))
         /\ \A n \in N : \A x \in {prev[n], next[n]} :
              x = Null \/ (x \in N /\ \E l \in L : Within(x, q[l]))
<1>1. \A l \in L : /\ q[l] \in Seq(N) /\ Len(q[l]) \in Nat
                   /\ \A i \in 1..Len(q[l]) : q[l][i] \in N /\ Within(q[l][i], q[l])
  BY DEF Chains, Within
<1>2. ASSUME NEW l \in L, NEW x \in {first[l], last[l]}
      PROVE  x = Null \/ (x \in N /\ Within(x, q[l]))
  <2>1. CASE q[l] = <<>>
    BY <2>1 DEF Chains, Spells
  <2>2. CASE q[l] # <<>>
    <3>1. 1 \in 1..Len(q[l]) /\ Len(q[l]) \in 1..Len(q[l])
      BY <1>1, <2>2, EmptyLen
    <3>2. first[l] = q[l][1] /\ last[l] = q[l][Len(q[l])]
      BY <2>2 DEF Chains, Spells
    <3> QED
      BY <1>1, <3>1, <3>2
  <2> QED
    BY <2>1, <2>2
<1>3. ASSUME NEW n \in N, NEW x \in {prev[n], next[n]}, x # Null
      PROVE  x \in N /\ \E l \in L : Within(x, q[l])
  <2>1. PICK l \in L : Within(n, q[l])
    BY <1>3 DEF Chains
  <2>2. PICK i \in 1..Len(q[l]) : q[l][i] = n
    BY <2>1 DEF Within
  <2>3. /\ next[n] = IF i = Len(q[l]) THEN Null ELSE q[l][i + 1]
        /\ prev[n] = IF i = 1 THEN Null ELSE q[l][i - 1]
    <3>1. Spells(l, q[l])
      BY DEF Chains
    <3> QED
      BY <2>2, <3>1 DEF Spells
  <2>4. (i # Len(q[l]) => i + 1 \in 1..Len(q[l])) /\ (i # 1 => i - 1 \in 1..Len(q[l]))
    BY <1>1
  <2> QED
    BY <1>1, <1>3, <2>3, <2>4
<1> QED
  BY <1>2, <1>3

\* The assertions of dequeue hold of a node that stands in l or nowhere.
LEMMA DequeueAssertsHold ==
  ASSUME NEW L, NEW N, Null \notin N, NEW q, Chains(L, N, q),
         NEW l \in L, NEW n \in N, \A m \in L : Within(n, q[m]) => m = l
  PROVE  DequeueAsserts(l, n)
<1>1. CASE Within(n, q[l])
  <2>1. PICK i \in 1..Len(q[l]) : q[l][i] = n
    BY <1>1 DEF Within
  <2>2. q[l] \in Seq(N) /\ Len(q[l]) \in Nat /\ q[l] # <<>>
    BY <2>1, EmptyLen DEF Chains
  <2>3. /\ first[l] = q[l][1] /\ last[l] = q[l][Len(q[l])]
        /\ next[n] = IF i = Len(q[l]) THEN Null ELSE q[l][i + 1]
        /\ prev[n] = IF i = 1 THEN Null ELSE q[l][i - 1]
    BY <2>1, <2>2 DEF Chains, Spells
  <2>4. \A j \in 1..Len(q[l]) : q[l][j] # Null
    BY <2>2
  <2>5. (i # Len(q[l]) => i + 1 \in 1..Len(q[l])) /\ (i # 1 => i - 1 \in 1..Len(q[l]))
    BY <2>2
  <2> QED
    BY <2>1, <2>3, <2>4, <2>5 DEF DequeueAsserts
<1>2. CASE ~Within(n, q[l])
  <2>1. \A m \in L : ~Within(n, q[m])
    BY <1>2
  <2>2. prev[n] = Null /\ next[n] = Null
    BY <2>1 DEF Chains
  <2> QED
    BY <2>2 DEF DequeueAsserts
<1> QED
  BY <1>1, <1>2

-----------------------------------------------------------------------------
(* The three operations keep the types of the pointers, whatever the lists *)
(* look like.                                                              *)

LEMMA EnqueueLinksType ==
  ASSUME NEW L, NEW N, LinksTypeOK(L, N), NEW l \in L, NEW n \in N, Enqueue(l, n)
  PROVE  LinksTypeOK(L, N)'
BY DEF Enqueue, LinksTypeOK

LEMMA DequeueLinksType ==
  ASSUME NEW L, NEW N, LinksTypeOK(L, N), NEW l \in L, NEW n \in N, Dequeue(l, n)
  PROVE  LinksTypeOK(L, N)'
BY DEF Dequeue, LinksTypeOK

LEMMA PopFirstLinksType ==
  ASSUME NEW L, NEW N, LinksTypeOK(L, N), NEW l \in L, first[l] \in N, PopFirst(l)
  PROVE  LinksTypeOK(L, N)'
BY DEF PopFirst, LinksTypeOK

-----------------------------------------------------------------------------
(* Walking a list.                                                         *)

\* Induction over the natural numbers, by the least element of a set.
LEMMA LessThan ==
  \E R, S : /\ IsWellFoundedOn(R, S) /\ \A x : x \in S <=> x \in Nat
            /\ \A x, y \in Nat : <<x, y>> \in R <=> x < y
<1>1. IsWellFoundedOn(OpToRel(<, Nat), Nat)
  BY NatLessThanWellFounded
<1>2. \A x, y \in Nat : <<x, y>> \in OpToRel(<, Nat) <=> x < y
  BY DEF OpToRel
<1> WITNESS OpToRel(<, Nat), Nat
<1> QED
  BY <1>1, <1>2

LEMMA LeastOne ==
  ASSUME NEW T \in SUBSET Nat, T # {}
  PROVE  \E x \in T : \A y \in T : x <= y
<1> PICK R, S : /\ IsWellFoundedOn(R, S) /\ \A x : x \in S <=> x \in Nat
                /\ \A x, y \in Nat : <<x, y>> \in R <=> x < y
  BY LessThan
<1>1. T \subseteq S
  OBVIOUS
<1>2. \E x \in T : \A y \in T : ~(<<y, x>> \in R)
  BY <1>1, WFMin
<1>3. PICK x \in T : \A y \in T : ~(<<y, x>> \in R)
  BY <1>2
<1>4. \A y \in T : ~(y < x)
  BY <1>3
<1> QED
  BY <1>4

LEMMA Inductive ==
  ASSUME NEW T, 0 \in T, \A n \in Nat : n \in T => n + 1 \in T
  PROVE  Nat \subseteq T
<1> SUFFICES ASSUME Nat \ T # {} PROVE FALSE
  OBVIOUS
<1> PICK U : U = Nat \ T
  OBVIOUS
<1>1. U \in SUBSET Nat /\ U # {}
  OBVIOUS
<1>2. PICK x \in U : \A y \in U : x <= y
  BY <1>1, LeastOne
<1>3. x \in Nat /\ x # 0 /\ x \notin T
  OBVIOUS
<1>4. x - 1 \in Nat /\ x - 1 \in T
  BY <1>2, <1>3
<1> QED
  BY <1>3, <1>4

\* A step of the walk: g is where one is after every number of steps.
Walks(l, b, g) ==
  g = [k \in 0..b |-> IF k = 0 THEN first[l]
                      ELSE IF g[k - 1] = Null THEN Null ELSE next[g[k - 1]]]

\* The queue is where its walk leads, and there is only one walk.
LEMMA HopsOfQueue ==
  ASSUME NEW L, NEW N, Null \notin N, NEW q, Chains(L, N, q), NEW l \in L,
         Cardinality(DOMAIN next) \in Nat, Len(q[l]) <= Cardinality(DOMAIN next)
  PROVE  \A k \in 0..Cardinality(DOMAIN next) :
           Hops(l)[k] = IF k < Len(q[l]) THEN q[l][k + 1] ELSE Null
<1> PICK s : s = q[l]
  OBVIOUS
<1> PICK b \in Nat : b = Cardinality(DOMAIN next)
  OBVIOUS
<1>1. /\ s \in Seq(N) /\ Len(s) \in Nat /\ Len(s) <= b
      /\ first[l] = IF Len(s) = 0 THEN Null ELSE s[1]
      /\ \A i \in 1..Len(s) : s[i] \in N /\ next[s[i]] = IF i = Len(s) THEN Null ELSE s[i + 1]
  BY EmptyLen DEF Chains, Spells
<1> PICK f : f = [k \in 0..b |-> IF k < Len(s) THEN s[k + 1] ELSE Null]
  OBVIOUS
<1>2. \A k \in 0..b : f[k] = IF k < Len(s) THEN s[k + 1] ELSE Null
  OBVIOUS
<1>3. ASSUME NEW k \in 0..b
      PROVE  f[k] = IF k = 0 THEN first[l]
                    ELSE IF f[k - 1] = Null THEN Null ELSE next[f[k - 1]]
  <2>1. CASE k = 0
    BY <1>1, <1>2, <2>1
  <2>2. CASE k # 0 /\ k - 1 < Len(s)
    <3>1. k - 1 \in 0..b /\ k \in 1..Len(s)
      BY <1>1, <2>2
    <3>2. f[k - 1] = s[k] /\ s[k] # Null
      BY <1>1, <1>2, <2>2, <3>1
    <3>3. next[s[k]] = IF k = Len(s) THEN Null ELSE s[k + 1]
      BY <1>1, <3>1
    <3>4. f[k] = IF k = Len(s) THEN Null ELSE s[k + 1]
      BY <1>1, <1>2, <3>1
    <3> QED
      BY <2>2, <3>2, <3>3, <3>4
  <2>3. CASE k # 0 /\ ~(k - 1 < Len(s))
    <3>1. k - 1 \in 0..b /\ ~(k < Len(s))
      BY <1>1, <2>3
    <3> QED
      BY <1>2, <2>3, <3>1
  <2> QED
    BY <2>1, <2>2, <2>3
<1>4. Walks(l, b, f)
  <2>1. f = [k \in 0..b |-> f[k]]
    OBVIOUS
  <2> QED
    BY <1>3, <2>1 DEF Walks
<1>5. Walks(l, b, Hops(l))
  <2>1. Hops(l) = CHOOSE g : Walks(l, b, g)
    BY DEF Hops, Walks
  <2> QED
    BY <1>4, <2>1
<1> PICK h : h = Hops(l)
  OBVIOUS
<1>6. \A k \in 0..b : h[k] = IF k = 0 THEN first[l]
                             ELSE IF h[k - 1] = Null THEN Null ELSE next[h[k - 1]]
  <2>1. Walks(l, b, h)
    BY <1>5
  <2> QED
    BY <2>1 DEF Walks
<1>7. \A k \in Nat : k \in 0..b => h[k] = f[k]
  <2> PICK T : T = {k \in Nat : k \in 0..b => h[k] = f[k]}
    OBVIOUS
  <2>1. 0 \in T
    BY <1>3, <1>6
  <2>2. ASSUME NEW n \in Nat, n \in T
        PROVE  n + 1 \in T
    <3> SUFFICES ASSUME n + 1 \in 0..b PROVE h[n + 1] = f[n + 1]
      OBVIOUS
    <3>1. n \in 0..b /\ n + 1 # 0 /\ (n + 1) - 1 = n
      OBVIOUS
    <3>2. h[n] = f[n]
      BY <2>2, <3>1
    <3>3. h[n + 1] = IF h[n] = Null THEN Null ELSE next[h[n]]
      BY <1>6, <3>1
    <3>4. f[n + 1] = IF f[n] = Null THEN Null ELSE next[f[n]]
      BY <1>3, <3>1
    <3> QED
      BY <3>2, <3>3, <3>4
  <2>3. Nat \subseteq T
    BY <2>1, <2>2, Inductive
  <2> QED
    BY <2>3
<1> QED
  BY <1>2, <1>7

\* The loop of dequeue_first_available, if it dropped every node, would meet
\* those of the queue, in its order.
LEMMA ForwardIsQueue ==
  ASSUME NEW L, NEW N, Null \notin N, IsFiniteSet(N),
         NEW q, Chains(L, N, q), LinksTypeOK(L, N), NEW l \in L
  PROVE  Forward(l) = q[l]
<1> PICK s : s = q[l]
  OBVIOUS
<1> PICK b : b = Cardinality(DOMAIN next)
  OBVIOUS
<1>1. DOMAIN next = N /\ b \in Nat
  BY FS_CardinalityType DEF LinksTypeOK
<1>2. s \in Seq(N) /\ Len(s) \in Nat /\ \A i \in 1..Len(s) : s[i] \in N
  BY DEF Chains
<1>3. Len(s) <= b
  <2>1. \A i, j \in 1..Len(s) : s[i] = s[j] => i = j
    BY DEF Chains
  <2>2. s \in [1..Len(s) -> N]
    BY <1>2
  <2>3. s \in Injection(1..Len(s), N)
    BY <2>1, <2>2 DEF Injection, IsInjective
  <2>4. Cardinality(1..Len(s)) <= Cardinality(N)
    BY <2>3, FS_Injection
  <2>5. Cardinality(1..Len(s)) = Len(s)
    BY <1>2, FS_Interval
  <2> QED
    BY <1>1, <2>4, <2>5
<1>4. \A k \in 0..b : Hops(l)[k] = IF k < Len(s) THEN s[k + 1] ELSE Null
  <2>1. Cardinality(DOMAIN next) \in Nat /\ Len(q[l]) <= Cardinality(DOMAIN next)
    BY <1>1, <1>3
  <2>2. \A k \in 0..Cardinality(DOMAIN next) :
           Hops(l)[k] = IF k < Len(q[l]) THEN q[l][k + 1] ELSE Null
    BY <2>1, HopsOfQueue
  <2> QED
    BY <2>2
<1>5. {k \in 0..(b - 1) : Hops(l)[k] # Null} = 0..(Len(s) - 1)
  <2>1. ASSUME NEW k \in 0..(b - 1)
        PROVE  Hops(l)[k] # Null <=> k < Len(s)
    <3>1. k \in 0..b /\ (k < Len(s) => k + 1 \in 1..Len(s))
      BY <1>1, <1>2
    <3> QED
      BY <1>2, <1>4, <3>1
  <2> QED
    BY <1>1, <1>2, <1>3, <2>1
<1>6. Cardinality(0..(Len(s) - 1)) = Len(s)
  BY <1>2, FS_Interval
<1>7. Forward(l) = [k \in 1..Len(s) |-> Hops(l)[k - 1]]
  BY <1>5, <1>6 DEF Forward
<1>8. \A k \in 1..Len(s) : Hops(l)[k - 1] = s[k]
  BY <1>1, <1>2, <1>3, <1>4
<1>9. s = [k \in 1..Len(s) |-> s[k]]
  BY <1>2
<1> QED
  BY <1>7, <1>8, <1>9

-----------------------------------------------------------------------------
(* Selections.                                                             *)

\* What a selection consists of.
LEMMA SelectionFacts ==
  ASSUME NEW s \in SelectionsOfChannels
  PROVE  /\ s.wait \in BOOLEAN
         /\ s.alts \in Seq(Alternatives)
         /\ Len(s.alts) \in 1..MaxAlts
         /\ \A i \in 1..Len(s.alts) :
              /\ s.alts[i] \in Alternatives
              /\ s.alts[i].op \in Ops
              /\ s.alts[i].kind # "nothing" =>
                   s.alts[i].kind \in {"read", "write"} /\ s.alts[i].chan \in Channels
              /\ s.wait => s.alts[i].kind # "nothing"
<1>1. /\ s.wait \in BOOLEAN /\ s.alts \in Seq(Alternatives)
      /\ Len(s.alts) \in 1..MaxAlts
      /\ s.wait => WaitableSelection(s.alts)
  BY DEF SelectionsOfChannels
<1>2. \A a \in Alternatives :
        /\ a.op \in Ops
        /\ a.kind # "nothing" => a.kind \in {"read", "write"} /\ a.chan \in Channels
  BY DEF Alternatives
<1>3. \A i \in 1..Len(s.alts) : s.alts[i] \in Alternatives
  BY <1>1
<1> QED
  BY <1>1, <1>2, <1>3 DEF WaitableSelection, AlwaysWaitfree

-----------------------------------------------------------------------------
(* The part of the invariant that holds for every script.                  *)

Inv1 == ControlTypeOK /\ Control /\ Exclusion

LEMMA InitInv1 ==
  ASSUME Init
  PROVE  Inv1
<1> USE ChannelAssumption
<1>1. ControlTypeOK
  BY DEF Init, ControlTypeOK, LinksInit, LinksTypeOK, PCs, Critical, NoSelection
<1>2. Control
  BY DEF Init, Control, ControlOf, Submitting, Critical, NoSelection, Alts
<1>3. Exclusion
  BY DEF Init, Exclusion, ExclusionOf, Critical
<1> QED
  BY <1>1, <1>2, <1>3 DEF Inv1

\* The alternative that is submitted, or about to be.
LEMMA AltFacts ==
  ASSUME Inv1, NEW p \in Procs, pc[p] \in Submitting, at[p] <= Len(Alts(p))
  PROVE  /\ sel[p] \in SelectionsOfChannels
         /\ at[p] \in 1..Len(Alts(p)) /\ at[p] \in 1..MaxAlts
         /\ Len(Alts(p)) \in 1..MaxAlts
         /\ Alt(p).op \in Ops
         /\ Alt(p).kind # "nothing" =>
              Alt(p).kind \in {"read", "write"} /\ Chan(p) \in Channels
         /\ sel[p].wait => Alt(p).kind # "nothing"
<1>1. sel[p] \in SelectionsOfChannels
  BY DEF Inv1, Control, ControlOf, Submitting, Critical
<1>2. Len(Alts(p)) \in 1..MaxAlts
  BY <1>1, SelectionFacts DEF Alts
<1>3. at[p] \in 1..Len(Alts(p))
  BY <1>2 DEF Inv1, Control, ControlOf
<1> QED
  BY <1>1, <1>2, <1>3, SelectionFacts, ChannelAssumption
     DEF Alts, Alt, Chan, ChannelAssumption

\* The alternative a coroutine is in a channel for.
LEMMA CriticalFacts ==
  ASSUME Inv1, NEW p \in Procs, pc[p] \in Critical
  PROVE  /\ sel[p] \in SelectionsOfChannels
         /\ at[p] \in 1..Len(Alts(p)) /\ at[p] \in 1..MaxAlts
         /\ Alt(p).op \in Ops
         /\ Alt(p).kind \in {"read", "write"}
         /\ Chan(p) \in Channels
         /\ PeerList(Alt(p)) \in Lists /\ ListOf(Alt(p)) \in Lists
         /\ owner[Chan(p)] = p
<1>1. /\ pc[p] \in Submitting /\ at[p] <= Len(Alts(p))
      /\ Alt(p).kind # "nothing" /\ owner[Chan(p)] = p
  BY DEF Inv1, Control, ControlOf, Exclusion, ExclusionOf, Submitting
<1>2. /\ sel[p] \in SelectionsOfChannels
      /\ at[p] \in 1..Len(Alts(p)) /\ at[p] \in 1..MaxAlts
      /\ Alt(p).op \in Ops
      /\ Alt(p).kind \in {"read", "write"}
      /\ Chan(p) \in Channels
  BY <1>1, AltFacts
<1>3. PeerList(Alt(p)) \in Lists /\ ListOf(Alt(p)) \in Lists
  BY <1>2 DEF PeerList, ListOf, ReaderList, WriterList, Lists, Chan
<1> QED
  BY <1>1, <1>2, <1>3

\* A step of p keeps the invariant of another coroutine that it leaves alone,
\* or claims.
Untaken(r) ==
  /\ pc'[r] = pc[r] /\ sel'[r] = sel[r] /\ at'[r] = at[r]
  /\ suspended'[r] = suspended[r] /\ queued'[r] = queued[r]
  /\ \/ avail'[r] = avail[r] /\ token'[r] = token[r]
     \/ avail[r] /\ ~avail'[r]

LEMMA StepInv1 ==
  ASSUME Inv1, NEW p \in Procs, ControlTypeOK', ControlOf(p)', ExclusionOf(p)',
         \A c \in Channels : owner'[c] = owner[c] \/ owner[c] \in {p, Null},
         \A r \in Procs \ {p} : Untaken(r)
  PROVE  Inv1'
<1>1. ASSUME NEW r \in Procs, r # p
      PROVE  ControlOf(r)' /\ ExclusionOf(r)'
  <2>1. ControlOf(r) /\ ExclusionOf(r)
    BY DEF Inv1, Control, Exclusion
  <2>2. ControlOf(r)'
    BY <1>1, <2>1 DEF Untaken, ControlOf, Alts, Alt
  <2>3. ExclusionOf(r)'
    <3>1. pc[r] \in Critical => Chan(r) \in Channels
      BY CriticalFacts
    <3>2. Chan(r)' = Chan(r)
      BY <1>1 DEF Untaken, Alts, Alt, Chan
    <3>3. r \notin {p, Null}
      BY <1>1, ScriptAssumption DEF ScriptAssumption
    <3> QED
      BY <1>1, <2>1, <3>1, <3>2, <3>3 DEF Untaken, ExclusionOf
  <2> QED
    BY <2>2, <2>3
<1> QED
  BY <1>1 DEF Inv1, Control, Exclusion

LEMMA BeginInv1 ==
  ASSUME Inv1, NEW p \in Procs, Begin(p)
  PROVE  Inv1'
<1> USE ChannelAssumption, ScriptAssumption
<1> PICK s \in Script[p][round[p] + 1] :
       /\ sel' = [sel EXCEPT ![p] = s]
       /\ suspended' = [suspended EXCEPT ![p] = s.wait]
       /\ avail' = [avail EXCEPT ![p] = s.wait]
  BY DEF Begin
<1>1. s \in SelectionsOfChannels
  <2>1. Script[p] \in Seq(SUBSET SelectionsOfChannels)
    BY DEF ScriptAssumption
  <2>2. round[p] + 1 \in 1..Len(Script[p])
    BY <2>1 DEF Begin, Inv1, ControlTypeOK
  <2> QED
    BY <2>1, <2>2
<1>2. s.wait \in BOOLEAN /\ Len(s.alts) \in 1..MaxAlts
  BY <1>1, SelectionFacts
<1>3. /\ token[p] = 0 /\ queued[p] = {}
      /\ pc' = [pc EXCEPT ![p] = "lock"] /\ at' = [at EXCEPT ![p] = 1]
      /\ round' = [round EXCEPT ![p] = @ + 1]
      /\ UNCHANGED <<linkVars, owner, token, queued>>
  BY DEF Begin, SubmitNext, chanVars, Inv1, Control, ControlOf
<1>4. ControlTypeOK'
  BY <1>1, <1>2, <1>3
     DEF Inv1, ControlTypeOK, LinksTypeOK, linkVars, PCs, Critical, ChannelAssumption
<1>5. ControlOf(p)'
  BY <1>1, <1>2, <1>3
     DEF Inv1, ControlTypeOK, ControlOf, Submitting, Critical, Alts, ChannelAssumption
<1>6. ExclusionOf(p)'
  BY <1>3 DEF Inv1, ControlTypeOK, ExclusionOf, Critical
<1>7. \A r \in Procs \ {p} : Untaken(r)
  BY <1>3 DEF Inv1, ControlTypeOK, Untaken
<1> QED
  BY <1>3, <1>4, <1>5, <1>6, <1>7, StepInv1

LEMMA LockInv1 ==
  ASSUME Inv1, NEW p \in Procs, Lock(p)
  PROVE  Inv1'
<1> USE ChannelAssumption, ScriptAssumption
<1>1. pc[p] \in Submitting /\ at[p] <= Len(Alts(p)) /\ Alt(p).kind # "nothing"
  BY DEF Lock, Submitting
<1>2. sel[p] \in SelectionsOfChannels /\ Chan(p) \in Channels
  BY <1>1, AltFacts
<1>3. /\ pc[p] = "lock" /\ at[p] <= Len(Alts(p)) /\ Alt(p).kind # "nothing"
      /\ owner[Chan(p)] = Null /\ owner' = [owner EXCEPT ![Chan(p)] = p]
      /\ \E x \in {"buffer", "scan"} :
           pc' = [pc EXCEPT ![p] = x] /\ (x = "buffer" => Alt(p).kind = "read")
      /\ UNCHANGED <<linkVars, round, sel, at, suspended, avail, token, queued>>
  BY DEF Lock
<1>4. ControlTypeOK'
  BY <1>2, <1>3
     DEF Inv1, ControlTypeOK, LinksTypeOK, linkVars, PCs, Critical, ChannelAssumption
<1>5. ControlOf(p)'
  BY <1>2, <1>3
     DEF Inv1, ControlTypeOK, Control, ControlOf, Submitting, Critical, Alts, Alt,
         ChannelAssumption
<1>6. ExclusionOf(p)'
  BY <1>2, <1>3 DEF Inv1, ControlTypeOK, ExclusionOf, Critical, Chan, Alt, Alts
<1>7. \A r \in Procs \ {p} : Untaken(r)
  BY <1>3 DEF Inv1, ControlTypeOK, Untaken
<1>8. \A c \in Channels : owner'[c] = owner[c] \/ owner[c] \in {p, Null}
  BY <1>3 DEF Inv1, ControlTypeOK
<1> QED
  BY <1>4, <1>5, <1>6, <1>7, <1>8, StepInv1

LEMMA RefillNoneInv1 ==
  ASSUME Inv1, NEW p \in Procs, RefillNone(p)
  PROVE  Inv1'
<1> USE ChannelAssumption, ScriptAssumption
<1>1. pc[p] \in Critical
  BY DEF RefillNone, Critical
<1>2. /\ at[p] \in 1..Len(Alts(p)) /\ at[p] \in 1..MaxAlts /\ Chan(p) \in Channels
      /\ owner[Chan(p)] = p /\ sel[p] \in SelectionsOfChannels
  BY <1>1, CriticalFacts
<1>3. /\ avail[p] = FALSE /\ token' = [token EXCEPT ![p] = at[p]]
      /\ pc' = [pc EXCEPT ![p] = "done"]
      /\ owner' = [owner EXCEPT ![Chan(p)] = Null]
      /\ UNCHANGED <<linkVars, round, sel, at, suspended, avail, queued>>
  BY <1>1, <1>2 DEF RefillNone, Finish, Unlock, Inv1, Control, ControlOf, ControlTypeOK
<1>4. ControlTypeOK'
  BY <1>1, <1>2, <1>3
     DEF Inv1, ControlTypeOK, LinksTypeOK, linkVars, PCs, Critical, ChannelAssumption
<1>5. ControlOf(p)'
  BY <1>1, <1>2, <1>3
     DEF Inv1, ControlTypeOK, Control, ControlOf, Submitting, Critical, Alts, Alt,
         ChannelAssumption
<1>6. ExclusionOf(p)'
  BY <1>1, <1>2, <1>3 DEF Inv1, ControlTypeOK, ExclusionOf, Critical
<1>7. \A r \in Procs \ {p} : Untaken(r)
  BY <1>1, <1>2, <1>3 DEF Inv1, ControlTypeOK, Untaken
<1>8. \A c \in Channels : owner'[c] = owner[c] \/ owner[c] \in {p, Null}
  BY <1>1, <1>2, <1>3 DEF Inv1, ControlTypeOK
<1> QED
  BY <1>4, <1>5, <1>6, <1>7, <1>8, StepInv1

LEMMA StoreInv1 ==
  ASSUME Inv1, NEW p \in Procs, Store(p)
  PROVE  Inv1'
<1> USE ChannelAssumption, ScriptAssumption
<1>1. pc[p] \in Critical
  BY DEF Store, Critical, NoPeer
<1>2. /\ at[p] \in 1..Len(Alts(p)) /\ at[p] \in 1..MaxAlts /\ Chan(p) \in Channels
      /\ owner[Chan(p)] = p /\ sel[p] \in SelectionsOfChannels
  BY <1>1, CriticalFacts
<1>3. /\ avail' = [avail EXCEPT ![p] = FALSE] /\ token' = [token EXCEPT ![p] = at[p]]
      /\ pc' = [pc EXCEPT ![p] = "done"]
      /\ owner' = [owner EXCEPT ![Chan(p)] = Null]
      /\ UNCHANGED <<linkVars, round, sel, at, suspended, queued>>
  BY <1>1, <1>2 DEF Store, Finish, Unlock
<1>4. ControlTypeOK'
  BY <1>1, <1>2, <1>3
     DEF Inv1, ControlTypeOK, LinksTypeOK, linkVars, PCs, Critical, ChannelAssumption
<1>5. ControlOf(p)'
  BY <1>1, <1>2, <1>3
     DEF Inv1, ControlTypeOK, Control, ControlOf, Submitting, Critical, Alts, Alt,
         ChannelAssumption
<1>6. ExclusionOf(p)'
  BY <1>1, <1>2, <1>3 DEF Inv1, ControlTypeOK, ExclusionOf, Critical
<1>7. \A r \in Procs \ {p} : Untaken(r)
  BY <1>1, <1>2, <1>3 DEF Inv1, ControlTypeOK, Untaken
<1>8. \A c \in Channels : owner'[c] = owner[c] \/ owner[c] \in {p, Null}
  BY <1>1, <1>2, <1>3 DEF Inv1, ControlTypeOK
<1> QED
  BY <1>4, <1>5, <1>6, <1>7, <1>8, StepInv1

LEMMA EndSubmitInv1 ==
  ASSUME Inv1, NEW p \in Procs, EndSubmit(p)
  PROVE  Inv1'
<1> USE ChannelAssumption, ScriptAssumption
<1>3. /\ pc[p] = "lock" /\ pc' = [pc EXCEPT ![p] = "done"]
      /\ UNCHANGED <<linkVars, round, sel, at, suspended, avail, token, queued, owner>>
  BY DEF EndSubmit, Finish, chanVars
<1>4. ControlTypeOK'
  BY <1>3
     DEF Inv1, ControlTypeOK, LinksTypeOK, linkVars, PCs, Critical, ChannelAssumption
<1>5. ControlOf(p)'
  BY <1>3
     DEF Inv1, ControlTypeOK, Control, ControlOf, Submitting, Critical, Alts, Alt,
         ChannelAssumption
<1>6. ExclusionOf(p)'
  BY <1>3 DEF Inv1, ControlTypeOK, ExclusionOf, Critical
<1>7. \A r \in Procs \ {p} : Untaken(r)
  BY <1>3 DEF Inv1, ControlTypeOK, Untaken
<1>8. \A c \in Channels : owner'[c] = owner[c] \/ owner[c] \in {p, Null}
  BY <1>3 DEF Inv1, ControlTypeOK
<1> QED
  BY <1>4, <1>5, <1>6, <1>7, <1>8, StepInv1

LEMMA ResumeInv1 ==
  ASSUME Inv1, NEW p \in Procs, Resume(p)
  PROVE  Inv1'
<1> USE ChannelAssumption, ScriptAssumption
<1>3. /\ pc[p] = "done" /\ suspended' = [suspended EXCEPT ![p] = FALSE]
      /\ UNCHANGED <<linkVars, round, sel, pc, at, avail, token, queued, owner>>
  BY DEF Resume, chanVars
<1>4. ControlTypeOK'
  BY <1>3
     DEF Inv1, ControlTypeOK, LinksTypeOK, linkVars, PCs, Critical, ChannelAssumption
<1>5. ControlOf(p)'
  BY <1>3
     DEF Inv1, ControlTypeOK, Control, ControlOf, Submitting, Critical, Alts, Alt,
         ChannelAssumption
<1>6. ExclusionOf(p)'
  BY <1>3 DEF Inv1, ControlTypeOK, ExclusionOf, Critical
<1>7. \A r \in Procs \ {p} : Untaken(r)
  BY <1>3 DEF Inv1, ControlTypeOK, Untaken
<1>8. \A c \in Channels : owner'[c] = owner[c] \/ owner[c] \in {p, Null}
  BY <1>3 DEF Inv1, ControlTypeOK
<1> QED
  BY <1>4, <1>5, <1>6, <1>7, <1>8, StepInv1

LEMMA PassOverInv1 ==
  ASSUME Inv1, NEW p \in Procs, PassOver(p)
  PROVE  Inv1'
<1> USE ChannelAssumption, ScriptAssumption
<1>1. pc[p] \in Critical
  BY DEF PassOver, Critical, Unserved, NoPeer
<1>2. /\ at[p] \in 1..Len(Alts(p)) /\ at[p] \in 1..MaxAlts /\ Chan(p) \in Channels
      /\ owner[Chan(p)] = p /\ sel[p] \in SelectionsOfChannels
  BY <1>1, CriticalFacts
<1>3. /\ ~sel[p].wait
      /\ pc' = [pc EXCEPT ![p] = "lock"] /\ at' = [at EXCEPT ![p] = at[p] + 1]
      /\ owner' = [owner EXCEPT ![Chan(p)] = Null]
      /\ UNCHANGED <<linkVars, round, sel, suspended, avail, token, queued>>
  BY <1>1, <1>2 DEF PassOver, SubmitNext, Unlock
<1>4. ControlTypeOK'
  BY <1>1, <1>2, <1>3
     DEF Inv1, ControlTypeOK, LinksTypeOK, linkVars, PCs, Critical, ChannelAssumption
<1>5. ControlOf(p)'
  BY <1>1, <1>2, <1>3
     DEF Inv1, ControlTypeOK, Control, ControlOf, Submitting, Critical, Alts, Alt,
         ChannelAssumption
<1>6. ExclusionOf(p)'
  BY <1>1, <1>2, <1>3 DEF Inv1, ControlTypeOK, ExclusionOf, Critical
<1>7. \A r \in Procs \ {p} : Untaken(r)
  BY <1>1, <1>2, <1>3 DEF Inv1, ControlTypeOK, Untaken
<1>8. \A c \in Channels : owner'[c] = owner[c] \/ owner[c] \in {p, Null}
  BY <1>1, <1>2, <1>3 DEF Inv1, ControlTypeOK
<1> QED
  BY <1>4, <1>5, <1>6, <1>7, <1>8, StepInv1

LEMMA TakeBufferedInv1 ==
  ASSUME Inv1, NEW p \in Procs, TakeBuffered(p)
  PROVE  Inv1'
<1> USE ChannelAssumption, ScriptAssumption
<1>1. pc[p] \in Critical
  BY DEF TakeBuffered, Critical
<1>2. /\ at[p] \in 1..Len(Alts(p)) /\ at[p] \in 1..MaxAlts /\ Chan(p) \in Channels
      /\ owner[Chan(p)] = p /\ sel[p] \in SelectionsOfChannels
  BY <1>1, CriticalFacts
<1>a. token[p] = 0
  <2>1. ControlOf(p) /\ pc[p] \in Submitting
    BY <1>1 DEF Inv1, Control, Submitting
  <2>2. CallerAvailable(p)
    BY DEF TakeBuffered
  <2> QED
    BY <2>1, <2>2 DEF ControlOf, CallerAvailable
<1>b. \/ /\ token' = [token EXCEPT ![p] = at[p]]
         /\ pc' = [pc EXCEPT ![p] = "done"]
         /\ owner' = [owner EXCEPT ![Chan(p)] = Null]
         /\ at' = at
      \/ token' = token /\ pc' = [pc EXCEPT ![p] = "refill"] /\ owner' = owner /\ at' = at
  <2>1. CASE BuffSize[Chan(p)] = Unbounded
    BY <2>1 DEF TakeBuffered, Finish, Unlock
  <2>2. CASE BuffSize[Chan(p)] # Unbounded
    BY <2>2 DEF TakeBuffered
  <2> QED
    BY <2>1, <2>2
<1>3. /\ avail' = [avail EXCEPT ![p] = FALSE]
      /\ pc[p] = "buffer" /\ token[p] = 0
      /\ \/ /\ token' = [token EXCEPT ![p] = at[p]]
            /\ pc' = [pc EXCEPT ![p] = "done"]
            /\ owner' = [owner EXCEPT ![Chan(p)] = Null]
         \/ token' = token /\ pc' = [pc EXCEPT ![p] = "refill"] /\ owner' = owner
      /\ UNCHANGED <<linkVars, round, sel, at, suspended, queued>>
  BY <1>a, <1>b DEF TakeBuffered
<1>4. ControlTypeOK'
  <2>1. /\ token' \in [Procs -> 0..MaxAlts] /\ pc' \in [Procs -> PCs]
        /\ owner' \in [Channels -> Procs \cup {Null}]
    <3>0. /\ token \in [Procs -> 0..MaxAlts] /\ pc \in [Procs -> PCs]
          /\ owner \in [Channels -> Procs \cup {Null}]
          /\ at[p] \in 0..MaxAlts /\ "done" \in PCs /\ "refill" \in PCs
      BY <1>2 DEF Inv1, ControlTypeOK, PCs, Critical, ChannelAssumption
    <3>1. CASE /\ token' = [token EXCEPT ![p] = at[p]]
               /\ pc' = [pc EXCEPT ![p] = "done"]
               /\ owner' = [owner EXCEPT ![Chan(p)] = Null]
      BY <1>2, <3>0, <3>1
    <3>2. CASE token' = token /\ pc' = [pc EXCEPT ![p] = "refill"] /\ owner' = owner
      BY <3>0, <3>2
    <3> QED
      BY <1>3, <3>1, <3>2
  <2> QED
    BY <1>3, <2>1 DEF Inv1, ControlTypeOK, LinksTypeOK, linkVars
<1>5. ControlOf(p)'
  BY <1>1, <1>2, <1>3
     DEF Inv1, ControlTypeOK, Control, ControlOf, Submitting, Critical, Alts, Alt,
         ChannelAssumption
<1>6. ExclusionOf(p)'
  BY <1>1, <1>2, <1>3 DEF Inv1, ControlTypeOK, ExclusionOf, Critical, Chan, Alt, Alts
<1>7. \A r \in Procs \ {p} : Untaken(r)
  BY <1>1, <1>2, <1>3 DEF Inv1, ControlTypeOK, Untaken
<1>8. \A c \in Channels : owner'[c] = owner[c] \/ owner[c] \in {p, Null}
  BY <1>1, <1>2, <1>3 DEF Inv1, ControlTypeOK
<1> QED
  BY <1>4, <1>5, <1>6, <1>7, <1>8, StepInv1

LEMMA LoseClaimInv1 ==
  ASSUME Inv1, NEW p \in Procs, LoseClaim(p)
  PROVE  Inv1'
<1> USE ChannelAssumption, ScriptAssumption
<1>1. pc[p] \in Critical
  BY DEF LoseClaim, Critical, NoPeer
<1>2. /\ at[p] \in 1..Len(Alts(p)) /\ at[p] \in 1..MaxAlts /\ Chan(p) \in Channels
      /\ owner[Chan(p)] = p /\ sel[p] \in SelectionsOfChannels
  BY <1>1, CriticalFacts
<1> PICK j \in (at[p] + 1)..(Len(Alts(p)) + 1) : SubmitNext(p, j)
  BY DEF LoseClaim, SkipOperation
<1>3. /\ j \in (at[p] + 1)..(Len(Alts(p)) + 1) /\ at' = [at EXCEPT ![p] = j]
      /\ Len(Alts(p)) \in 1..MaxAlts /\ sel[p].wait
      /\ pc' = [pc EXCEPT ![p] = "lock"]
      /\ owner' = [owner EXCEPT ![Chan(p)] = Null]
      /\ UNCHANGED <<linkVars, round, sel, suspended, avail, token, queued>>
  BY <1>2, SelectionFacts DEF LoseClaim, SubmitNext, Unlock, Alts
<1>4. ControlTypeOK'
  <2>1. ControlTypeOK /\ MaxAlts \in Nat /\ LinksTypeOK(Lists, Nodes)'
    BY <1>3 DEF Inv1, ControlTypeOK, LinksTypeOK, linkVars, ChannelAssumption
  <2>2. j \in 0..(MaxAlts + 1)
    BY <1>2, <1>3, <2>1
  <2>3. pc' \in [Procs -> PCs] /\ at' \in [Procs -> 0..(MaxAlts + 1)]
    BY <1>3, <2>1, <2>2 DEF ControlTypeOK, PCs
  <2>4. owner' \in [Channels -> Procs \cup {Null}]
    BY <1>2, <1>3, <2>1 DEF ControlTypeOK
  <2> QED
    BY <1>3, <2>1, <2>3, <2>4 DEF ControlTypeOK
<1>5. ControlOf(p)'
  BY <1>1, <1>2, <1>3
     DEF Inv1, ControlTypeOK, Control, ControlOf, Submitting, Critical, Alts, Alt,
         ChannelAssumption
<1>6. ExclusionOf(p)'
  BY <1>1, <1>2, <1>3 DEF Inv1, ControlTypeOK, ExclusionOf, Critical
<1>7. \A r \in Procs \ {p} : Untaken(r)
  BY <1>1, <1>2, <1>3 DEF Inv1, ControlTypeOK, Untaken
<1>8. \A c \in Channels : owner'[c] = owner[c] \/ owner[c] \in {p, Null}
  BY <1>1, <1>2, <1>3 DEF Inv1, ControlTypeOK
<1> QED
  BY <1>4, <1>5, <1>6, <1>7, <1>8, StepInv1

LEMMA TakeNothingInv1 ==
  ASSUME Inv1, NEW p \in Procs, TakeNothing(p)
  PROVE  Inv1'
<1> USE ChannelAssumption, ScriptAssumption
<1>1. pc[p] \in Submitting /\ at[p] <= Len(Alts(p)) /\ Alt(p).kind = "nothing"
  BY DEF TakeNothing, Submitting
<1>2. /\ sel[p] \in SelectionsOfChannels /\ ~sel[p].wait
      /\ at[p] \in 1..Len(Alts(p)) /\ at[p] \in 1..MaxAlts
  BY <1>1, AltFacts
<1>3. /\ ~sel[p].wait /\ avail[p] = FALSE /\ token' = [token EXCEPT ![p] = at[p]]
      /\ pc' = [pc EXCEPT ![p] = "done"]
      /\ UNCHANGED <<linkVars, round, sel, at, suspended, avail, queued, owner>>
  BY <1>2 DEF TakeNothing, Finish, chanVars, Inv1, ControlTypeOK, Control, ControlOf
<1>4. ControlTypeOK'
  BY <1>1, <1>2, <1>3
     DEF Inv1, ControlTypeOK, LinksTypeOK, linkVars, PCs, Critical, ChannelAssumption
<1>5. ControlOf(p)'
  BY <1>1, <1>2, <1>3
     DEF Inv1, ControlTypeOK, Control, ControlOf, Submitting, Critical, Alts, Alt,
         ChannelAssumption
<1>6. ExclusionOf(p)'
  BY <1>1, <1>2, <1>3 DEF Inv1, ControlTypeOK, ExclusionOf, Critical
<1>7. \A r \in Procs \ {p} : Untaken(r)
  BY <1>1, <1>2, <1>3 DEF Inv1, ControlTypeOK, Untaken
<1>8. \A c \in Channels : owner'[c] = owner[c] \/ owner[c] \in {p, Null}
  BY <1>1, <1>2, <1>3 DEF Inv1, ControlTypeOK
<1> QED
  BY <1>4, <1>5, <1>6, <1>7, <1>8, StepInv1

\* The first node of a list that is not empty.
LEMMA FirstFacts ==
  ASSUME Inv1, NEW l \in Lists, first[l] # Null
  PROVE  first[l] \in Nodes /\ first[l][1] \in Procs /\ first[l][2] \in 1..MaxAlts
<1>1. first[l] \in Nodes
  BY DEF Inv1, ControlTypeOK, LinksTypeOK
<1> QED
  BY <1>1 DEF Nodes

LEMMA DropClaimedInv1 ==
  ASSUME Inv1, NEW p \in Procs, DropClaimed(p)
  PROVE  Inv1'
<1> USE ChannelAssumption, ScriptAssumption
<1>1. pc[p] \in Critical
  BY DEF DropClaimed, BothContextsLocked, Critical
<1>2. /\ at[p] \in 1..Len(Alts(p)) /\ at[p] \in 1..MaxAlts /\ Chan(p) \in Channels
      /\ owner[Chan(p)] = p /\ sel[p] \in SelectionsOfChannels
      /\ PeerList(Alt(p)) \in Lists /\ ListOf(Alt(p)) \in Lists
      /\ Alt(p).kind \in {"read", "write"}
  BY <1>1, CriticalFacts
<1>3. LinksTypeOK(Lists, Nodes)'
  BY <1>2, FirstFacts, PopFirstLinksType
     DEF DropClaimed, BothContextsLocked, First, Inv1, ControlTypeOK
<1>4. UNCHANGED <<owner, round, sel, pc, at, suspended, avail, token, queued>>
  BY DEF DropClaimed, chanVars, procVars
<1>5. ControlTypeOK'
  BY <1>3, <1>4 DEF Inv1, ControlTypeOK
<1>6. ControlOf(p)' /\ ExclusionOf(p)'
  BY <1>4 DEF Inv1, Control, ControlOf, Exclusion, ExclusionOf, Alts, Alt, Chan
<1>7. \A r \in Procs \ {p} : Untaken(r)
  BY <1>4 DEF Untaken
<1> QED
  BY <1>4, <1>5, <1>6, <1>7, StepInv1

LEMMA RefillInv1 ==
  ASSUME Inv1, NEW p \in Procs, Refill(p)
  PROVE  Inv1'
<1> USE ChannelAssumption, ScriptAssumption
<1>1. pc[p] \in Critical
  BY DEF Refill, Critical
<1>2. /\ at[p] \in 1..Len(Alts(p)) /\ at[p] \in 1..MaxAlts /\ Chan(p) \in Channels
      /\ owner[Chan(p)] = p /\ sel[p] \in SelectionsOfChannels
      /\ PeerList(Alt(p)) \in Lists /\ ListOf(Alt(p)) \in Lists
      /\ Alt(p).kind \in {"read", "write"}
  BY <1>1, CriticalFacts
<1> DEFINE n == first[WriterList(Chan(p))]
           q == n[1]
<1>n. n \in Nodes /\ q \in Procs /\ n[2] \in 1..MaxAlts /\ WriterList(Chan(p)) \in Lists
  <2>1. WriterList(Chan(p)) \in Lists /\ n # Null
    BY <1>2 DEF Refill, WriterList, Lists
  <2> QED
    BY <2>1, FirstFacts
<1>l. LinksTypeOK(Lists, Nodes)'
  BY <1>n, PopFirstLinksType DEF Refill, Inv1, ControlTypeOK
<1>q. avail[q] /\ ~avail[p] /\ q # p
  BY DEF Refill, Inv1, Control, ControlOf
<1>3. /\ avail' = [avail EXCEPT ![q] = FALSE]
      /\ token' = [token EXCEPT ![q] = n[2], ![p] = at[p]]
      /\ pc' = [pc EXCEPT ![p] = "done"]
      /\ owner' = [owner EXCEPT ![Chan(p)] = Null]
      /\ UNCHANGED <<round, sel, at, suspended, queued>>
  BY DEF Refill, Finish, Unlock
<1> HIDE DEF n, q
<1>4. ControlTypeOK'
  <2>1. token' \in [Procs -> 0..MaxAlts]
    <3>1. token \in [Procs -> 0..MaxAlts] /\ n[2] \in 0..MaxAlts /\ at[p] \in 0..MaxAlts
      BY <1>2, <1>n DEF Inv1, ControlTypeOK, ChannelAssumption
    <3> QED
      BY <1>3, <3>1
  <2>2. pc' \in [Procs -> PCs]
    BY <1>3 DEF Inv1, ControlTypeOK, PCs
  <2>3. avail' \in [Procs -> BOOLEAN] /\ owner' \in [Channels -> Procs \cup {Null}]
    BY <1>3 DEF Inv1, ControlTypeOK
  <2> QED
    BY <1>l, <1>3, <2>1, <2>2, <2>3 DEF Inv1, ControlTypeOK
<1>5. ControlOf(p)'
  BY <1>1, <1>2, <1>n, <1>l, <1>q, <1>3
     DEF Inv1, ControlTypeOK, Control, ControlOf, Submitting, Critical, Alts, Alt,
         ChannelAssumption
<1>6. ExclusionOf(p)'
  BY <1>1, <1>2, <1>n, <1>l, <1>q, <1>3
     DEF Inv1, ControlTypeOK, ExclusionOf, Critical, Chan, Alt, Alts
<1>7. \A r \in Procs \ {p} : Untaken(r)
  BY <1>1, <1>2, <1>n, <1>l, <1>q, <1>3
     DEF Inv1, ControlTypeOK, Untaken
<1>8. \A c \in Channels : owner'[c] = owner[c] \/ owner[c] \in {p, Null}
  BY <1>1, <1>2, <1>n, <1>l, <1>q, <1>3 DEF Inv1, ControlTypeOK
<1> QED
  BY <1>4, <1>5, <1>6, <1>7, <1>8, StepInv1

LEMMA MeetPeerInv1 ==
  ASSUME Inv1, NEW p \in Procs, MeetPeer(p)
  PROVE  Inv1'
<1> USE ChannelAssumption, ScriptAssumption
<1>1. pc[p] \in Critical
  BY DEF MeetPeer, Critical
<1>2. /\ at[p] \in 1..Len(Alts(p)) /\ at[p] \in 1..MaxAlts /\ Chan(p) \in Channels
      /\ owner[Chan(p)] = p /\ sel[p] \in SelectionsOfChannels
      /\ PeerList(Alt(p)) \in Lists /\ ListOf(Alt(p)) \in Lists
      /\ Alt(p).kind \in {"read", "write"}
  BY <1>1, CriticalFacts
<1> DEFINE n == First(p)
           q == n[1]
<1>n. n \in Nodes /\ q \in Procs /\ n[2] \in 1..MaxAlts
  BY <1>2, FirstFacts DEF MeetPeer, BothContextsLocked, First
<1>l. LinksTypeOK(Lists, Nodes)'
  BY <1>n, <1>2, PopFirstLinksType DEF MeetPeer, First, Inv1, ControlTypeOK
<1>q. avail[q] /\ q # p
  BY DEF MeetPeer, BothContextsLocked, WithOwnContext, Inv1, Control, ControlOf
<1>3. /\ avail' = [avail EXCEPT ![p] = FALSE, ![q] = FALSE]
      /\ token' = [token EXCEPT ![q] = n[2], ![p] = at[p]]
      /\ pc' = [pc EXCEPT ![p] = "done"]
      /\ owner' = [owner EXCEPT ![Chan(p)] = Null]
      /\ UNCHANGED <<round, sel, at, suspended, queued>>
  BY DEF MeetPeer, BothClaimed, Finish, Unlock
<1> HIDE DEF n, q
<1>4. ControlTypeOK'
  <2>1. token' \in [Procs -> 0..MaxAlts]
    <3>1. token \in [Procs -> 0..MaxAlts] /\ n[2] \in 0..MaxAlts /\ at[p] \in 0..MaxAlts
      BY <1>2, <1>n DEF Inv1, ControlTypeOK, ChannelAssumption
    <3> QED
      BY <1>3, <3>1
  <2>2. pc' \in [Procs -> PCs]
    BY <1>3 DEF Inv1, ControlTypeOK, PCs
  <2>3. avail' \in [Procs -> BOOLEAN] /\ owner' \in [Channels -> Procs \cup {Null}]
    BY <1>3 DEF Inv1, ControlTypeOK
  <2> QED
    BY <1>l, <1>3, <2>1, <2>2, <2>3 DEF Inv1, ControlTypeOK
<1>5. ControlOf(p)'
  BY <1>1, <1>2, <1>n, <1>l, <1>q, <1>3
     DEF Inv1, ControlTypeOK, Control, ControlOf, Submitting, Critical, Alts, Alt,
         ChannelAssumption
<1>6. ExclusionOf(p)'
  BY <1>1, <1>2, <1>n, <1>l, <1>q, <1>3
     DEF Inv1, ControlTypeOK, ExclusionOf, Critical, Chan, Alt, Alts
<1>7. \A r \in Procs \ {p} : Untaken(r)
  BY <1>1, <1>2, <1>n, <1>l, <1>q, <1>3
     DEF Inv1, ControlTypeOK, Untaken
<1>8. \A c \in Channels : owner'[c] = owner[c] \/ owner[c] \in {p, Null}
  BY <1>1, <1>2, <1>n, <1>l, <1>q, <1>3 DEF Inv1, ControlTypeOK
<1> QED
  BY <1>4, <1>5, <1>6, <1>7, <1>8, StepInv1

LEMMA ParkInv1 ==
  ASSUME Inv1, NEW p \in Procs, Park(p)
  PROVE  Inv1'
<1> USE ChannelAssumption, ScriptAssumption
<1>1. pc[p] \in Critical
  BY DEF Park, Critical, Unserved, NoPeer
<1>2. /\ at[p] \in 1..Len(Alts(p)) /\ at[p] \in 1..MaxAlts /\ Chan(p) \in Channels
      /\ owner[Chan(p)] = p /\ sel[p] \in SelectionsOfChannels
      /\ PeerList(Alt(p)) \in Lists /\ ListOf(Alt(p)) \in Lists
      /\ Alt(p).kind \in {"read", "write"}
  BY <1>1, CriticalFacts
<1>l. LinksTypeOK(Lists, Nodes)'
  <2>1. <<p, at[p]>> \in Nodes
    BY <1>2 DEF Nodes
  <2> QED
    BY <1>2, <2>1, EnqueueLinksType DEF Park, Inv1, ControlTypeOK
<1>3. /\ sel[p].wait
      /\ queued' = [queued EXCEPT ![p] = @ \cup {at[p]}]
      /\ pc' = [pc EXCEPT ![p] = "lock"] /\ at' = [at EXCEPT ![p] = at[p] + 1]
      /\ owner' = [owner EXCEPT ![Chan(p)] = Null]
      /\ UNCHANGED <<round, sel, suspended, avail, token>>
  BY DEF Park, SubmitNext, Unlock
<1>4. ControlTypeOK'
  <2>1. ControlTypeOK /\ MaxAlts \in Nat
    BY DEF Inv1, ChannelAssumption
  <2>2. queued' \in [Procs -> SUBSET (1..MaxAlts)]
    BY <1>2, <1>3, <2>1 DEF ControlTypeOK
  <2>3. pc' \in [Procs -> PCs] /\ at' \in [Procs -> 0..(MaxAlts + 1)]
    BY <1>2, <1>3, <2>1 DEF ControlTypeOK, PCs
  <2>4. owner' \in [Channels -> Procs \cup {Null}]
    BY <1>2, <1>3, <2>1 DEF ControlTypeOK
  <2> QED
    BY <1>l, <1>3, <2>1, <2>2, <2>3, <2>4 DEF ControlTypeOK
<1>5. ControlOf(p)'
  BY <1>1, <1>2, <1>l, <1>3
     DEF Inv1, ControlTypeOK, Control, ControlOf, Submitting, Critical, Alts, Alt,
         ChannelAssumption
<1>6. ExclusionOf(p)'
  BY <1>1, <1>2, <1>l, <1>3 DEF Inv1, ControlTypeOK, ExclusionOf, Critical, Chan, Alt, Alts
<1>7. \A r \in Procs \ {p} : Untaken(r)
  BY <1>1, <1>2, <1>l, <1>3 DEF Inv1, ControlTypeOK, Untaken
<1>8. \A c \in Channels : owner'[c] = owner[c] \/ owner[c] \in {p, Null}
  BY <1>1, <1>2, <1>l, <1>3 DEF Inv1, ControlTypeOK
<1> QED
  BY <1>4, <1>5, <1>6, <1>7, <1>8, StepInv1

LEMMA ClearWaitInv1 ==
  ASSUME Inv1, NEW p \in Procs, ClearWait(p)
  PROVE  Inv1'
<1> USE ChannelAssumption, ScriptAssumption
<1> PICK i \in ToClear(p) :
       /\ Dequeue(ClearedThrough(Alts(p)[i]), <<p, i>>)
       /\ queued' = [queued EXCEPT ![p] = @ \ {i}]
  BY DEF ClearWait
<1>1. /\ i \in queued[p] /\ queued[p] \subseteq 1..Len(Alts(p))
      /\ queued[p] \subseteq 1..MaxAlts /\ sel[p].wait /\ pc[p] # "idle"
      /\ sel[p] \in SelectionsOfChannels
  BY DEF ToClear, Inv1, Control, ControlOf, ControlTypeOK
<1>2. Alts(p)[i].chan \in Channels
  BY <1>1, SelectionFacts DEF Alts
<1>l. LinksTypeOK(Lists, Nodes)'
  <2>1. <<p, i>> \in Nodes /\ ClearedThrough(Alts(p)[i]) \in Lists
    BY <1>1, <1>2 DEF Nodes, ClearedThrough, ReaderList, Lists
  <2> QED
    BY <2>1, DequeueLinksType DEF Inv1, ControlTypeOK
<1>3. /\ ~suspended[p] /\ token[p] # 0
      /\ UNCHANGED <<owner, round, sel, pc, at, suspended, avail, token>>
  BY DEF ClearWait, chanVars
<1>n. pc[p] \notin Critical
  BY <1>1, <1>3 DEF Inv1, Control, ControlOf, Submitting
<1>4. ControlTypeOK'
  BY <1>1, <1>l, <1>3
     DEF Inv1, ControlTypeOK, PCs, Critical, ChannelAssumption
<1>5. ControlOf(p)'
  BY <1>1, <1>l, <1>3
     DEF Inv1, ControlTypeOK, Control, ControlOf, Submitting, Critical, Alts, Alt,
         ChannelAssumption
<1>6. ExclusionOf(p)'
  BY <1>n, <1>3 DEF ExclusionOf
<1>7. \A r \in Procs \ {p} : Untaken(r)
  BY <1>1, <1>l, <1>3 DEF Inv1, ControlTypeOK, Untaken
<1>8. \A c \in Channels : owner'[c] = owner[c] \/ owner[c] \in {p, Null}
  BY <1>1, <1>l, <1>3 DEF Inv1, ControlTypeOK
<1> QED
  BY <1>4, <1>5, <1>6, <1>7, <1>8, StepInv1

LEMMA ReturnInv1 ==
  ASSUME Inv1, NEW p \in Procs, Return(p)
  PROVE  Inv1'
<1> USE ChannelAssumption, ScriptAssumption
<1>3. /\ ~suspended[p]
      /\ sel' = [sel EXCEPT ![p] = NoSelection]
      /\ pc' = [pc EXCEPT ![p] = "idle"]
      /\ at' = [at EXCEPT ![p] = 0]
      /\ avail' = [avail EXCEPT ![p] = FALSE]
      /\ token' = [token EXCEPT ![p] = 0]
      /\ queued' = [queued EXCEPT ![p] = {}]
      /\ UNCHANGED <<linkVars, owner, round, suspended>>
  BY DEF Return, chanVars
<1>4. ControlTypeOK'
  BY <1>3
     DEF Inv1, ControlTypeOK, PCs, Critical, ChannelAssumption, LinksTypeOK, linkVars
<1>5. ControlOf(p)'
  BY <1>3
     DEF Inv1, ControlTypeOK, Control, ControlOf, Submitting, Critical, Alts, Alt,
         ChannelAssumption
<1>6. ExclusionOf(p)'
  BY <1>3 DEF Inv1, ControlTypeOK, ExclusionOf, Critical, Chan, Alt, Alts
<1>7. \A r \in Procs \ {p} : Untaken(r)
  BY <1>3 DEF Inv1, ControlTypeOK, Untaken
<1>8. \A c \in Channels : owner'[c] = owner[c] \/ owner[c] \in {p, Null}
  BY <1>3 DEF Inv1, ControlTypeOK
<1> QED
  BY <1>4, <1>5, <1>6, <1>7, <1>8, StepInv1

LEMMA NextInv1 ==
  ASSUME Inv1, [Next]_vars
  PROVE  Inv1'
<1>1. CASE UNCHANGED vars
  BY <1>1 DEF vars, linkVars, chanVars, procVars, Inv1, ControlTypeOK, LinksTypeOK,
              Control, ControlOf, Exclusion, ExclusionOf, Alts, Alt, Chan
<1>2. ASSUME NEW p \in Procs, Begin(p) \/ Submit(p) \/ Complete(p)
      PROVE  Inv1'
  BY <1>2, BeginInv1, LockInv1, TakeBufferedInv1, RefillInv1, RefillNoneInv1,
     DropClaimedInv1, MeetPeerInv1, StoreInv1, LoseClaimInv1, ParkInv1, PassOverInv1,
     TakeNothingInv1, EndSubmitInv1, ResumeInv1, ClearWaitInv1, ReturnInv1
     DEF Submit, Complete
<1> QED
  BY <1>1, <1>2 DEF Next, Terminated

\* Wherever its submission stands, a coroutine is in a channel only with the
\* mutex, waits only in select(), and is posted nothing while its avail_flag is
\* set: for every script, also those that break the promises on waiting.
THEOREM Inv1Holds == Spec => []Inv1
<1>1. Init => Inv1
  BY InitInv1
<1>2. Inv1 /\ [Next]_vars => Inv1'
  BY NextInv1
<1> QED
  BY <1>1, <1>2, PTL DEF Spec

-----------------------------------------------------------------------------
(* A promise is fulfilled at most once.                                    *)

\* A coroutine that has its own flag set, or is in select_ready() and still
\* submits, was posted no token.
LEMMA NothingPosted ==
  ASSUME Inv1, NEW p \in Procs, pc[p] \in Submitting, CallerAvailable(p)
  PROVE  token[p] = 0
BY DEF Inv1, Control, ControlOf, CallerAvailable

LEMMA PostedOnce ==
  ASSUME Inv1, NEW p \in Procs, Begin(p) \/ Submit(p) \/ Complete(p),
         NEW r \in Procs, token[r] # 0
  PROVE  token'[r] \in {token[r], 0}
<1> USE DEF Inv1, ControlTypeOK
<1>1. CASE TakeBuffered(p)
  <2>1. token[p] = 0
    BY <1>1, NothingPosted DEF TakeBuffered, Submitting, Critical
  <2>2. token' = [token EXCEPT ![p] = at[p]] \/ token' = token
    BY <1>1 DEF TakeBuffered
  <2> QED
    BY <2>1, <2>2
<1>2. CASE Refill(p)
  <2> DEFINE n == first[WriterList(Chan(p))]
  <2>1. token[p] = 0 /\ avail[n[1]]
    BY <1>2 DEF Refill, Control, ControlOf
  <2>2. r # p /\ r # n[1]
    BY <2>1 DEF Control, ControlOf
  <2>3. token' = [token EXCEPT ![n[1]] = n[2], ![p] = at[p]]
    BY <1>2 DEF Refill
  <2> QED
    BY <2>2, <2>3
<1>3. CASE RefillNone(p)
  <2>1. token[p] = 0 /\ token' = [token EXCEPT ![p] = at[p]]
    BY <1>3 DEF RefillNone, Control, ControlOf
  <2> QED
    BY <2>1
<1>4. CASE MeetPeer(p)
  <2> DEFINE n == First(p)
  <2>1. token[p] = 0 /\ avail[n[1]]
    BY <1>4, NothingPosted DEF MeetPeer, Submitting, Critical
  <2>2. r # p /\ r # n[1]
    BY <2>1 DEF Control, ControlOf
  <2>3. token' = [token EXCEPT ![n[1]] = n[2], ![p] = at[p]]
    BY <1>4 DEF MeetPeer
  <2> QED
    BY <2>2, <2>3
<1>5. CASE Store(p)
  <2>1. token[p] = 0 /\ token' = [token EXCEPT ![p] = at[p]]
    BY <1>5, NothingPosted DEF Store, NoPeer, Submitting, Critical
  <2> QED
    BY <2>1
<1>6. CASE TakeNothing(p)
  <2>1. pc[p] \in Submitting /\ ~sel[p].wait
    BY <1>6, AltFacts DEF TakeNothing, Submitting
  <2>2. token[p] = 0 /\ token' = [token EXCEPT ![p] = at[p]]
    BY <1>6, <2>1, NothingPosted DEF TakeNothing, CallerAvailable
  <2> QED
    BY <2>2
<1>7. CASE Return(p)
  BY <1>7 DEF Return
<1>8. CASE \/ Begin(p) \/ Lock(p) \/ DropClaimed(p) \/ LoseClaim(p) \/ Park(p)
           \/ PassOver(p) \/ EndSubmit(p) \/ Resume(p) \/ ClearWait(p)
  BY <1>8 DEF Begin, Lock, DropClaimed, LoseClaim, Park, PassOver, EndSubmit, Resume,
              ClearWait, procVars
<1> QED
  BY <1>1, <1>2, <1>3, <1>4, <1>5, <1>6, <1>7, <1>8 DEF Submit, Complete

\* No promise is fulfilled twice, whatever the coroutines select among: the
\* assertion in async_promise::set_value holds for every script, any number of
\* coroutines and channels, and all buffer sizes.
THEOREM PromiseSetOnce == Spec => SetValueOnce
<1>1. Inv1 /\ [Next]_vars =>
        [\A p \in Procs : token[p] # 0 => token'[p] \in {token[p], 0}]_vars
  BY PostedOnce DEF Next, Terminated
<1> QED
  BY <1>1, Inv1Holds, PTL DEF Spec, SetValueOnce

-----------------------------------------------------------------------------
(* A mutex is held by who is inside its channel, and by nobody else.       *)

LEMMA StepHeld ==
  ASSUME Inv1, Held, NEW p \in Procs,
         \A r \in Procs \ {p} : pc'[r] = pc[r] /\ sel'[r] = sel[r] /\ at'[r] = at[r],
         \/ owner' = owner /\ pc[p] \notin Critical
         \/ /\ owner' = owner /\ sel'[p] = sel[p] /\ at'[p] = at[p]
            /\ pc[p] \in Critical => pc'[p] \in Critical
         \/ owner' = [owner EXCEPT ![Chan(p)] = Null]
  PROVE  Held'
<1> SUFFICES ASSUME NEW c \in Channels, NEW r \in Procs, owner'[c] = r
             PROVE  (pc[r] \in Critical /\ Chan(r) = c)'
  BY DEF Held, HeldOf
<1>1. owner[c] = r
  BY ScriptAssumption DEF Inv1, ControlTypeOK
<1>2. pc[r] \in Critical /\ Chan(r) = c
  BY <1>1 DEF Held, HeldOf
<1>3. CASE r # p
  BY <1>2, <1>3 DEF Chan, Alt
<1>4. CASE r = p
  <2>1. ~(owner' = [owner EXCEPT ![Chan(p)] = Null])
    BY <1>2, <1>4, ScriptAssumption DEF Inv1, ControlTypeOK
  <2> QED
    BY <1>2, <1>4, <2>1 DEF Chan, Alt
<1> QED
  BY <1>3, <1>4

LEMMA LockHeld ==
  ASSUME Inv1, Held, NEW p \in Procs, Lock(p)
  PROVE  Held'
<1>1. /\ pc[p] = "lock" /\ owner' = [owner EXCEPT ![Chan(p)] = p]
      /\ pc' = [pc EXCEPT ![p] = pc'[p]] /\ pc'[p] \in Critical /\ sel' = sel /\ at' = at
  BY DEF Lock, Critical, Inv1, ControlTypeOK
<1> SUFFICES ASSUME NEW c \in Channels, NEW r \in Procs, owner'[c] = r
             PROVE  (pc[r] \in Critical /\ Chan(r) = c)'
  BY DEF Held, HeldOf
<1>2. Chan(r)' = Chan(r)
  BY <1>1 DEF Chan, Alt
<1>3. CASE c = Chan(p)
  <2>1. r = p
    BY <1>1, <1>3 DEF Inv1, ControlTypeOK
  <2> QED
    BY <1>1, <1>2, <1>3, <2>1
<1>4. CASE c # Chan(p)
  <2>1. owner[c] = r
    BY <1>1, <1>4 DEF Inv1, ControlTypeOK
  <2>2. pc[r] \in Critical /\ Chan(r) = c
    BY <2>1 DEF Held, HeldOf
  <2>3. r # p
    BY <1>1, <2>2 DEF Critical
  <2> QED
    BY <1>1, <1>2, <2>2, <2>3 DEF Inv1, ControlTypeOK
<1> QED
  BY <1>3, <1>4

LEMMA NextHeld ==
  ASSUME Inv1, Held, [Next]_vars
  PROVE  Held'
<1> USE DEF Inv1, ControlTypeOK
<1>1. CASE UNCHANGED vars
  BY <1>1 DEF vars, chanVars, procVars, Held, HeldOf, Chan, Alt
<1>2. ASSUME NEW p \in Procs, Begin(p) \/ Submit(p) \/ Complete(p)
      PROVE  Held'
  <2>1. CASE Begin(p) \/ TakeNothing(p) \/ EndSubmit(p)
    BY <2>1, StepHeld DEF Begin, TakeNothing, EndSubmit, Finish, SubmitNext, chanVars, Critical
  <2>2. CASE Lock(p)
    BY <2>2, LockHeld
  <2>3. CASE TakeBuffered(p)
    <3>1. pc[p] \in Critical
      BY <2>3 DEF TakeBuffered, Critical
    <3>2. CASE BuffSize[Chan(p)] = Unbounded
      BY <2>3, <3>2, StepHeld DEF TakeBuffered, Finish, Unlock
    <3>3. CASE BuffSize[Chan(p)] # Unbounded
      BY <2>3, <3>3, StepHeld DEF TakeBuffered, Critical
    <3> QED
      BY <3>2, <3>3
  <2>4. CASE Refill(p) \/ RefillNone(p)
    BY <2>4, StepHeld DEF Refill, RefillNone, Finish, Unlock
  <2>5. CASE MeetPeer(p) \/ Store(p)
    BY <2>5, StepHeld DEF MeetPeer, Store, Finish, Unlock
  <2>6. CASE LoseClaim(p)
    BY <2>6, StepHeld DEF LoseClaim, SkipOperation, SubmitNext, Unlock
  <2>7. CASE Park(p) \/ PassOver(p)
    BY <2>7, StepHeld DEF Park, PassOver, SubmitNext, Unlock
  <2>8. CASE DropClaimed(p) \/ Resume(p) \/ ClearWait(p)
    BY <2>8, StepHeld DEF DropClaimed, Resume, ClearWait, chanVars, procVars
  <2>9. CASE Return(p)
    <3>1. pc[p] \notin Critical
      BY <2>9 DEF Return, Control, ControlOf, Submitting
    <3> QED
      BY <2>9, <3>1, StepHeld DEF Return, chanVars
  <2> QED
    BY <1>2, <2>1, <2>2, <2>3, <2>4, <2>5, <2>6, <2>7, <2>8, <2>9 DEF Submit, Complete
<1> QED
  BY <1>1, <1>2 DEF Next, Terminated

\* No mutex of a channel is left locked: whichever way a submission leaves the
\* channel, for every script.
THEOREM HeldHolds == Spec => []Held
<1>1. Init => Held
  BY ScriptAssumption DEF Init, Held, HeldOf
<1>2. Inv1 /\ Held /\ [Next]_vars => Held'
  BY NextHeld
<1> QED
  BY <1>1, <1>2, Inv1Holds, PTL DEF Spec

-----------------------------------------------------------------------------
(* Orderly scripts: IInv is inductive.  First what the steps do to slots,  *)
(* buffers and results, then what they do to the lists.                    *)

LEMMA IInvFacts ==
  ASSUME IInv
  PROVE  /\ Inv1 /\ ControlTypeOK /\ DataTypeOK
         /\ \A p \in Procs : ControlOf(p) /\ ExclusionOf(p) /\ SettledOf(p)
BY DEF IInv, TypeOK, Inv1, Control, Exclusion, Settled

\* The operations of a selection are reads or writes as a whole.
LEMMA WritesFacts ==
  ASSUME NEW s \in SelectionsOfChannels, NEW i \in 1..Len(s.alts)
  PROVE  WritesInOp(s, s.alts[i].op) <=> s.alts[i].kind = "write"
<1>1. \A j \in 1..Len(s.alts) : s.alts[j].op = s.alts[i].op => s.alts[j].kind = s.alts[i].kind
  BY DEF SelectionsOfChannels, OpsInOrder
<1> QED
  BY <1>1 DEF WritesInOp

\* A live node is that of an alternative that was submitted and can wait.
LEMMA LiveFacts ==
  ASSUME IInv, NEW n \in Live
  PROVE  /\ n \in Nodes /\ n[1] \in Procs /\ n[2] \in queued[n[1]]
         /\ n[2] \in 1..MaxAlts /\ n[2] \in 1..Len(Alts(n[1])) /\ n = <<n[1], n[2]>>
         /\ sel[n[1]] \in SelectionsOfChannels /\ sel[n[1]].wait
         /\ pc[n[1]] # "idle"
         /\ pc[n[1]] \in Submitting => n[2] < at[n[1]]
         /\ AltOf(n) = Alts(n[1])[n[2]]
         /\ AltOf(n).op \in Ops
         /\ AltOf(n).kind \in {"read", "write"} /\ AltOf(n).chan \in Channels
         /\ ListOf(AltOf(n)) \in Lists
<1>1. /\ n \in Nodes /\ n[1] \in Procs /\ n[2] \in queued[n[1]]
      /\ n[2] \in 1..MaxAlts /\ n = <<n[1], n[2]>>
  BY DEF Live, Nodes
<1>2. ControlOf(n[1])
  BY <1>1, IInvFacts
<1>3. /\ n[2] \in 1..Len(Alts(n[1])) /\ pc[n[1]] # "idle"
      /\ sel[n[1]] \in SelectionsOfChannels /\ sel[n[1]].wait
      /\ pc[n[1]] \in Submitting => n[2] < at[n[1]]
  BY <1>1, <1>2 DEF ControlOf
<1>4. AltOf(n) = Alts(n[1])[n[2]]
  BY DEF AltOf, Alts
<1>5. /\ AltOf(n).op \in Ops
      /\ AltOf(n).kind \in {"read", "write"} /\ AltOf(n).chan \in Channels
  BY <1>3, SelectionFacts DEF AltOf, Alts
<1>6. ListOf(AltOf(n)) \in Lists
  BY <1>5 DEF ListOf, ReaderList, WriterList, Lists
<1> QED
  BY <1>1, <1>3, <1>4, <1>5, <1>6

\* The first node of a list is one that waits there.
LEMMA FirstLive ==
  ASSUME IInv, NEW l \in Lists, first[l] # Null
  PROVE  first[l] \in Live /\ ListOf(AltOf(first[l])) = l
<1> PICK q \in [Lists -> Seq(Nodes)] : Chains(Lists, Nodes, q) /\ Placed(q)
  BY DEF IInv, Queues
<1>1. Within(first[l], q[l])
  BY FirstWithin
<1>2. first[l] \in Nodes
  BY IInvFacts DEF ControlTypeOK, LinksTypeOK
<1> QED
  BY <1>1, <1>2 DEF Placed

-----------------------------------------------------------------------------
(* Settled: coroutines that a step leaves alone, or matches.               *)

\* Nothing that Settled speaks of has changed for r.
LEMMA Bystander ==
  ASSUME NEW r \in Procs, SettledOf(r),
         pc'[r] = pc[r], sel'[r] = sel[r], at'[r] = at[r], round'[r] = round[r],
         token'[r] = token[r], avail'[r] = avail[r], slot'[r] = slot[r],
         pc[r] = "refill" => buffer'[Chan(r)] = buffer[Chan(r)]
  PROVE  SettledOf(r)'
<1>1. /\ Alts(r)' = Alts(r) /\ Chan(r)' = Chan(r) /\ Served(r)' = Served(r)
  BY DEF Alts, Alt, Chan, Served
<1>2. \A k \in Ops : Untouched(r, k)' <=> Untouched(r, k)
  BY DEF Untouched
<1>3. \A k \in Ops : Moved(r, k)' <=> Moved(r, k)
  BY <1>1 DEF Moved
<1>4. RoomOf(r)'
  BY <1>1 DEF SettledOf, RoomOf
<1>5. ClaimableOf(r)' /\ Orderly(sel[r])'
  BY <1>1 DEF SettledOf, ClaimableOf
<1>6. MovedOnce(r)'
  BY <1>2, <1>3 DEF SettledOf, MovedOnce
<1> QED
  BY <1>4, <1>5, <1>6 DEF SettledOf

\* The submission of p goes on, or ends, without p being served by the step.
LEMMA Unserving ==
  ASSUME NEW p \in Procs, SettledOf(p), pc[p] # "refill", pc'[p] # "refill",
         sel'[p] = sel[p], round'[p] = round[p], token'[p] = token[p],
         avail'[p] = avail[p], slot'[p] = slot[p],
         pc'[p] \in Submitting => pc[p] \in Submitting /\ at'[p] >= at[p],
         at[p] \in Nat, at'[p] \in Nat, token[p] \in Nat
  PROVE  SettledOf(p)'
<1>1. /\ Alts(p)' = Alts(p) /\ Served(p)' = Served(p)
  BY DEF Alts, Served
<1>2. \A k \in Ops : Untouched(p, k)' <=> Untouched(p, k)
  BY DEF Untouched
<1>3. \A k \in Ops : Moved(p, k)' <=> Moved(p, k)
  BY <1>1 DEF Moved
<1>4. RoomOf(p)'
  BY <1>1 DEF SettledOf, RoomOf
<1>5. ClaimableOf(p)' /\ Orderly(sel[p])'
  BY <1>1 DEF SettledOf, ClaimableOf
<1>6. MovedOnce(p)'
  BY <1>2, <1>3 DEF SettledOf, MovedOnce
<1> QED
  BY <1>4, <1>5, <1>6 DEF SettledOf

\* What it takes to stand for operation k of a selection that was not served.
Fresh(v, a) == IF a.kind = "write" THEN v = Null ELSE v \in Values

\* Alternative i of r takes effect: its operation gives its value away or gets
\* one, and no other operation of the selection does.
LEMMA ServedNow ==
  ASSUME NEW r \in Procs, SettledOf(r), Served(r) = 0, slot[r] \in [Ops -> Values \cup {Null}],
         sel[r] \in SelectionsOfChannels, round[r] \in Nat,
         NEW i \in 1..Len(Alts(r)), Alts(r)[i].kind # "nothing",
         NEW v, Fresh(v, Alts(r)[i]),
         sel'[r] = sel[r], round'[r] = round[r], Served(r)' = i,
         slot'[r] = [slot[r] EXCEPT ![Alts(r)[i].op] = v]
  PROVE  MovedOnce(r)'
<1>0. Alts(r)[i].op \in Ops
  BY SelectionFacts DEF Alts
<1> PICK k \in Ops : k = Alts(r)[i].op
  BY <1>0
<1>1. k \in Ops /\ Alts(r)' = Alts(r) /\ i # 0
  BY DEF Alts
<1>2. \A o \in Ops : Untouched(r, o)
  BY DEF SettledOf, MovedOnce, Moved
<1>3. \A o \in Ops : Moved(r, o)' <=> o = k
  BY <1>1 DEF Moved
<1>4. ASSUME NEW o \in Ops, o # k
      PROVE  Untouched(r, o)'
  BY <1>2, <1>4 DEF Untouched
<1>5. ~Untouched(r, k)'
  <2>1. WritesInOp(sel[r], k) <=> Alts(r)[i].kind = "write"
    BY WritesFacts DEF Alts
  <2>2. slot'[r][k] = v
    BY <1>1
  <2>3. <<r, round[r], k>> # Null /\ Null \notin Values
    BY <1>1, ScriptAssumption DEF ScriptAssumption, Values
  <2> QED
    BY <2>1, <2>2, <2>3 DEF Untouched, Fresh
<1> QED
  BY <1>3, <1>4, <1>5 DEF MovedOnce

\* A coroutine that waits is matched through its node n.
LEMMA Matched ==
  ASSUME IInv, NEW n \in Live, avail[n[1]],
         pc'[n[1]] = pc[n[1]], sel'[n[1]] = sel[n[1]], at'[n[1]] = at[n[1]],
         round'[n[1]] = round[n[1]], token'[n[1]] = n[2],
         NEW v, Fresh(v, AltOf(n)),
         slot'[n[1]] = [slot[n[1]] EXCEPT ![AltOf(n).op] = v]
  PROVE  SettledOf(n[1])'
<1> DEFINE r == n[1]
<1>1. /\ r \in Procs /\ n[2] \in 1..Len(Alts(r)) /\ AltOf(n) = Alts(r)[n[2]]
      /\ sel[r] \in SelectionsOfChannels /\ AltOf(n).kind \in {"read", "write"}
      /\ pc[r] \in Submitting => n[2] < at[r]
  BY LiveFacts
<1>2. ControlOf(r) /\ SettledOf(r) /\ ControlTypeOK /\ DataTypeOK
  BY <1>1, IInvFacts
<1> HIDE DEF r
<1>3. pc[r] # "refill" /\ token[r] = 0 /\ Served(r) = 0
  BY <1>2 DEF ControlOf, Served, r
<1>4. Served(r)' = n[2] /\ n[2] # 0 /\ Alts(r)' = Alts(r)
  BY <1>1 DEF Served, Alts, r
<1>5. MovedOnce(r)'
  <2>1. /\ slot[r] \in [Ops -> Values \cup {Null}] /\ round[r] \in Nat
    BY <1>1, <1>2 DEF ControlTypeOK, DataTypeOK
  <2>2. /\ sel'[r] = sel[r] /\ round'[r] = round[r]
        /\ slot'[r] = [slot[r] EXCEPT ![Alts(r)[n[2]].op] = v]
        /\ Fresh(v, Alts(r)[n[2]])
    BY <1>1 DEF r
  <2> QED
    BY <1>1, <1>2, <1>3, <1>4, <2>1, <2>2, ServedNow
<1>6. RoomOf(r)'
  <2>1. token'[r] = n[2] /\ pc'[r] = pc[r] /\ at'[r] = at[r]
    BY DEF r
  <2> QED
    BY <1>1, <1>3, <1>4, <2>1 DEF RoomOf
<1>7. ClaimableOf(r)' /\ Orderly(sel[r])'
  <2>1. sel'[r] = sel[r]
    BY DEF r
  <2> QED
    BY <1>2, <1>4, <2>1 DEF ClaimableOf, SettledOf
<1> QED
  BY <1>5, <1>6, <1>7 DEF SettledOf, r

\* The submission of p is over: alternative at[p] takes effect now.
LEMMA ServedSelf ==
  ASSUME IInv, NEW p \in Procs, pc[p] \in {"buffer", "scan"}, CallerAvailable(p),
         NEW v, Fresh(v, Alt(p)), slot'[p] = [slot[p] EXCEPT ![Alt(p).op] = v],
         sel'[p] = sel[p], round'[p] = round[p], at'[p] = at[p],
         \/ pc'[p] = "done" /\ token'[p] = at[p]
         \/ /\ pc'[p] = "refill" /\ token'[p] = 0
            /\ BuffSize[Chan(p)] # Unbounded
            /\ Len(buffer'[Chan(p)]) < BuffSize[Chan(p)]
  PROVE  SettledOf(p)'
<1>1. /\ sel[p] \in SelectionsOfChannels /\ at[p] \in 1..Len(Alts(p))
      /\ Alt(p).kind # "nothing"
  BY IInvFacts, CriticalFacts DEF Critical
<1>2. /\ SettledOf(p) /\ round[p] \in Nat /\ slot[p] \in [Ops -> Values \cup {Null}]
  BY IInvFacts DEF ControlTypeOK, DataTypeOK
<1>3. token[p] = 0 /\ Served(p) = 0
  BY IInvFacts, NothingPosted DEF Submitting, Critical, Served
<1>4. Alt(p) = Alts(p)[at[p]] /\ Alts(p)' = Alts(p) /\ Chan(p)' = Chan(p) /\ at[p] # 0
  BY <1>1 DEF Alt, Alts, Chan
<1>5. Served(p)' = at[p]
  BY <1>4 DEF Served
<1>6. MovedOnce(p)'
  <2> PICK i : i = at[p]
    OBVIOUS
  <2>1. /\ i \in 1..Len(Alts(p)) /\ Alts(p)[i].kind # "nothing" /\ Fresh(v, Alts(p)[i])
        /\ Served(p)' = i /\ slot'[p] = [slot[p] EXCEPT ![Alts(p)[i].op] = v]
    BY <1>1, <1>4, <1>5
  <2> QED
    BY <1>1, <1>2, <1>3, <2>1, ServedNow
<1>7. RoomOf(p)'
  BY <1>1, <1>4 DEF RoomOf, Submitting, Critical
<1>8. ClaimableOf(p)' /\ Orderly(sel[p])'
  BY <1>2, <1>4, <1>5 DEF ClaimableOf, SettledOf
<1> QED
  BY <1>6, <1>7, <1>8 DEF SettledOf

\* The token of a read that has taken from the buffer is posted.
LEMMA Confirmed ==
  ASSUME IInv, NEW p \in Procs, pc[p] = "refill", pc'[p] = "done", token'[p] = at[p],
         sel'[p] = sel[p], round'[p] = round[p], at'[p] = at[p], slot'[p] = slot[p]
  PROVE  SettledOf(p)'
<1>1. at[p] \in 1..Len(Alts(p)) /\ SettledOf(p) /\ ControlOf(p)
  BY IInvFacts, CriticalFacts DEF Critical
<1>2. token[p] = 0 /\ at[p] # 0
  BY <1>1 DEF ControlOf
<1>3. /\ Alts(p)' = Alts(p) /\ Served(p)' = at[p] /\ Served(p) = at[p]
  BY <1>2 DEF Alts, Served
<1>4. \A k \in Ops : Untouched(p, k)' <=> Untouched(p, k)
  BY DEF Untouched
<1>5. \A k \in Ops : Moved(p, k)' <=> Moved(p, k)
  BY <1>3 DEF Moved
<1>6. MovedOnce(p)'
  BY <1>1, <1>4, <1>5 DEF SettledOf, MovedOnce
<1>7. RoomOf(p)'
  BY <1>1, <1>3 DEF RoomOf, Submitting, Critical
<1>8. ClaimableOf(p)' /\ Orderly(sel[p])'
  BY <1>1, <1>2, <1>3 DEF ClaimableOf, SettledOf
<1> QED
  BY <1>6, <1>7, <1>8 DEF SettledOf

\* What Settled says of r is about variables that have not changed for r.
Same(r) ==
  /\ pc'[r] = pc[r] /\ sel'[r] = sel[r] /\ at'[r] = at[r] /\ round'[r] = round[r]
  /\ token'[r] = token[r] /\ avail'[r] = avail[r] /\ slot'[r] = slot[r]

\* Only the owner of a channel's mutex changes the buffer.
LEMMA BystanderBuffer ==
  ASSUME IInv, NEW p \in Procs, pc[p] \in Critical,
         NEW r \in Procs \ {p}, Same(r),
         \/ UNCHANGED buffer
         \/ \E b : buffer' = [buffer EXCEPT ![Chan(p)] = b]
  PROVE  SettledOf(r)'
<1>1. pc[r] = "refill" => buffer'[Chan(r)] = buffer[Chan(r)]
  <2> SUFFICES ASSUME pc[r] = "refill" PROVE buffer'[Chan(r)] = buffer[Chan(r)]
    OBVIOUS
  <2>1. owner[Chan(p)] = p /\ owner[Chan(r)] = r /\ Chan(r) \in Channels
    BY IInvFacts, CriticalFacts DEF Critical
  <2>2. buffer \in [Channels -> Seq(Values)]
    BY IInvFacts DEF DataTypeOK
  <2> QED
    BY <2>1, <2>2
<1>2. SettledOf(r)
  BY IInvFacts
<1> QED
  BY <1>1, <1>2, Bystander DEF Same

LEMMA BystanderOnly ==
  ASSUME IInv, NEW p \in Procs, SettledOf(p)', UNCHANGED buffer,
         \A r \in Procs \ {p} : Same(r)
  PROVE  Settled'
<1>1. \A r \in Procs \ {p} : SettledOf(r)'
  BY IInvFacts, Bystander DEF Same
<1> QED
  BY <1>1 DEF Settled

-----------------------------------------------------------------------------
(* Settled is preserved: one lemma per action.                             *)

LEMMA BeginSettled ==
  ASSUME IInv, OrderlyScript, NEW p \in Procs, Begin(p)
  PROVE  Settled'
<1> PICK s \in Script[p][round[p] + 1] :
       /\ sel' = [sel EXCEPT ![p] = s]
       /\ slot' = [slot EXCEPT ![p] =
                     [k \in Ops |-> IF WritesInOp(s, k)
                                    THEN <<p, round[p] + 1, k>> ELSE Null]]
       /\ suspended' = [suspended EXCEPT ![p] = s.wait]
       /\ avail' = [avail EXCEPT ![p] = s.wait]
  BY DEF Begin
<1>1. /\ ControlTypeOK /\ DataTypeOK /\ ControlOf(p)
      /\ pc[p] = "idle" /\ token[p] = 0
      /\ pc' = [pc EXCEPT ![p] = "lock"] /\ at' = [at EXCEPT ![p] = 1]
      /\ round' = [round EXCEPT ![p] = round[p] + 1]
      /\ UNCHANGED <<token, buffer>>
  BY IInvFacts DEF Begin, SubmitNext, ControlOf, chanVars
<1>2. Orderly(s)
  <2>1. Script[p] \in Seq(SUBSET SelectionsOfChannels)
    BY ScriptAssumption DEF ScriptAssumption
  <2>2. round[p] + 1 \in 1..Len(Script[p])
    BY <1>1, <2>1 DEF Begin, ControlTypeOK
  <2> QED
    BY <2>2 DEF OrderlyScript
<1>3. sel'[p] = s /\ avail'[p] = s.wait /\ pc'[p] = "lock" /\ at'[p] = 1 /\ token'[p] = 0
      /\ round'[p] = round[p] + 1
      /\ slot'[p] = [k \in Ops |-> IF WritesInOp(s, k)
                                   THEN <<p, round[p] + 1, k>> ELSE Null]
  BY <1>1 DEF ControlTypeOK, DataTypeOK
<1>4. Served(p)' = 0
  BY <1>3 DEF Served
<1>5. MovedOnce(p)'
  <2>1. \A k \in Ops : Untouched(p, k)'
    BY <1>3 DEF Untouched
  <2> QED
    BY <1>4, <2>1 DEF MovedOnce, Moved
<1>6. SettledOf(p)'
  BY <1>2, <1>3, <1>4, <1>5 DEF SettledOf, RoomOf, ClaimableOf
<1>7. \A r \in Procs \ {p} : Same(r)
  BY <1>1 DEF Same, ControlTypeOK, DataTypeOK
<1> QED
  BY <1>1, <1>6, <1>7, BystanderOnly

LEMMA RefillNoneSettled ==
  ASSUME IInv, NEW p \in Procs, RefillNone(p)
  PROVE  Settled'
<1>1. /\ ControlTypeOK
      /\ pc[p] = "refill" /\ pc' = [pc EXCEPT ![p] = "done"]
      /\ token' = [token EXCEPT ![p] = at[p]]
      /\ UNCHANGED <<buffer, round, sel, at, avail, slot>>
  BY IInvFacts DEF RefillNone, Finish
<1>2. SettledOf(p)'
  BY <1>1, Confirmed DEF ControlTypeOK
<1>3. \A r \in Procs \ {p} : Same(r)
  BY <1>1 DEF Same, ControlTypeOK
<1> QED
  BY <1>1, <1>2, <1>3, BystanderOnly

LEMMA TakeNothingSettled ==
  ASSUME IInv, NEW p \in Procs, TakeNothing(p)
  PROVE  Settled'
<1>1. /\ ControlTypeOK /\ SettledOf(p)
      /\ pc[p] = "lock" /\ pc' = [pc EXCEPT ![p] = "done"]
      /\ at[p] <= Len(Alts(p)) /\ Alt(p).kind = "nothing"
      /\ token' = [token EXCEPT ![p] = at[p]]
      /\ UNCHANGED <<buffer, round, sel, at, avail, slot>>
  BY IInvFacts DEF TakeNothing, Finish, chanVars
<1>2. ~sel[p].wait /\ at[p] \in 1..Len(Alts(p))
  BY <1>1, IInvFacts, AltFacts DEF Submitting
<1>3. token[p] = 0
  BY <1>1, <1>2, IInvFacts, NothingPosted DEF CallerAvailable, Submitting
<1>4. pc'[p] = "done" /\ token'[p] = at[p] /\ at[p] # 0
  BY <1>1, <1>2 DEF ControlTypeOK
<1>5. Served(p) = 0 /\ Served(p)' = at[p] /\ Alts(p)' = Alts(p) /\ Alts(p)[at[p]].kind = "nothing"
  BY <1>1, <1>3, <1>4 DEF Served, Alts, Alt
<1>6. MovedOnce(p)'
  <2>1. \A k \in Ops : Untouched(p, k)' <=> Untouched(p, k)
    BY <1>1 DEF Untouched
  <2> QED
    BY <1>1, <1>5, <2>1 DEF SettledOf, MovedOnce, Moved
<1>7. SettledOf(p)'
  BY <1>1, <1>2, <1>4, <1>5, <1>6
     DEF SettledOf, RoomOf, ClaimableOf, Submitting, Critical
<1>8. \A r \in Procs \ {p} : Same(r)
  BY <1>1 DEF Same, ControlTypeOK
<1> QED
  BY <1>1, <1>7, <1>8, BystanderOnly

LEMMA ReturnSettled ==
  ASSUME IInv, NEW p \in Procs, Return(p)
  PROVE  Settled'
<1>1. /\ ControlTypeOK /\ DataTypeOK
      /\ sel' = [sel EXCEPT ![p] = NoSelection]
      /\ pc' = [pc EXCEPT ![p] = "idle"] /\ at' = [at EXCEPT ![p] = 0]
      /\ avail' = [avail EXCEPT ![p] = FALSE] /\ token' = [token EXCEPT ![p] = 0]
      /\ slot' = [slot EXCEPT ![p] = EmptySlots]
      /\ UNCHANGED <<buffer, round>>
  BY IInvFacts DEF Return, chanVars
<1>2. /\ sel'[p] = NoSelection /\ pc'[p] = "idle" /\ token'[p] = 0
      /\ slot'[p] = EmptySlots
  BY <1>1 DEF ControlTypeOK, DataTypeOK
<1>3. Served(p)' = 0
  BY <1>2 DEF Served
<1>4. MovedOnce(p)'
  <2>1. \A k \in Ops : ~WritesInOp(NoSelection, k)
    BY DEF WritesInOp, NoSelection
  <2>2. \A k \in Ops : Untouched(p, k)'
    BY <1>2, <2>1 DEF Untouched, EmptySlots
  <2> QED
    BY <1>3, <2>2 DEF MovedOnce, Moved
<1>5. SettledOf(p)'
  BY <1>2, <1>4 DEF SettledOf, RoomOf, ClaimableOf, Submitting, Critical, Orderly, NoSelection
<1>6. \A r \in Procs \ {p} : Same(r)
  BY <1>1 DEF Same, ControlTypeOK, DataTypeOK
<1> QED
  BY <1>1, <1>5, <1>6, BystanderOnly

LEMMA LockSettled ==
  ASSUME IInv, NEW p \in Procs, Lock(p)
  PROVE  Settled'
<1>1. /\ ControlTypeOK /\ SettledOf(p) /\ pc[p] = "lock"
      /\ pc'[p] \in {"buffer", "scan"} /\ \A r \in Procs \ {p} : pc'[r] = pc[r]
      /\ UNCHANGED <<buffer, round, sel, at, avail, token, slot>>
  BY IInvFacts DEF Lock, ControlTypeOK
<1>2. SettledOf(p)'
  BY <1>1, Unserving DEF ControlTypeOK, Submitting, Critical
<1>3. \A r \in Procs \ {p} : Same(r)
  BY <1>1 DEF Same
<1> QED
  BY <1>1, <1>2, <1>3, BystanderOnly

LEMMA LoseClaimSettled ==
  ASSUME IInv, NEW p \in Procs, LoseClaim(p)
  PROVE  Settled'
<1> PICK j \in (at[p] + 1)..(Len(Alts(p)) + 1) : SubmitNext(p, j)
  BY DEF LoseClaim, SkipOperation
<1>1. /\ ControlTypeOK /\ SettledOf(p) /\ pc[p] \in {"buffer", "scan"}
      /\ pc' = [pc EXCEPT ![p] = "lock"] /\ at' = [at EXCEPT ![p] = j]
      /\ UNCHANGED <<buffer, round, sel, avail, token, slot>>
  BY IInvFacts DEF LoseClaim, NoPeer, SubmitNext
<1>2. at[p] \in Nat /\ j \in Nat /\ j >= at[p] /\ at'[p] = j /\ pc'[p] = "lock"
  BY <1>1 DEF ControlTypeOK
<1>3. SettledOf(p)'
  BY <1>1, <1>2, Unserving DEF ControlTypeOK, Submitting, Critical
<1>4. \A r \in Procs \ {p} : Same(r)
  BY <1>1 DEF Same, ControlTypeOK
<1> QED
  BY <1>1, <1>3, <1>4, BystanderOnly

LEMMA UnservedSettled ==
  ASSUME IInv, NEW p \in Procs, Park(p) \/ PassOver(p)
  PROVE  Settled'
<1>1. /\ ControlTypeOK /\ SettledOf(p) /\ pc[p] \in {"buffer", "scan"}
      /\ pc' = [pc EXCEPT ![p] = "lock"] /\ at' = [at EXCEPT ![p] = at[p] + 1]
      /\ UNCHANGED <<buffer, round, sel, avail, token, slot>>
  BY IInvFacts DEF Park, PassOver, Unserved, NoPeer, SubmitNext
<1>2. at[p] \in Nat /\ at'[p] = at[p] + 1 /\ pc'[p] = "lock"
  BY <1>1 DEF ControlTypeOK
<1>3. SettledOf(p)'
  BY <1>1, <1>2, Unserving DEF ControlTypeOK, Submitting, Critical
<1>4. \A r \in Procs \ {p} : Same(r)
  BY <1>1 DEF Same, ControlTypeOK
<1> QED
  BY <1>1, <1>3, <1>4, BystanderOnly

LEMMA EndSubmitSettled ==
  ASSUME IInv, NEW p \in Procs, EndSubmit(p)
  PROVE  Settled'
<1>1. /\ ControlTypeOK /\ SettledOf(p) /\ pc[p] = "lock"
      /\ pc' = [pc EXCEPT ![p] = "done"]
      /\ UNCHANGED <<buffer, round, sel, at, avail, token, slot>>
  BY IInvFacts DEF EndSubmit, Finish, chanVars
<1>2. SettledOf(p)'
  BY <1>1, Unserving DEF ControlTypeOK, Submitting, Critical
<1>3. \A r \in Procs \ {p} : Same(r)
  BY <1>1 DEF Same, ControlTypeOK
<1> QED
  BY <1>1, <1>2, <1>3, BystanderOnly

\* A turn that drops a claimed waiter, the resumption and clear_wait change
\* nothing that Settled speaks of.
LEMMA OtherSettled ==
  ASSUME IInv, NEW p \in Procs, DropClaimed(p) \/ Resume(p) \/ ClearWait(p)
  PROVE  Settled'
<1>1. UNCHANGED <<buffer, pc, sel, at, round, token, avail, slot>>
  BY DEF DropClaimed, Resume, ClearWait, chanVars, procVars
<1>2. \A r \in Procs : SettledOf(r)'
  BY <1>1, IInvFacts, Bystander
<1> QED
  BY <1>2 DEF Settled

LEMMA TakeBufferedSettled ==
  ASSUME IInv, NEW p \in Procs, TakeBuffered(p)
  PROVE  Settled'
<1> DEFINE c == Chan(p)
           v == Head(buffer[c])
<1>1. /\ pc[p] = "buffer" /\ buffer[c] # <<>> /\ CallerAvailable(p)
      /\ avail' = [avail EXCEPT ![p] = FALSE]
      /\ buffer' = [buffer EXCEPT ![c] = Tail(buffer[c])]
      /\ slot' = [slot EXCEPT ![p][Alt(p).op] = v]
      /\ UNCHANGED <<sel, round>>
  BY DEF TakeBuffered, Empty, Dequeued
<1>2. /\ ControlTypeOK /\ DataTypeOK /\ SettledOf(p) /\ ControlOf(p)
      /\ c \in Channels /\ at[p] \in 1..Len(Alts(p)) /\ Alt(p).op \in Ops
      /\ token[p] = 0 /\ Alt(p).kind = "read"
  BY <1>1, IInvFacts, CriticalFacts, NothingPosted DEF Critical, ControlOf, Submitting
<1>3. /\ buffer[c] \in Seq(Values) /\ v \in Values
      /\ Len(Tail(buffer[c])) = Len(buffer[c]) - 1 /\ Len(buffer[c]) \in Nat
  BY <1>1, <1>2 DEF DataTypeOK
<1>4. at' = at /\ (\/ /\ pc' = [pc EXCEPT ![p] = "done"]
                    /\ token' = [token EXCEPT ![p] = at[p]]
                 \/ /\ pc' = [pc EXCEPT ![p] = "refill"] /\ token' = token
                    /\ BuffSize[c] # Unbounded)
  <2>1. CASE BuffSize[c] = Unbounded
    BY <2>1 DEF TakeBuffered, Finish
  <2>2. CASE BuffSize[c] # Unbounded
    BY <2>2 DEF TakeBuffered
  <2> QED
    BY <2>1, <2>2
<1>5. /\ slot'[p] = [slot[p] EXCEPT ![Alt(p).op] = v]
      /\ buffer'[c] = Tail(buffer[c])
      /\ BuffSize[c] # Unbounded => Len(buffer'[c]) < BuffSize[c]
  BY <1>1, <1>2, <1>3, ChannelAssumption DEF ControlTypeOK, DataTypeOK, ChannelAssumption
<1>6. SettledOf(p)'
  <2>1. Fresh(v, Alt(p))
    BY <1>2, <1>3 DEF Fresh
  <2>2. \/ pc'[p] = "done" /\ token'[p] = at[p]
        \/ pc'[p] = "refill" /\ token'[p] = 0 /\ BuffSize[c] # Unbounded
    BY <1>2, <1>4 DEF ControlTypeOK
  <2> QED
    BY <1>1, <1>4, <1>5, <2>1, <2>2, ServedSelf
<1>7. ASSUME NEW r \in Procs \ {p}
      PROVE  SettledOf(r)'
  <2>1. pc[p] \in Critical
    BY <1>1 DEF Critical
  <2>2. Same(r)
    BY <1>1, <1>2, <1>4 DEF Same, ControlTypeOK, DataTypeOK
  <2> QED
    BY <1>1, <2>1, <2>2, BystanderBuffer
<1> QED
  BY <1>6, <1>7 DEF Settled

LEMMA StoreSettled ==
  ASSUME IInv, NEW p \in Procs, Store(p)
  PROVE  Settled'
<1>1. /\ pc[p] = "scan" /\ CallerAvailable(p) /\ Alt(p).kind = "write"
      /\ avail' = [avail EXCEPT ![p] = FALSE]
      /\ buffer' = Enqueued(Chan(p), slot[p][Alt(p).op])
      /\ slot' = [slot EXCEPT ![p][Alt(p).op] = Null]
      /\ token' = [token EXCEPT ![p] = at[p]]
      /\ pc' = [pc EXCEPT ![p] = "done"]
      /\ UNCHANGED <<sel, round, at>>
  BY DEF Store, NoPeer, Finish
<1>2. /\ ControlTypeOK /\ DataTypeOK /\ SettledOf(p)
  BY IInvFacts
<1>3. SettledOf(p)'
  <2>1. Fresh(Null, Alt(p)) /\ slot'[p] = [slot[p] EXCEPT ![Alt(p).op] = Null]
    BY <1>1, <1>2 DEF Fresh, DataTypeOK
  <2>2. pc'[p] = "done" /\ token'[p] = at[p]
    BY <1>1, <1>2 DEF ControlTypeOK
  <2> QED
    BY <1>1, <2>1, <2>2, ServedSelf
<1>4. ASSUME NEW r \in Procs \ {p}
      PROVE  SettledOf(r)'
  <2>1. pc[p] \in Critical /\ \E b : buffer' = [buffer EXCEPT ![Chan(p)] = b]
    BY <1>1 DEF Critical, Enqueued
  <2>2. Same(r)
    BY <1>1, <1>2 DEF Same, ControlTypeOK, DataTypeOK
  <2> QED
    BY <2>1, <2>2, BystanderBuffer
<1> QED
  BY <1>3, <1>4 DEF Settled

\* The slot of an operation of a selection that was not served.
LEMMA UnservedSlot ==
  ASSUME IInv, NEW r \in Procs, Served(r) = 0, sel[r] \in SelectionsOfChannels,
         NEW i \in 1..Len(Alts(r))
  PROVE  IF Alts(r)[i].kind = "write" THEN slot[r][Alts(r)[i].op] \in Values
                                      ELSE slot[r][Alts(r)[i].op] = Null
<1>1. Alts(r)[i].op \in Ops
  BY SelectionFacts DEF Alts
<1>2. Untouched(r, Alts(r)[i].op)
  BY <1>1, IInvFacts DEF SettledOf, MovedOnce, Moved
<1>3. WritesInOp(sel[r], Alts(r)[i].op) <=> Alts(r)[i].kind = "write"
  BY WritesFacts DEF Alts
<1>4. <<r, round[r], Alts(r)[i].op>> \in Values
  BY <1>1, IInvFacts DEF ControlTypeOK, Values
<1> QED
  BY <1>2, <1>3, <1>4 DEF Untouched

\* A waiter is at the other end of the channel.
LEMMA PeerKinds ==
  ASSUME NEW a, a.kind \in {"read", "write"}, NEW b, b.kind \in {"read", "write"},
         ListOf(b) = PeerList(a)
  PROVE  a.kind = "write" <=> b.kind = "read"
BY DEF ListOf, PeerList, ReaderList, WriterList

LEMMA RefillSettled ==
  ASSUME IInv, NEW p \in Procs, Refill(p)
  PROVE  Settled'
<1> PICK n : n = first[WriterList(Chan(p))]
  OBVIOUS
<1> PICK q : q = n[1]
  OBVIOUS
<1> PICK k : k = AltOf(n).op
  OBVIOUS
<1>1. /\ pc[p] = "refill" /\ n # Null /\ avail[q]
      /\ avail' = [avail EXCEPT ![q] = FALSE]
      /\ buffer' = Enqueued(Chan(p), slot[q][k])
      /\ slot' = [slot EXCEPT ![q][k] = Null]
      /\ token' = [token EXCEPT ![q] = n[2], ![p] = at[p]]
      /\ pc' = [pc EXCEPT ![p] = "done"]
      /\ UNCHANGED <<sel, round, at>>
  BY DEF Refill, Finish
<1>2. /\ ControlTypeOK /\ DataTypeOK /\ ControlOf(p) /\ Chan(p) \in Channels
  BY <1>1, IInvFacts, CriticalFacts DEF Critical
<1>3. /\ n \in Live /\ ListOf(AltOf(n)) = WriterList(Chan(p))
      /\ q \in Procs /\ q # p /\ k \in Ops /\ AltOf(n).kind = "write"
  <2>1. WriterList(Chan(p)) \in Lists
    BY <1>2 DEF WriterList, Lists
  <2>2. n \in Live /\ ListOf(AltOf(n)) = WriterList(Chan(p))
    BY <1>1, <2>1, FirstLive
  <2>3. q # p
    BY <1>1, <1>2 DEF ControlOf
  <2> QED
    BY <2>2, <2>3, LiveFacts DEF ListOf, ReaderList, WriterList
<1>4. SettledOf(p)'
  <2>1. pc'[p] = "done" /\ token'[p] = at[p] /\ slot'[p] = slot[p]
    BY <1>1, <1>2, <1>3 DEF ControlTypeOK, DataTypeOK
  <2> QED
    BY <1>1, <2>1, Confirmed
<1>5. SettledOf(q)'
  <2>1. /\ pc'[q] = pc[q] /\ token'[q] = n[2]
        /\ slot'[q] = [slot[q] EXCEPT ![k] = Null] /\ Fresh(Null, AltOf(n))
    BY <1>1, <1>2, <1>3 DEF ControlTypeOK, DataTypeOK, Fresh
  <2> QED
    BY <1>1, <1>3, <2>1, Matched
<1>6. ASSUME NEW r \in Procs \ {p, q}
      PROVE  SettledOf(r)'
  <2>1. pc[p] \in Critical /\ \E b : buffer' = [buffer EXCEPT ![Chan(p)] = b]
    BY <1>1 DEF Critical, Enqueued
  <2>2. Same(r)
    BY <1>1, <1>2, <1>3 DEF Same, ControlTypeOK, DataTypeOK
  <2> QED
    BY <2>1, <2>2, BystanderBuffer
<1> QED
  BY <1>4, <1>5, <1>6 DEF Settled

LEMMA MeetPeerSettled ==
  ASSUME IInv, NEW p \in Procs, MeetPeer(p)
  PROVE  Settled'
<1> PICK n : n = First(p)
  OBVIOUS
<1> PICK q : q = n[1]
  OBVIOUS
<1> PICK k : k = AltOf(n).op
  OBVIOUS
<1> PICK h : h = Alt(p).op
  OBVIOUS
<1>1. /\ pc[p] = "scan" /\ n # Null /\ avail[q] /\ CallerAvailable(p)
      /\ avail' = BothClaimed(p, q)
      /\ slot' = [slot EXCEPT ![p][h] = slot[q][k], ![q][k] = slot[p][h]]
      /\ token' = [token EXCEPT ![q] = n[2], ![p] = at[p]]
      /\ pc' = [pc EXCEPT ![p] = "done"]
      /\ UNCHANGED <<sel, round, at, buffer>>
  BY DEF MeetPeer, BothContextsLocked, Finish
<1>2. /\ ControlTypeOK /\ DataTypeOK /\ ControlOf(p)
      /\ Alt(p).kind \in {"read", "write"} /\ h \in Ops
      /\ PeerList(Alt(p)) \in Lists
      /\ sel[p] \in SelectionsOfChannels /\ at[p] \in 1..Len(Alts(p))
      /\ Alt(p) = Alts(p)[at[p]]
  BY <1>1, IInvFacts, CriticalFacts DEF Critical, Alts, Alt
<1>3. /\ n \in Live /\ q \in Procs /\ k \in Ops
      /\ AltOf(n).kind \in {"read", "write"}
      /\ Alt(p).kind = "write" <=> AltOf(n).kind = "read"
      /\ sel[q] \in SelectionsOfChannels /\ n[2] \in 1..Len(Alts(q))
      /\ AltOf(n) = Alts(q)[n[2]]
  <2>1. n \in Live /\ ListOf(AltOf(n)) = PeerList(Alt(p))
    BY <1>1, <1>2, FirstLive DEF First
  <2> QED
    BY <1>2, <2>1, LiveFacts, PeerKinds
<1>4. q # p
  BY <1>1, <1>2 DEF MeetPeer, BothContextsLocked, WithOwnContext, ControlOf
<1>5. Served(p) = 0 /\ Served(q) = 0
  <2>1. token[p] = 0
    BY <1>1, IInvFacts, NothingPosted DEF Submitting, Critical
  <2>2. token[q] = 0 /\ pc[q] # "refill"
    BY <1>1, <1>3, IInvFacts DEF ControlOf
  <2> QED
    BY <1>1, <2>1, <2>2 DEF Served
<1>6. Fresh(slot[q][k], Alt(p)) /\ Fresh(slot[p][h], AltOf(n))
  <2>1. IF AltOf(n).kind = "write" THEN slot[q][k] \in Values ELSE slot[q][k] = Null
    BY <1>3, <1>5, UnservedSlot
  <2>2. IF Alt(p).kind = "write" THEN slot[p][h] \in Values ELSE slot[p][h] = Null
    BY <1>2, <1>5, UnservedSlot
  <2> QED
    BY <1>2, <1>3, <2>1, <2>2 DEF Fresh
<1>7. /\ slot'[p] = [slot[p] EXCEPT ![h] = slot[q][k]]
      /\ slot'[q] = [slot[q] EXCEPT ![k] = slot[p][h]]
      /\ token'[p] = at[p] /\ token'[q] = n[2]
      /\ pc'[p] = "done" /\ pc'[q] = pc[q]
  BY <1>1, <1>2, <1>3, <1>4 DEF ControlTypeOK, DataTypeOK
<1>8. SettledOf(p)'
  BY <1>1, <1>6, <1>7, ServedSelf
<1>9. SettledOf(q)'
  BY <1>1, <1>3, <1>6, <1>7, Matched
<1>10. ASSUME NEW r \in Procs \ {p, q}
       PROVE  SettledOf(r)'
  <2>1. pc[p] \in Critical
    BY <1>1 DEF Critical
  <2>2. Same(r)
    BY <1>1, <1>2, <1>3 DEF Same, BothClaimed, ControlTypeOK, DataTypeOK
  <2> QED
    BY <1>1, <2>1, <2>2, BystanderBuffer
<1> QED
  BY <1>8, <1>9, <1>10 DEF Settled

-----------------------------------------------------------------------------
(* DataTypeOK is preserved.                                                *)

LEMMA BeginData ==
  ASSUME IInv, NEW p \in Procs, Begin(p)
  PROVE  DataTypeOK'
<1> PICK s \in Script[p][round[p] + 1] :
       slot' = [slot EXCEPT ![p] = [k \in Ops |-> IF WritesInOp(s, k)
                                       THEN <<p, round[p] + 1, k>> ELSE Null]]
  BY DEF Begin
<1>1. ControlTypeOK /\ DataTypeOK /\ UNCHANGED <<buffer, results>>
  BY IInvFacts DEF Begin, chanVars
<1>2. [k \in Ops |-> IF WritesInOp(s, k) THEN <<p, round[p] + 1, k>> ELSE Null]
        \in [Ops -> Values \cup {Null}]
  BY <1>1 DEF ControlTypeOK, Values
<1> QED
  BY <1>1, <1>2 DEF DataTypeOK

LEMMA TakeBufferedData ==
  ASSUME IInv, NEW p \in Procs, TakeBuffered(p)
  PROVE  DataTypeOK'
<1> PICK c : c = Chan(p)
  OBVIOUS
<1>1. /\ pc[p] = "buffer" /\ buffer[c] # <<>>
      /\ buffer' = [buffer EXCEPT ![c] = Tail(buffer[c])]
      /\ slot' = [slot EXCEPT ![p][Alt(p).op] = Head(buffer[c])]
      /\ UNCHANGED results
  BY DEF TakeBuffered, Empty, Dequeued
<1>2. DataTypeOK /\ c \in Channels /\ Alt(p).op \in Ops
  BY <1>1, IInvFacts, CriticalFacts DEF Critical
<1>3. /\ buffer[c] \in Seq(Values) /\ Tail(buffer[c]) \in Seq(Values)
      /\ Head(buffer[c]) \in Values
      /\ Len(Tail(buffer[c])) = Len(buffer[c]) - 1 /\ Len(buffer[c]) \in Nat
  BY <1>1, <1>2 DEF DataTypeOK
<1>4. slot' \in [Procs -> [Ops -> Values \cup {Null}]] /\ buffer' \in [Channels -> Seq(Values)]
  BY <1>1, <1>2, <1>3 DEF DataTypeOK
<1>5. ASSUME NEW d \in Channels, BuffSize[d] # Unbounded
      PROVE  Len(buffer'[d]) <= BuffSize[d]
  <2>1. CASE d = c
    BY <1>1, <1>2, <1>3, <1>5, <2>1, ChannelAssumption DEF DataTypeOK, ChannelAssumption
  <2>2. CASE d # c
    BY <1>1, <1>2, <1>5, <2>2 DEF DataTypeOK
  <2> QED
    BY <2>1, <2>2
<1> QED
  BY <1>1, <1>2, <1>4, <1>5 DEF DataTypeOK

\* A value is put at the end of a buffer that has room for it.
LEMMA EnqueuedData ==
  ASSUME DataTypeOK, NEW c \in Channels, NEW v \in Values, buffer' = Enqueued(c, v),
         BuffSize[c] # Unbounded => Len(buffer[c]) < BuffSize[c]
  PROVE  /\ buffer' \in [Channels -> Seq(Values)]
         /\ \A d \in Channels : BuffSize[d] # Unbounded => Len(buffer'[d]) <= BuffSize[d]
<1>1. /\ buffer \in [Channels -> Seq(Values)] /\ buffer[c] \in Seq(Values)
      /\ Append(buffer[c], v) \in Seq(Values)
      /\ Len(Append(buffer[c], v)) = Len(buffer[c]) + 1 /\ Len(buffer[c]) \in Nat
      /\ buffer' = [buffer EXCEPT ![c] = Append(buffer[c], v)]
  BY DEF DataTypeOK, Enqueued
<1>2. ASSUME NEW d \in Channels, BuffSize[d] # Unbounded
      PROVE  Len(buffer'[d]) <= BuffSize[d]
  <2>1. CASE d = c
    <3>1. BuffSize[c] \in Nat /\ Len(buffer[c]) < BuffSize[c]
      BY <1>2, <2>1, ChannelAssumption DEF ChannelAssumption
    <3>2. Len(buffer'[c]) = Len(buffer[c]) + 1
      BY <1>1
    <3> HIDE DEF Enqueued
    <3> QED
      BY <1>1, <2>1, <3>1, <3>2
  <2>2. CASE d # c
    BY <1>1, <1>2, <2>2 DEF DataTypeOK
  <2> QED
    BY <2>1, <2>2
<1> QED
  BY <1>1, <1>2

LEMMA RefillData ==
  ASSUME IInv, NEW p \in Procs, Refill(p)
  PROVE  DataTypeOK'
<1> PICK n : n = first[WriterList(Chan(p))]
  OBVIOUS
<1> PICK q : q = n[1]
  OBVIOUS
<1> PICK k : k = AltOf(n).op
  OBVIOUS
<1> PICK c : c = Chan(p)
  OBVIOUS
<1>1. /\ pc[p] = "refill" /\ n # Null /\ avail[q]
      /\ buffer' = Enqueued(c, slot[q][k])
      /\ slot' = [slot EXCEPT ![q][k] = Null]
      /\ UNCHANGED results
  BY DEF Refill
<1>2. /\ DataTypeOK /\ c \in Channels /\ SettledOf(p)
  BY <1>1, IInvFacts, CriticalFacts DEF Critical
<1>3. n \in Live /\ ListOf(AltOf(n)) = WriterList(c)
  <2>1. WriterList(c) \in Lists
    BY <1>2 DEF WriterList, Lists
  <2> QED
    BY <1>1, <2>1, FirstLive
<1>4. /\ q \in Procs /\ k \in Ops /\ AltOf(n).kind = "write"
      /\ sel[q] \in SelectionsOfChannels /\ n[2] \in 1..Len(Alts(q))
      /\ AltOf(n) = Alts(q)[n[2]]
  BY <1>3, LiveFacts DEF ListOf, ReaderList, WriterList
<1>5. Served(q) = 0
  BY <1>1, <1>4, IInvFacts DEF ControlOf, Served
<1>6. slot[q][k] \in Values
  BY <1>4, <1>5, UnservedSlot
<1>7. BuffSize[c] # Unbounded /\ Len(buffer[c]) < BuffSize[c]
  BY <1>1, <1>2 DEF SettledOf, RoomOf
<1>8. slot' \in [Procs -> [Ops -> Values \cup {Null}]]
  BY <1>1, <1>2, <1>4 DEF DataTypeOK
<1> QED
  BY <1>1, <1>2, <1>6, <1>7, <1>8, EnqueuedData DEF DataTypeOK

LEMMA StoreData ==
  ASSUME IInv, NEW p \in Procs, Store(p)
  PROVE  DataTypeOK'
<1> PICK c : c = Chan(p)
  OBVIOUS
<1> PICK k : k = Alt(p).op
  OBVIOUS
<1>1. /\ pc[p] = "scan" /\ CallerAvailable(p) /\ Alt(p).kind = "write" /\ ~Full(c)
      /\ buffer' = Enqueued(c, slot[p][k])
      /\ slot' = [slot EXCEPT ![p][k] = Null]
      /\ UNCHANGED results
  BY DEF Store, NoPeer
<1>2. /\ DataTypeOK /\ c \in Channels /\ k \in Ops
      /\ sel[p] \in SelectionsOfChannels /\ at[p] \in 1..Len(Alts(p))
      /\ Alt(p) = Alts(p)[at[p]]
  BY <1>1, IInvFacts, CriticalFacts DEF Critical, Alt, Alts
<1>3. Served(p) = 0
  BY <1>1, IInvFacts, NothingPosted DEF Submitting, Critical, Served
<1>4. slot[p][k] \in Values
  BY <1>1, <1>2, <1>3, UnservedSlot
<1>5. BuffSize[c] # Unbounded => Len(buffer[c]) < BuffSize[c]
  BY <1>1, <1>2, ChannelAssumption DEF DataTypeOK, Full, ChannelAssumption
<1>6. slot' \in [Procs -> [Ops -> Values \cup {Null}]]
  BY <1>1, <1>2 DEF DataTypeOK
<1> QED
  BY <1>1, <1>2, <1>4, <1>5, <1>6, EnqueuedData DEF DataTypeOK

LEMMA MeetPeerData ==
  ASSUME IInv, NEW p \in Procs, MeetPeer(p)
  PROVE  DataTypeOK'
<1> PICK n : n = First(p)
  OBVIOUS
<1> PICK k : k = AltOf(n).op
  OBVIOUS
<1> PICK h : h = Alt(p).op
  OBVIOUS
<1>1. /\ pc[p] = "scan" /\ n # Null
      /\ slot' = [slot EXCEPT ![p][h] = slot[n[1]][k], ![n[1]][k] = slot[p][h]]
      /\ UNCHANGED <<buffer, results>>
  BY DEF MeetPeer, BothContextsLocked
<1>2. DataTypeOK /\ h \in Ops /\ PeerList(Alt(p)) \in Lists
  BY <1>1, IInvFacts, CriticalFacts DEF Critical
<1>3. n[1] \in Procs /\ k \in Ops
  <2>1. n \in Live
    BY <1>1, <1>2, FirstLive DEF First
  <2> QED
    BY <2>1, LiveFacts
<1>4. slot' \in [Procs -> [Ops -> Values \cup {Null}]]
  <2> DEFINE T == [Procs -> [Ops -> Values \cup {Null}]]
             g == [slot EXCEPT ![p][h] = slot[n[1]][k]]
  <2>1. slot \in T /\ slot[n[1]][k] \in Values \cup {Null} /\ slot[p][h] \in Values \cup {Null}
    BY <1>2, <1>3 DEF DataTypeOK
  <2>2. g \in T
    BY <1>2, <2>1
  <2>3. slot' = [g EXCEPT ![n[1]][k] = slot[p][h]]
    BY <1>1
  <2> HIDE DEF g
  <2> QED
    BY <1>3, <2>1, <2>2, <2>3
<1> QED
  BY <1>1, <1>2, <1>4 DEF DataTypeOK

LEMMA ReturnData ==
  ASSUME IInv, NEW p \in Procs, Return(p)
  PROVE  DataTypeOK'
<1> PICK a : a = Alts(p)[token[p]]
  OBVIOUS
<1> PICK v : v = CASE a.kind = "read" ->
                        [kind |-> "read", chan |-> a.chan, val |-> slot[p][a.op]]
                   [] a.kind = "write" ->
                        [kind |-> "write", chan |-> a.chan, val |-> <<p, round[p], a.op>>]
                   [] OTHER -> [kind |-> "nothing"]
  OBVIOUS
<1>1. /\ token[p] # 0
      /\ results' = [results EXCEPT ![p] = Append(results[p], v)]
      /\ slot' = [slot EXCEPT ![p] = EmptySlots]
      /\ UNCHANGED buffer
  BY DEF Return, chanVars
<1>2. ControlTypeOK /\ DataTypeOK /\ ControlOf(p) /\ SettledOf(p)
  BY IInvFacts
<1>3. sel[p] \in SelectionsOfChannels /\ token[p] \in 1..Len(Alts(p))
  BY <1>1, <1>2 DEF ControlOf, SettledOf, RoomOf
<1>4. a.op \in Ops /\ (a.kind # "nothing" => a.kind \in {"read", "write"} /\ a.chan \in Channels)
  BY <1>3, SelectionFacts DEF Alts
<1>5. slot[p][a.op] \in Values \cup {Null} /\ <<p, round[p], a.op>> \in Values
  BY <1>2, <1>4 DEF DataTypeOK, ControlTypeOK, Values
<1>6. v \in Results
  <2>1. CASE a.kind = "read"
    BY <1>4, <1>5, <2>1 DEF Results
  <2>2. CASE a.kind = "write"
    BY <1>4, <1>5, <2>2 DEF Results
  <2>3. CASE a.kind \notin {"read", "write"}
    BY <2>3 DEF Results
  <2> QED
    BY <2>1, <2>2, <2>3
<1>7. results' \in [Procs -> Seq(Results)]
  BY <1>1, <1>2, <1>6 DEF DataTypeOK
<1>8. slot' \in [Procs -> [Ops -> Values \cup {Null}]]
  BY <1>1, <1>2 DEF DataTypeOK, EmptySlots
<1> QED
  BY <1>1, <1>2, <1>7, <1>8 DEF DataTypeOK

LEMMA NextData ==
  ASSUME IInv, NEW p \in Procs, Begin(p) \/ Submit(p) \/ Complete(p)
  PROVE  DataTypeOK'
<1>1. CASE \/ Lock(p) \/ RefillNone(p) \/ DropClaimed(p) \/ LoseClaim(p) \/ Park(p)
           \/ PassOver(p) \/ TakeNothing(p) \/ EndSubmit(p) \/ Resume(p) \/ ClearWait(p)
  <2>1. UNCHANGED <<slot, buffer, results>>
    BY <1>1 DEF Lock, RefillNone, DropClaimed, LoseClaim, Park, PassOver, TakeNothing,
                EndSubmit, Resume, ClearWait, chanVars, procVars
  <2> QED
    BY <2>1, IInvFacts DEF DataTypeOK
<1> QED
  BY <1>1, BeginData, TakeBufferedData, RefillData, StoreData, MeetPeerData, ReturnData
     DEF Submit, Complete

LEMMA NextSettled ==
  ASSUME IInv, OrderlyScript, NEW p \in Procs, Begin(p) \/ Submit(p) \/ Complete(p)
  PROVE  Settled'
BY BeginSettled, LockSettled, TakeBufferedSettled, RefillSettled, RefillNoneSettled,
   MeetPeerSettled, StoreSettled, LoseClaimSettled, UnservedSettled, TakeNothingSettled,
   EndSubmitSettled, OtherSettled, ReturnSettled
   DEF Submit, Complete

-----------------------------------------------------------------------------
(* The waiter lists stay queues of the alternatives that wait.             *)

\* nullptr is no node.
LEMMA NullNoNode == Null \notin Nodes
BY ScriptAssumption DEF ScriptAssumption, Nodes

\* A step that takes the nodes Out from the queues q, and adds none.
TakesOut(q, Q, Out) ==
  /\ Chains(Lists, Nodes, Q)'
  /\ \A l \in Lists : \A x \in Nodes : Within(x, Q[l]) <=> Within(x, q[l]) /\ x \notin Out
  /\ \A x \in Live : x \in Live' \/ x \in Out \/ \A l \in Lists : ~Within(x, q[l])
  /\ \A x \in Live' : /\ x \in Live /\ AltOf(x)' = AltOf(x)
                      /\ avail'[x[1]] => avail[x[1]] /\ x \notin Out
                      /\ token'[x[1]] = x[2] => token[x[1]] = x[2] \/ x \in Out

\* After it what Placed says still holds.
LEMMA PlacedStep ==
  ASSUME IInv, NEW q \in [Lists -> Seq(Nodes)], Placed(q), NEW Q, NEW Out,
         TakesOut(q, Q, Out)
  PROVE  Queues'
<1> USE DEF TakesOut
<1>1. Q \in [Lists -> Seq(Nodes)]
  BY DEF Chains
<1>2. ASSUME NEW l \in Lists, NEW n \in Nodes, Within(n, Q[l])
      PROVE  n \in Live' /\ ListOf(AltOf(n)') = l
  <2>1. Within(n, q[l]) /\ n \notin Out
    BY <1>2
  <2>2. n \in Live /\ ListOf(AltOf(n)) = l
    BY <2>1 DEF Placed
  <2> QED
    BY <2>1, <2>2
<1>3. ASSUME NEW n \in Live', avail'[n[1]]
      PROVE  Within(n, Q[ListOf(AltOf(n)')])
  <2>1. n \in Live /\ n \in Nodes /\ ListOf(AltOf(n)) \in Lists
    BY LiveFacts
  <2>2. Within(n, q[ListOf(AltOf(n))])
    BY <1>3, <2>1 DEF Placed
  <2> QED
    BY <1>3, <2>1, <2>2
<1>4. ASSUME NEW n \in Live', token'[n[1]] = n[2], NEW l \in Lists
      PROVE  ~Within(n, Q[l])
  <2>1. n \in Live /\ n \in Nodes
    BY LiveFacts
  <2>2. CASE n \in Out
    BY <2>1, <2>2
  <2>3. CASE n \notin Out
    BY <1>4, <2>1, <2>3 DEF Placed
  <2> QED
    BY <2>2, <2>3
<1>5. Placed(Q)'
  BY <1>2, <1>3, <1>4 DEF Placed
<1> QED
  BY <1>1, <1>5 DEF Queues

\* A step that leaves the lists and what waits in them alone.
LEMMA QueuesSame ==
  ASSUME IInv, UNCHANGED <<linkVars, queued>>,
         \A x \in Live : /\ AltOf(x)' = AltOf(x)
                         /\ avail'[x[1]] => avail[x[1]]
                         /\ token'[x[1]] = x[2] => token[x[1]] = x[2]
  PROVE  Queues'
<1> PICK q \in [Lists -> Seq(Nodes)] : Chains(Lists, Nodes, q) /\ Placed(q)
  BY DEF IInv, Queues
<1>1. Chains(Lists, Nodes, q)'
  BY DEF Chains, Spells, linkVars
<1>2. Live' = Live
  BY DEF Live
<1> PICK Out : Out = {}
  OBVIOUS
<1>3. \A l \in Lists : \A x \in Nodes : Within(x, q[l]) <=> Within(x, q[l]) /\ x \notin Out
  OBVIOUS
<1>4. \A x \in Live' : /\ x \in Live /\ AltOf(x)' = AltOf(x)
                       /\ avail'[x[1]] => avail[x[1]] /\ x \notin Out
                       /\ token'[x[1]] = x[2] => token[x[1]] = x[2] \/ x \in Out
  BY <1>2
<1>5. \A x \in Live : x \in Live'
  BY <1>2
<1>8. TakesOut(q, q, Out)
  BY <1>1, <1>3, <1>4, <1>5 DEF TakesOut
<1> QED
  BY <1>8, PlacedStep

\* A step that pops the first node of a list, because its coroutine was claimed
\* before or is claimed now.
LEMMA QueuesPop ==
  ASSUME IInv, UNCHANGED <<queued, sel>>,
         NEW l \in Lists, first[l] # Null, PopFirst(l),
         \A x \in Live : /\ avail'[x[1]] => avail[x[1]] /\ x # first[l]
                         /\ token'[x[1]] = x[2] => token[x[1]] = x[2] \/ x = first[l]
  PROVE  Queues'
<1> PICK q \in [Lists -> Seq(Nodes)] : Chains(Lists, Nodes, q) /\ Placed(q)
  BY DEF IInv, Queues
<1>1. LinksTypeOK(Lists, Nodes)
  BY IInvFacts DEF ControlTypeOK
<1>2. PICK Q : /\ Chains(Lists, Nodes, Q)'
               /\ \A m \in Lists : \A x \in Nodes :
                    Within(x, Q[m]) <=> Within(x, q[m]) /\ x # first[l]
  <2>1. TakenOut(Lists, Nodes, q, first[l])
    BY <1>1, NullNoNode, PopFirstQueue
  <2> QED
    BY <2>1 DEF TakenOut
<1>3. Live' = Live /\ \A x \in Live : AltOf(x)' = AltOf(x)
  BY DEF Live, AltOf
<1> PICK Out : Out = {first[l]}
  OBVIOUS
<1>4. \A m \in Lists : \A x \in Nodes : Within(x, Q[m]) <=> Within(x, q[m]) /\ x \notin Out
  BY <1>2
<1>5. \A x \in Live' : /\ x \in Live /\ AltOf(x)' = AltOf(x)
                       /\ avail'[x[1]] => avail[x[1]] /\ x \notin Out
                       /\ token'[x[1]] = x[2] => token[x[1]] = x[2] \/ x \in Out
  BY <1>3
<1>6. \A x \in Live : x \in Live'
  BY <1>3
<1>8. TakesOut(q, Q, Out)
  BY <1>2, <1>4, <1>5, <1>6 DEF TakesOut
<1> QED
  BY <1>8, PlacedStep

-----------------------------------------------------------------------------
(* Queues is preserved: one lemma per action, or kind of action.           *)

LEMMA BeginQueues ==
  ASSUME IInv, NEW p \in Procs, Begin(p)
  PROVE  Queues'
<1> PICK s : sel' = [sel EXCEPT ![p] = s] /\ avail' = [avail EXCEPT ![p] = s.wait]
  BY DEF Begin
<1>1. UNCHANGED <<linkVars, queued, token>> /\ pc[p] = "idle"
  BY DEF Begin
<1>2. ControlTypeOK /\ queued[p] = {}
  BY <1>1, IInvFacts DEF ControlOf
<1>3. ASSUME NEW x \in Live
      PROVE  /\ AltOf(x)' = AltOf(x)
             /\ avail'[x[1]] => avail[x[1]]
             /\ token'[x[1]] = x[2] => token[x[1]] = x[2]
  <2>1. x[1] \in Procs /\ x[1] # p
    BY <1>2, LiveFacts
  <2> QED
    BY <1>1, <1>2, <2>1 DEF AltOf, ControlTypeOK
<1> QED
  BY <1>1, <1>3, QueuesSame

\* The coroutine that submits gets its token without a waiter of its own.
LEMMA OwnTokenQueues ==
  ASSUME IInv, NEW p \in Procs, UNCHANGED <<linkVars, queued, sel>>,
         pc[p] \in Submitting,
         \A r \in Procs \ {p} : avail'[r] = avail[r] /\ token'[r] = token[r],
         avail'[p] => avail[p], token'[p] \in {token[p], at[p]}
  PROVE  Queues'
<1>1. ASSUME NEW x \in Live
      PROVE  /\ AltOf(x)' = AltOf(x)
             /\ avail'[x[1]] => avail[x[1]]
             /\ token'[x[1]] = x[2] => token[x[1]] = x[2]
  <2>1. x[1] \in Procs /\ (x[1] = p => x[2] < at[p])
    BY LiveFacts
  <2>2. at[p] \in Nat /\ x[2] \in Nat
    BY IInvFacts, LiveFacts DEF ControlTypeOK
  <2> QED
    BY <2>1, <2>2 DEF AltOf
<1> QED
  BY <1>1, QueuesSame

LEMMA OwnStepQueues ==
  ASSUME IInv, NEW p \in Procs,
         \/ Lock(p) \/ TakeBuffered(p) \/ RefillNone(p) \/ Store(p) \/ LoseClaim(p)
         \/ PassOver(p) \/ TakeNothing(p) \/ EndSubmit(p)
  PROVE  Queues'
<1>1. ControlTypeOK
  BY IInvFacts
<1>2. UNCHANGED <<linkVars, queued, sel>>
  BY DEF Lock, TakeBuffered, RefillNone, Store, LoseClaim, PassOver, TakeNothing, EndSubmit
<1>3. pc[p] \in Submitting
  BY DEF Lock, TakeBuffered, RefillNone, Store, LoseClaim, PassOver, TakeNothing, EndSubmit,
         NoPeer, Unserved, Submitting, Critical
<1>4. avail' = avail \/ avail' = [avail EXCEPT ![p] = FALSE]
  BY DEF Lock, TakeBuffered, RefillNone, Store, LoseClaim, PassOver, TakeNothing, EndSubmit
<1>5. token' = token \/ token' = [token EXCEPT ![p] = at[p]]
  BY DEF Lock, TakeBuffered, RefillNone, Store, LoseClaim, PassOver, TakeNothing, EndSubmit
<1> QED
  BY <1>1, <1>2, <1>3, <1>4, <1>5, OwnTokenQueues DEF ControlTypeOK

LEMMA ResumeQueues ==
  ASSUME IInv, NEW p \in Procs, Resume(p)
  PROVE  Queues'
<1>1. UNCHANGED <<linkVars, queued, sel, avail, token>>
  BY DEF Resume
<1>2. \A x \in Live : AltOf(x)' = AltOf(x)
  BY <1>1 DEF AltOf
<1> QED
  BY <1>1, <1>2, QueuesSame

LEMMA DropClaimedQueues ==
  ASSUME IInv, NEW p \in Procs, DropClaimed(p)
  PROVE  Queues'
<1> PICK l : l = PeerList(Alt(p))
  OBVIOUS
<1>1. /\ pc[p] \in Critical /\ first[l] # Null /\ ~avail[first[l][1]] /\ PopFirst(l)
      /\ UNCHANGED <<queued, sel, avail, token>>
  BY DEF DropClaimed, BothContextsLocked, First, Critical, procVars
<1>2. l \in Lists
  BY <1>1, IInvFacts, CriticalFacts
<1> QED
  BY <1>1, <1>2, QueuesPop

LEMMA RefillQueues ==
  ASSUME IInv, NEW p \in Procs, Refill(p)
  PROVE  Queues'
<1> PICK l : l = WriterList(Chan(p))
  OBVIOUS
<1> PICK n : n = first[l]
  OBVIOUS
<1>1. /\ pc[p] = "refill" /\ n # Null /\ avail[n[1]]
      /\ avail' = [avail EXCEPT ![n[1]] = FALSE]
      /\ PopFirst(l)
      /\ token' = [token EXCEPT ![n[1]] = n[2], ![p] = at[p]]
      /\ UNCHANGED <<sel, queued>>
  BY DEF Refill
<1>2. ControlTypeOK /\ ControlOf(p) /\ l \in Lists
  BY <1>1, IInvFacts, CriticalFacts DEF Critical, WriterList, Lists
<1>3. n \in Live /\ n[1] \in Procs /\ n[1] # p
  BY <1>1, <1>2, FirstLive, LiveFacts DEF ControlOf
<1>4. ASSUME NEW x \in Live
      PROVE  /\ avail'[x[1]] => avail[x[1]] /\ x # n
             /\ token'[x[1]] = x[2] => token[x[1]] = x[2] \/ x = n
  <2>1. x[1] \in Procs /\ x = <<x[1], x[2]>> /\ n = <<n[1], n[2]>>
    BY <1>3, LiveFacts
  <2>2. x[1] = p => x[2] < at[p] /\ x[2] \in Nat /\ at[p] \in Nat
    BY <1>1, <1>2, LiveFacts DEF Submitting, Critical, ControlTypeOK
  <2>3. CASE x[1] = n[1]
    BY <1>1, <1>2, <1>3, <2>1, <2>3 DEF ControlTypeOK
  <2>4. CASE x[1] = p
    BY <1>1, <1>2, <1>3, <2>2, <2>4 DEF ControlTypeOK, ControlOf
  <2>5. CASE x[1] \notin {p, n[1]}
    BY <1>1, <1>2, <2>1, <2>5 DEF ControlTypeOK
  <2> QED
    BY <2>3, <2>4, <2>5
<1> QED
  BY <1>1, <1>2, <1>4, QueuesPop

LEMMA MeetPeerQueues ==
  ASSUME IInv, NEW p \in Procs, MeetPeer(p)
  PROVE  Queues'
<1> PICK l : l = PeerList(Alt(p))
  OBVIOUS
<1> PICK n : n = first[l]
  OBVIOUS
<1>1. /\ pc[p] = "scan" /\ n # Null /\ avail[n[1]]
      /\ avail' = [avail EXCEPT ![p] = FALSE, ![n[1]] = FALSE]
      /\ PopFirst(l)
      /\ token' = [token EXCEPT ![n[1]] = n[2], ![p] = at[p]]
      /\ UNCHANGED <<sel, queued>>
  BY DEF MeetPeer, BothContextsLocked, BothClaimed, First
<1>2. ControlTypeOK /\ ControlOf(p) /\ l \in Lists
  BY <1>1, IInvFacts, CriticalFacts DEF Critical
<1>3. n \in Live /\ n[1] \in Procs
  BY <1>1, <1>2, FirstLive, LiveFacts
<1>4. n[1] # p
  <2>1. n = First(p) /\ BothContextsLocked(p)
    BY DEF MeetPeer, First
  <2>2. n[1] = p => sel[p].wait
    BY <1>1, <1>2 DEF ControlOf
  <2> QED
    BY <1>1, <2>1, <2>2 DEF BothContextsLocked, WithOwnContext
<1>5. ASSUME NEW x \in Live
      PROVE  /\ avail'[x[1]] => avail[x[1]] /\ x # n
             /\ token'[x[1]] = x[2] => token[x[1]] = x[2] \/ x = n
  <2>1. x[1] \in Procs /\ x = <<x[1], x[2]>> /\ n = <<n[1], n[2]>>
    BY <1>3, LiveFacts
  <2>2. x[1] = p => x[2] < at[p] /\ x[2] \in Nat /\ at[p] \in Nat
    BY <1>1, <1>2, LiveFacts DEF Submitting, Critical, ControlTypeOK
  <2>3. CASE x[1] = n[1]
    BY <1>1, <1>2, <1>3, <1>4, <2>1, <2>3 DEF ControlTypeOK
  <2>4. CASE x[1] = p
    BY <1>1, <1>2, <1>3, <1>4, <2>2, <2>4 DEF ControlTypeOK
  <2>5. CASE x[1] \notin {p, n[1]}
    BY <1>1, <1>2, <2>1, <2>5 DEF ControlTypeOK
  <2> QED
    BY <2>3, <2>4, <2>5
<1> QED
  BY <1>1, <1>2, <1>5, QueuesPop

LEMMA ParkQueues ==
  ASSUME IInv, NEW p \in Procs, Park(p)
  PROVE  Queues'
<1> PICK l : l = ListOf(Alt(p))
  OBVIOUS
<1> PICK n : n = <<p, at[p]>>
  OBVIOUS
<1> PICK q \in [Lists -> Seq(Nodes)] : Chains(Lists, Nodes, q) /\ Placed(q)
  BY DEF IInv, Queues
<1>1. /\ pc[p] \in Critical /\ sel[p].wait
      /\ Enqueue(l, n)
      /\ queued' = [queued EXCEPT ![p] = @ \cup {at[p]}]
      /\ UNCHANGED <<sel, avail, token>>
  BY DEF Park, Unserved, NoPeer, Critical
<1>2. /\ ControlTypeOK /\ ControlOf(p) /\ SettledOf(p) /\ LinksTypeOK(Lists, Nodes)
      /\ l \in Lists /\ at[p] \in 1..MaxAlts /\ n \in Nodes
  BY <1>1, IInvFacts, CriticalFacts DEF ControlTypeOK, Nodes
<1>3. n[1] = p /\ n[2] = at[p]
  OBVIOUS
<1>4. at[p] \notin queued[p] /\ token[p] # at[p]
  <2>1. \A i \in queued[p] : i < at[p]
    BY <1>1, <1>2 DEF ControlOf, Submitting
  <2>2. token[p] < at[p] /\ token[p] \in Nat /\ at[p] \in Nat
    BY <1>1, <1>2 DEF SettledOf, RoomOf, Submitting, ControlTypeOK
  <2> QED
    BY <2>1, <2>2
<1>5. \A m \in Lists : ~Within(n, q[m])
  BY <1>2, <1>3, <1>4 DEF Placed, Live
<1>6. PICK Q : /\ Chains(Lists, Nodes, Q)'
               /\ \A m \in Lists : \A x \in Nodes :
                    Within(x, Q[m]) <=> Within(x, q[m]) \/ (m = l /\ x = n)
  <2>1. Enqueue(l, n) /\ LinksTypeOK(Lists, Nodes) /\ Chains(Lists, Nodes, q)
    BY <1>1, <1>2
  <2>2. l \in Lists /\ n \in Nodes /\ Null \notin Nodes
    BY <1>2, NullNoNode
  <2>3. Joined(Lists, Nodes, q, l, n)
    BY <2>1, <2>2, <1>5, EnqueueQueue
  <2> QED
    BY <2>3 DEF Joined
<1>7. \A x \in Nodes : x \in Live' <=> x \in Live \/ x = n
  <2> SUFFICES ASSUME NEW x \in Nodes PROVE x \in Live' <=> x \in Live \/ x = n
    OBVIOUS
  <2>1. x[1] \in Procs /\ x = <<x[1], x[2]>>
    BY DEF Nodes
  <2>2. x[2] \in queued'[x[1]] <=> x[2] \in queued[x[1]] \/ (x[1] = p /\ x[2] = at[p])
    BY <1>1, <1>2, <2>1 DEF ControlTypeOK
  <2> QED
    BY <2>1, <2>2 DEF Live
<1>8. \A x \in Nodes : AltOf(x)' = AltOf(x)
  BY <1>1 DEF AltOf
<1>9. ListOf(AltOf(n)) = l
  BY <1>3 DEF AltOf, Alt
<1>10. Q \in [Lists -> Seq(Nodes)]
  BY <1>6 DEF Chains
<1>11. ASSUME NEW m \in Lists, NEW x \in Nodes, Within(x, Q[m])
       PROVE  x \in Live' /\ ListOf(AltOf(x)') = m
  BY <1>6, <1>7, <1>8, <1>9, <1>11 DEF Placed
<1>12. ASSUME NEW x \in Live', avail'[x[1]]
       PROVE  Within(x, Q[ListOf(AltOf(x)')])
  <2>1. x \in Nodes /\ AltOf(x)' = AltOf(x)
    BY <1>8 DEF Live
  <2>2. CASE x \in Live
    BY <1>1, <1>6, <1>12, <2>1, <2>2, LiveFacts DEF Placed
  <2>3. CASE x = n
    BY <1>2, <1>6, <1>9, <2>1, <2>3
  <2> QED
    BY <1>7, <2>1, <2>2, <2>3
<1>13. ASSUME NEW x \in Live', token'[x[1]] = x[2], NEW m \in Lists
       PROVE  ~Within(x, Q[m])
  <2>1. x \in Nodes /\ x # n /\ x \in Live
    BY <1>1, <1>3, <1>4, <1>7, <1>13 DEF Live
  <2> QED
    BY <1>1, <1>6, <1>13, <2>1 DEF Placed
<1>14. Placed(Q)'
  BY <1>11, <1>12, <1>13 DEF Placed
<1> QED
  BY <1>6, <1>10, <1>14 DEF Queues

\* clear_wait through reader_list() unlinks the nodes of reads, and a
\* selection that has more than one node has no other ones.
LEMMA ClearedIsOwn ==
  ASSUME IInv, NEW p \in Procs, token[p] # 0, NEW i \in ToClear(p)
  PROVE  ClearedThrough(Alts(p)[i]) = ListOf(Alts(p)[i])
<1>1. ControlOf(p) /\ SettledOf(p)
  BY IInvFacts
<1>2. i \in queued[p] /\ i # token[p]
  BY DEF ToClear
<1>a. i \in 1..Len(Alts(p)) /\ sel[p].wait
  BY <1>1, <1>2 DEF ControlOf
<1>b. token[p] \in 1..Len(Alts(p))
  BY <1>1 DEF SettledOf, RoomOf
<1>3. Len(Alts(p)) # 1
  <2> SUFFICES ASSUME Len(Alts(p)) = 1 PROVE i = 1 /\ token[p] = 1
    BY <1>2
  <2> QED
    BY <1>a, <1>b
<1>4. Alts(p)[i].kind = "read"
  BY <1>1, <1>a, <1>3 DEF SettledOf, Orderly, Alts
<1> QED
  BY <1>4 DEF ClearedThrough, ListOf

\* A step that unlinks a node through its list and ends its life.
LEMMA QueuesClear ==
  ASSUME IInv, UNCHANGED <<sel, avail, token>>,
         NEW n \in Live, NEW l \in Lists, l = ListOf(AltOf(n)), Dequeue(l, n),
         \A x \in Nodes : x \in Live' <=> x \in Live /\ x # n
  PROVE  Queues'
<1> PICK q \in [Lists -> Seq(Nodes)] : Chains(Lists, Nodes, q) /\ Placed(q)
  BY DEF IInv, Queues
<1>1. n \in Nodes /\ LinksTypeOK(Lists, Nodes)
  BY IInvFacts, LiveFacts DEF ControlTypeOK
<1>2. \A m \in Lists : Within(n, q[m]) => m = l
  BY <1>1 DEF Placed
<1>3. PICK Q : /\ Chains(Lists, Nodes, Q)'
               /\ \A m \in Lists : \A x \in Nodes :
                    Within(x, Q[m]) <=> Within(x, q[m]) /\ x # n
  <2>1. TakenOut(Lists, Nodes, q, n)
    BY <1>1, <1>2, NullNoNode, DequeueAnyway
  <2> QED
    BY <2>1 DEF TakenOut
<1> PICK Out : Out = {n}
  OBVIOUS
<1>4. \A m \in Lists : \A x \in Nodes : Within(x, Q[m]) <=> Within(x, q[m]) /\ x \notin Out
  BY <1>3
<1>a. \A x \in Live : x \in Nodes
  BY DEF Live
<1>b. \A x \in Live' : x \in Nodes
  BY DEF Live
<1>5. \A x \in Live : x \in Live' \/ x \in Out
  BY <1>a
<1>6. \A x \in Live' : x \in Live /\ x \notin Out
  BY <1>b
<1>7. \A x \in Live' : /\ x \in Live /\ AltOf(x)' = AltOf(x)
                       /\ avail'[x[1]] => avail[x[1]] /\ x \notin Out
                       /\ token'[x[1]] = x[2] => token[x[1]] = x[2] \/ x \in Out
  BY <1>6 DEF AltOf
<1>8. TakesOut(q, Q, Out)
  BY <1>3, <1>4, <1>5, <1>7 DEF TakesOut
<1> QED
  BY <1>8, PlacedStep

LEMMA ClearWaitQueues ==
  ASSUME IInv, NEW p \in Procs, ClearWait(p)
  PROVE  Queues'
<1> PICK i \in ToClear(p) :
       /\ Dequeue(ClearedThrough(Alts(p)[i]), <<p, i>>)
       /\ queued' = [queued EXCEPT ![p] = @ \ {i}]
  BY DEF ClearWait
<1> PICK n : n = <<p, i>>
  OBVIOUS
<1> PICK l : l = ClearedThrough(Alts(p)[i])
  OBVIOUS
<1>1. token[p] # 0 /\ UNCHANGED <<sel, avail, token>>
  BY DEF ClearWait
<1>2. i \in 1..MaxAlts /\ i \in queued[p] /\ ControlTypeOK
  BY IInvFacts DEF ToClear, ControlTypeOK
<1>3. n \in Nodes /\ n[1] = p /\ n[2] = i /\ n \in Live
  BY <1>2 DEF Nodes, Live
<1>4. l = ListOf(AltOf(n)) /\ l \in Lists
  <2>1. AltOf(n) = Alts(p)[i]
    BY <1>3 DEF AltOf, Alts
  <2> QED
    BY <1>1, <1>3, <2>1, ClearedIsOwn, LiveFacts
<1>5. \A x \in Nodes : x \in Live' <=> x \in Live /\ x # n
  <2> SUFFICES ASSUME NEW x \in Nodes PROVE x \in Live' <=> x \in Live /\ x # n
    OBVIOUS
  <2>1. x[1] \in Procs /\ x = <<x[1], x[2]>>
    BY DEF Nodes
  <2>2. x[2] \in queued'[x[1]] <=> x[2] \in queued[x[1]] /\ ~(x[1] = p /\ x[2] = i)
    BY <1>2, <2>1 DEF ControlTypeOK
  <2> QED
    BY <2>1, <2>2 DEF Live
<1>6. Dequeue(l, n)
  OBVIOUS
<1> QED
  BY <1>1, <1>3, <1>4, <1>5, <1>6, QueuesClear

LEMMA ReturnQueues ==
  ASSUME IInv, NEW p \in Procs, Return(p)
  PROVE  Queues'
<1> PICK q \in [Lists -> Seq(Nodes)] : Chains(Lists, Nodes, q) /\ Placed(q)
  BY DEF IInv, Queues
<1>1. /\ token[p] # 0 /\ ToClear(p) = {}
      /\ sel' = [sel EXCEPT ![p] = NoSelection]
      /\ avail' = [avail EXCEPT ![p] = FALSE]
      /\ token' = [token EXCEPT ![p] = 0]
      /\ queued' = [queued EXCEPT ![p] = {}]
      /\ UNCHANGED linkVars
  BY DEF Return
<1>2. ControlTypeOK
  BY IInvFacts
<1>3. Chains(Lists, Nodes, q)'
  BY <1>1 DEF Chains, Spells, linkVars
<1>4. ASSUME NEW x \in Live
      PROVE  x \in Live' \/ \A l \in Lists : ~Within(x, q[l])
  <2>1. x \in Nodes /\ x[1] \in Procs /\ x[2] \in queued[x[1]]
    BY LiveFacts
  <2>2. CASE x[1] = p
    BY <1>1, <2>1, <2>2 DEF Placed, ToClear
  <2>3. CASE x[1] # p
    BY <1>1, <1>2, <2>1, <2>3 DEF Live, ControlTypeOK
  <2> QED
    BY <2>2, <2>3
<1>5. ASSUME NEW x \in Live'
      PROVE  /\ x \in Live /\ AltOf(x)' = AltOf(x)
             /\ avail'[x[1]] => avail[x[1]]
             /\ token'[x[1]] = x[2] => token[x[1]] = x[2]
  <2>1. x \in Nodes /\ x[1] \in Procs /\ x[1] # p
    BY <1>1, <1>2 DEF Live, Nodes, ControlTypeOK
  <2> QED
    BY <1>1, <1>2, <2>1 DEF Live, AltOf, ControlTypeOK
<1> PICK Out : Out = {}
  OBVIOUS
<1>6. \A l \in Lists : \A x \in Nodes : Within(x, q[l]) <=> Within(x, q[l]) /\ x \notin Out
  OBVIOUS
<1>7. \A x \in Live' : /\ x \in Live /\ AltOf(x)' = AltOf(x)
                       /\ avail'[x[1]] => avail[x[1]] /\ x \notin Out
                       /\ token'[x[1]] = x[2] => token[x[1]] = x[2] \/ x \in Out
  BY <1>5
<1>8. TakesOut(q, q, Out)
  BY <1>3, <1>4, <1>6, <1>7 DEF TakesOut
<1> QED
  BY <1>8, PlacedStep

-----------------------------------------------------------------------------
(* IInv is inductive.                                                      *)

LEMMA InitQueues ==
  ASSUME Init
  PROVE  Queues
<1> PICK q : q = [l \in Lists |-> <<>>]
  OBVIOUS
<1>1. q \in [Lists -> Seq(Nodes)] /\ \A l \in Lists : q[l] = <<>> /\ Len(q[l]) = 0
  OBVIOUS
<1>2. LinksInit(Lists, Nodes)
  BY DEF Init
<1>3. \A l \in Lists : \A n : ~Within(n, q[l])
  BY <1>1 DEF Within
<1>4. Chains(Lists, Nodes, q)
  BY <1>1, <1>2 DEF Chains, Spells, LinksInit
<1>5. Live = {}
  BY DEF Live, Init, Nodes
<1>6. Placed(q)
  BY <1>3, <1>5 DEF Placed
<1> QED
  BY <1>1, <1>4, <1>6 DEF Queues

LEMMA InitIInv ==
  ASSUME Init
  PROVE  IInv
<1>1. ControlTypeOK /\ Control /\ Exclusion
  BY InitInv1 DEF Inv1
<1>2. DataTypeOK
  <2>1. \A c \in Channels : BuffSize[c] # Unbounded => 0 <= BuffSize[c]
    BY ChannelAssumption DEF ChannelAssumption
  <2> QED
    BY <2>1 DEF Init, DataTypeOK, EmptySlots
<1>3. Settled
  <2> SUFFICES ASSUME NEW p \in Procs PROVE SettledOf(p)
    BY DEF Settled
  <2>1. /\ sel[p] = NoSelection /\ pc[p] = "idle" /\ token[p] = 0 /\ slot[p] = EmptySlots
    BY DEF Init
  <2>2. Served(p) = 0
    BY <2>1 DEF Served
  <2>3. \A k \in Ops : Untouched(p, k)
    BY <2>1 DEF Untouched, EmptySlots, WritesInOp, NoSelection
  <2>4. MovedOnce(p)
    BY <2>2, <2>3 DEF MovedOnce, Moved
  <2> QED
    BY <2>1, <2>4 DEF SettledOf, RoomOf, ClaimableOf, Submitting, Critical, Orderly, NoSelection
<1> QED
  BY <1>1, <1>2, <1>3, InitQueues DEF IInv, TypeOK

LEMMA NextQueues ==
  ASSUME IInv, NEW p \in Procs, Begin(p) \/ Submit(p) \/ Complete(p)
  PROVE  Queues'
BY BeginQueues, OwnStepQueues, DropClaimedQueues, RefillQueues, MeetPeerQueues, ParkQueues,
   ResumeQueues, ClearWaitQueues, ReturnQueues
   DEF Submit, Complete

LEMMA NextIInv ==
  ASSUME OrderlyScript, IInv, [Next]_vars
  PROVE  IInv'
<1>1. Inv1'
  BY IInvFacts, NextInv1
<1>2. CASE UNCHANGED vars
  <2>1. DataTypeOK'
    BY <1>2, IInvFacts DEF DataTypeOK, vars, chanVars, procVars
  <2>2. Settled'
    <3>1. UNCHANGED <<buffer, pc, sel, at, round, token, avail, slot>>
      BY <1>2 DEF vars, chanVars, procVars
    <3>2. \A r \in Procs : SettledOf(r)'
      BY <3>1, IInvFacts, Bystander
    <3> QED
      BY <3>2 DEF Settled
  <2>3. Queues'
    <3>1. UNCHANGED <<linkVars, queued, sel, avail, token>>
      BY <1>2 DEF vars, procVars
    <3>2. \A x \in Live : AltOf(x)' = AltOf(x)
      BY <3>1 DEF AltOf
    <3> QED
      BY <3>1, <3>2, QueuesSame
  <2> QED
    BY <1>1, <2>1, <2>2, <2>3 DEF IInv, TypeOK, Inv1
<1>3. ASSUME NEW p \in Procs, Begin(p) \/ Submit(p) \/ Complete(p)
      PROVE  IInv'
  <2>1. DataTypeOK'
    BY <1>3, NextData
  <2>2. Settled'
    BY <1>3, NextSettled
  <2>3. Queues'
    BY <1>3, NextQueues
  <2> QED
    BY <1>1, <2>1, <2>2, <2>3 DEF IInv, TypeOK, Inv1
<1> QED
  BY <1>2, <1>3 DEF Next, Terminated

\* The invariant of select() holds for every orderly script: any number of
\* coroutines and channels, rounds and alternatives, and all buffer sizes.
THEOREM IInvHolds ==
  ASSUME OrderlyScript
  PROVE  Spec => []IInv
<1>1. Init => IInv
  BY InitIInv
<1>2. IInv /\ [Next]_vars => IInv'
  BY NextIInv
<1> QED
  BY <1>1, <1>2, PTL DEF Spec

-----------------------------------------------------------------------------
(* What follows from it.                                                   *)

\* Types, and no buffer beyond its size: the full() of channel_buffer and the
\* room a refilling read relies on keep every push within buff_size.
THEOREM TypeCorrect ==
  ASSUME OrderlyScript
  PROVE  Spec => []TypeOK
<1>1. IInv => TypeOK
  BY DEF IInv
<1> QED
  BY <1>1, IInvHolds, PTL

\* A select moves one value, through one of its operations: whatever has been
\* matched, claimed or dropped, and by whom, the others are as they were
\* constructed.
THEOREM SelectsOne ==
  ASSUME OrderlyScript
  PROVE  Spec => []OneAlternative
<1>1. IInv => OneAlternative
  BY DEF IInv, Settled, SettledOf, MovedOnce, OneAlternative
<1> QED
  BY <1>1, IInvHolds, PTL

\* No list and no live node points into the frame of a select that returned.
THEOREM PointersLive ==
  ASSUME OrderlyScript
  PROVE  Spec => []NoDanglingPointer
<1>1. ASSUME IInv
      PROVE  NoDanglingPointer
  <2> PICK q \in [Lists -> Seq(Nodes)] : Chains(Lists, Nodes, q) /\ Placed(q)
    BY <1>1 DEF IInv, Queues
  <2>1. \A x \in Nodes : \A l \in Lists : Within(x, q[l]) => x \in Live
    BY DEF Placed
  <2>2. ASSUME NEW l \in Lists, NEW x \in {first[l], last[l]}
        PROVE  x \in Live \cup {Null}
    BY <2>1, PointersWithin
  <2>3. ASSUME NEW n \in Live, NEW x \in {prev[n], next[n]}
        PROVE  x \in Live \cup {Null}
    <3>1. n \in Nodes
      BY DEF Live
    <3> QED
      BY <2>1, <3>1, PointersWithin
  <2> QED
    BY <2>2, <2>3 DEF NoDanglingPointer
<1> QED
  BY <1>1, IInvHolds, PTL

LEMMA LiveAsserts ==
  ASSUME IInv, NEW n \in Live
  PROVE  DequeueAsserts(ListOf(AltOf(n)), n)
<1> PICK q \in [Lists -> Seq(Nodes)] : Chains(Lists, Nodes, q) /\ Placed(q)
  BY DEF IInv, Queues
<1>1. n \in Nodes /\ ListOf(AltOf(n)) \in Lists
  BY LiveFacts
<1>2. \A m \in Lists : Within(n, q[m]) => m = ListOf(AltOf(n))
  BY <1>1 DEF Placed
<1> QED
  BY <1>1, <1>2, NullNoNode, DequeueAssertsHold

\* The assertions of channel_waiter_list::dequeue never fail.
THEOREM DequeueSafe ==
  ASSUME OrderlyScript
  PROVE  Spec => []DequeueAssertions
<1>1. ASSUME IInv
      PROVE  DequeueAssertions
  <2> SUFFICES ASSUME NEW p \in Procs, token[p] # 0, NEW i \in ToClear(p)
               PROVE  DequeueAsserts(ClearedThrough(Alts(p)[i]), <<p, i>>)
    BY DEF DequeueAssertions
  <2>1. i \in 1..MaxAlts /\ i \in queued[p]
    BY <1>1, IInvFacts DEF ToClear, ControlTypeOK
  <2>2. <<p, i>> \in Live /\ AltOf(<<p, i>>) = Alts(p)[i]
    BY <2>1 DEF Nodes, Live, AltOf, Alts
  <2>3. ClearedThrough(Alts(p)[i]) = ListOf(AltOf(<<p, i>>))
    BY <1>1, <2>2, ClearedIsOwn
  <2> QED
    BY <1>1, <2>2, <2>3, LiveAsserts
<1> QED
  BY <1>1, IInvHolds, PTL

\* Nobody meets himself: where p waits already, it looks for other peers.
LEMMA NotOneself ==
  ASSUME IInv, NEW p \in Procs, pc[p] = "scan", First(p) # Null
  PROVE  sel[p].wait => First(p)[1] # p
<1> SUFFICES ASSUME sel[p].wait, First(p)[1] = p PROVE FALSE
  OBVIOUS
<1> PICK n, l : n = First(p) /\ l = PeerList(Alt(p))
  OBVIOUS
<1>0. Inv1 /\ SettledOf(p) /\ ControlOf(p)
  BY IInvFacts
<1>1. /\ at[p] \in 1..Len(Alts(p)) /\ sel[p] \in SelectionsOfChannels
      /\ Alt(p).kind \in {"read", "write"} /\ l \in Lists
  BY <1>0, CriticalFacts DEF Critical
<1>2. n = first[l] /\ n # Null
  BY DEF First
<1>3. n \in Live /\ ListOf(AltOf(n)) = l
  BY <1>1, <1>2, FirstLive
<1> PICK i : i = n[2]
  OBVIOUS
<1>4. i \in queued[p] /\ AltOf(n) = Alts(p)[i]
  BY <1>3 DEF Live, AltOf, Alts
<1>5. i \in 1..Len(Alts(p)) /\ i < at[p]
  BY <1>0, <1>4 DEF ControlOf, Submitting, Critical
<1>6. Alts(p)[i].kind # Alt(p).kind
  BY <1>3, <1>4 DEF PeerList, ListOf, ReaderList, WriterList
<1>7. Len(Alts(p)) # 1
  <2> SUFFICES ASSUME Len(Alts(p)) = 1 PROVE FALSE
    OBVIOUS
  <2>1. at[p] \in 1..1 /\ i \in 1..1 /\ i < at[p]
    BY <1>1, <1>5
  <2> QED
    BY ONLY <2>1
<1>8. Alts(p)[i].kind = "read" /\ Alt(p).kind = "read"
  BY <1>0, <1>1, <1>5, <1>7 DEF SettledOf, Orderly, Alts, Alt
<1> QED
  BY <1>6, <1>8

\* Whoever is inside a channel can take a step, so that who waits for a mutex
\* does not wait for somebody who is stuck with it.
THEOREM NoneStuck ==
  ASSUME OrderlyScript
  PROVE  Spec => []NobodyStuck
<1>1. ASSUME IInv, Held
      PROVE  NobodyStuck
  <2> SUFFICES ASSUME NEW c \in Channels, owner[c] # Null PROVE GoesOn(owner[c])
    BY <1>1 DEF NobodyStuck
  <2> PICK p : p = owner[c]
    OBVIOUS
  <2>1. p \in Procs /\ pc[p] \in {"buffer", "scan", "refill"}
    BY <1>1, IInvFacts DEF ControlTypeOK, Held, HeldOf, Critical
  <2>2. CASE pc[p] = "buffer"
    BY <2>2 DEF GoesOn, Unserved
  <2>3. CASE pc[p] = "refill"
    BY <2>3 DEF GoesOn, BothContextsLocked, WithOwnContext
  <2>4. CASE pc[p] = "scan"
    <3>1. First(p) # Null => BothContextsLocked(p)
      BY <1>1, <2>1, <2>4, NotOneself DEF BothContextsLocked, WithOwnContext
    <3> QED
      BY <2>1, <2>4, <3>1, IInvFacts
         DEF GoesOn, NoPeer, Unserved, CallerAvailable, ControlTypeOK
  <2> QED
    BY <2>1, <2>2, <2>3, <2>4
<1> QED
  BY <1>1, IInvHolds, HeldHolds, PTL

=============================================================================
