----------------------- MODULE SelectRefinementProofs -----------------------
(***************************************************************************)
(* Select implements AtomicSelect, for orderly scripts.  First the order   *)
(* in which coroutines wait, then one lemma per action: the attempt it     *)
(* makes, or that it makes none.                                           *)
(***************************************************************************)
EXTENDS SelectDeliveryProofs, SelectRefinement

-----------------------------------------------------------------------------
(* The order of the queues.                                                *)

\* m stands before n in one of the queues q.
Before(q, m, n) ==
  \E l \in Lists : \E i, j \in 1..Len(q[l]) : i < j /\ q[l][i] = m /\ q[l][j] = n

\* Ahead is the order of the queues the pointers stand for.
AheadQueued ==
  \A q \in [Lists -> Seq(Nodes)] : Chains(Lists, Nodes, q) =>
    Ahead = {e \in Claimable \X Claimable : Before(q, e[1], e[2])}

LEMMA AheadIsQueued ==
  ASSUME IInv
  PROVE  AheadQueued
<1> SUFFICES ASSUME NEW q \in [Lists -> Seq(Nodes)], Chains(Lists, Nodes, q)
             PROVE  Ahead = {e \in Claimable \X Claimable : Before(q, e[1], e[2])}
  BY DEF AheadQueued
<1>1. \A l \in Lists : Forward(l) = q[l]
  <2>1. LinksTypeOK(Lists, Nodes)
    BY IInvFacts DEF ControlTypeOK
  <2> QED
    BY <2>1, NodesFinite, NullNoNode, ForwardIsQueue
<1>2. \A l \in Lists : q[l] \in Seq(Nodes) /\ DOMAIN q[l] = 1..Len(q[l])
  OBVIOUS
<1>3. ASSUME NEW l \in Lists, NEW e
      PROVE  e \in MetInOrder(l) <=>
               \E i, j \in 1..Len(q[l]) : i < j /\ e = <<q[l][i], q[l][j]>>
  <2>1. e \in MetInOrder(l) <=>
          \E k \in (1..Len(q[l])) \X (1..Len(q[l])) :
            k[1] < k[2] /\ e = <<q[l][k[1]], q[l][k[2]]>>
    BY <1>1, <1>2 DEF MetInOrder
  <2>2. ASSUME NEW k \in (1..Len(q[l])) \X (1..Len(q[l])), k[1] < k[2],
               e = <<q[l][k[1]], q[l][k[2]]>>
        PROVE  \E i, j \in 1..Len(q[l]) : i < j /\ e = <<q[l][i], q[l][j]>>
    BY <2>2
  <2>3. ASSUME NEW i \in 1..Len(q[l]), NEW j \in 1..Len(q[l]), i < j,
               e = <<q[l][i], q[l][j]>>
        PROVE  \E k \in (1..Len(q[l])) \X (1..Len(q[l])) :
                 k[1] < k[2] /\ e = <<q[l][k[1]], q[l][k[2]]>>
    <3> PICK k : k = <<i, j>>
      OBVIOUS
    <3>1. k \in (1..Len(q[l])) \X (1..Len(q[l])) /\ k[1] = i /\ k[2] = j
      OBVIOUS
    <3> QED
      BY <2>3, <3>1
  <2> QED
    BY <2>1, <2>2, <2>3
<1>4. ASSUME NEW e \in Claimable \X Claimable
      PROVE  (\E l \in Lists : e \in MetInOrder(l)) <=> Before(q, e[1], e[2])
  <2>1. e = <<e[1], e[2]>>
    OBVIOUS
  <2> QED
    BY <1>3, <2>1 DEF Before
<1>5. \A e : e \in Ahead <=>
        e \in Claimable \X Claimable /\ \E l \in Lists : e \in MetInOrder(l)
  BY DEF Ahead
<1> QED
  BY <1>4, <1>5

\* Those that can still be claimed after the step stand as they did before it.
OrderKept ==
  \E q, Q \in [Lists -> Seq(Nodes)] :
    /\ Chains(Lists, Nodes, q) /\ Chains(Lists, Nodes, Q)'
    /\ \A m, n \in Claimable' : Before(Q, m, n) <=> Before(q, m, n)

LEMMA AheadShrinks ==
  ASSUME AheadQueued, AheadQueued', OrderKept, Claimable' \subseteq Claimable
  PROVE  Ahead' = {e \in Ahead : e[1] \in Claimable' /\ e[2] \in Claimable'}
<1> PICK q \in [Lists -> Seq(Nodes)], Q \in [Lists -> Seq(Nodes)] :
       /\ Chains(Lists, Nodes, q) /\ Chains(Lists, Nodes, Q)'
       /\ \A m, n \in Claimable' : Before(Q, m, n) <=> Before(q, m, n)
  BY DEF OrderKept
<1>1. Ahead = {e \in Claimable \X Claimable : Before(q, e[1], e[2])}
  BY DEF AheadQueued
<1>2. Ahead' = {e \in Claimable' \X Claimable' : Before(Q, e[1], e[2])}
  BY DEF AheadQueued, Before
<1> QED
  BY <1>1, <1>2

LEMMA LinksSame ==
  ASSUME IInv, UNCHANGED linkVars
  PROVE  OrderKept
<1> PICK q \in [Lists -> Seq(Nodes)] : Chains(Lists, Nodes, q)
  BY DEF IInv, Queues
<1>1. Chains(Lists, Nodes, q)'
  BY DEF Chains, Spells, linkVars
<1> QED
  BY <1>1 DEF OrderKept

\* A node is taken out: the others stand as they did.
LEMMA TakenOutOrder ==
  ASSUME NEW q \in [Lists -> Seq(Nodes)], Chains(Lists, Nodes, q),
         NEW l \in Lists, NEW k \in 1..Len(q[l]),
         NEW m, m # q[l][k], NEW n, n # q[l][k]
  PROVE  Before([q EXCEPT ![l] = Without(q[l], k)], m, n) <=> Before(q, m, n)
<1> PICK Q : Q = [q EXCEPT ![l] = Without(q[l], k)]
  OBVIOUS
<1> PICK s : s = q[l]
  OBVIOUS
<1> PICK t : t = Without(s, k)
  OBVIOUS
<1>1. s \in Seq(Nodes) /\ Len(s) \in Nat /\ k \in 1..Len(s) /\ k \in Nat
  OBVIOUS
<1>2. /\ Len(t) = Len(s) - 1
      /\ \A i \in 1..Len(t) : t[i] = IF i < k THEN s[i] ELSE s[i + 1]
  BY <1>1, WithoutIsSeq
<1>3. Q[l] = t /\ \A g \in Lists : g # l => Q[g] = q[g]
  OBVIOUS
<1>4. (\E i, j \in 1..Len(t) : i < j /\ t[i] = m /\ t[j] = n)
        <=> (\E i, j \in 1..Len(s) : i < j /\ s[i] = m /\ s[j] = n)
  <2>1. ASSUME NEW i \in 1..Len(t), NEW j \in 1..Len(t), i < j, t[i] = m, t[j] = n
        PROVE  \E a, b \in 1..Len(s) : a < b /\ s[a] = m /\ s[b] = n
    <3> PICK a : a = IF i < k THEN i ELSE i + 1
      OBVIOUS
    <3> PICK b : b = IF j < k THEN j ELSE j + 1
      OBVIOUS
    <3>1. a \in 1..Len(s) /\ b \in 1..Len(s) /\ a < b
      BY <1>1, <1>2, <2>1
    <3>2. s[a] = m /\ s[b] = n
      BY <1>2, <2>1
    <3> QED
      BY <3>1, <3>2
  <2>2. ASSUME NEW i \in 1..Len(s), NEW j \in 1..Len(s), i < j, s[i] = m, s[j] = n
        PROVE  \E a, b \in 1..Len(t) : a < b /\ t[a] = m /\ t[b] = n
    <3> PICK a : a = IF i < k THEN i ELSE i - 1
      OBVIOUS
    <3> PICK b : b = IF j < k THEN j ELSE j - 1
      OBVIOUS
    <3>1. i # k /\ j # k
      BY <2>2
    <3>2. a \in 1..Len(t) /\ b \in 1..Len(t) /\ a < b
      BY <1>1, <1>2, <2>2, <3>1
    <3>3. t[a] = s[i] /\ t[b] = s[j]
      <4>1. t[a] = IF a < k THEN s[a] ELSE s[a + 1]
        BY <1>2, <3>2
      <4>2. t[b] = IF b < k THEN s[b] ELSE s[b + 1]
        BY <1>2, <3>2
      <4>3. CASE i < k
        BY <1>1, <4>1, <4>2, <4>3, <3>1
      <4>4. CASE ~(i < k)
        BY <1>1, <4>1, <4>2, <4>4, <3>1
      <4> QED
        BY <4>3, <4>4
    <3> QED
      BY <2>2, <3>2, <3>3
  <2> QED
    BY <2>1, <2>2
<1>5. Before(Q, m, n)
        <=> \/ \E g \in Lists \ {l} :
                 \E i, j \in 1..Len(q[g]) : i < j /\ q[g][i] = m /\ q[g][j] = n
            \/ \E i, j \in 1..Len(t) : i < j /\ t[i] = m /\ t[j] = n
  BY <1>3 DEF Before
<1>6. Before(q, m, n)
        <=> \/ \E g \in Lists \ {l} :
                 \E i, j \in 1..Len(q[g]) : i < j /\ q[g][i] = m /\ q[g][j] = n
            \/ \E i, j \in 1..Len(s) : i < j /\ s[i] = m /\ s[j] = n
  BY DEF Before
<1> QED
  BY <1>4, <1>5, <1>6

LEMMA PopKeeps ==
  ASSUME IInv, NEW l \in Lists, first[l] # Null, PopFirst(l), first[l] \notin Claimable'
  PROVE  OrderKept
<1> PICK q \in [Lists -> Seq(Nodes)] : Chains(Lists, Nodes, q)
  BY DEF IInv, Queues
<1> DEFINE Q == [q EXCEPT ![l] = Without(q[l], 1)]
<1>1. LinksTypeOK(Lists, Nodes)
  BY IInvFacts DEF ControlTypeOK
<1>2. q[l] # <<>> /\ first[l] = q[l][1] /\ Chains(Lists, Nodes, Q)'
  <2>1. q[l] # <<>> /\ first[l] = q[l][1]
    BY DEF Chains, Spells
  <2>2. Chains(Lists, Nodes, Q)'
    BY <1>1, NullNoNode, PopFirstChains
  <2> QED
    BY <2>1, <2>2
<1>3. 1 \in 1..Len(q[l]) /\ \A m \in Claimable' : m # q[l][1]
  BY <1>2, EmptyLen
<1> HIDE DEF Q
<1>4. \A m, n \in Claimable' : Before(Q, m, n) <=> Before(q, m, n)
  BY <1>3, TakenOutOrder DEF Q
<1>5. Q \in [Lists -> Seq(Nodes)]
  BY <1>2 DEF Chains
<1> QED
  BY <1>2, <1>4, <1>5 DEF OrderKept

LEMMA DequeueKeeps ==
  ASSUME IInv, NEW n \in Live, NEW l \in Lists, l = ListOf(AltOf(n)), Dequeue(l, n),
         n \notin Claimable'
  PROVE  OrderKept
<1> PICK q \in [Lists -> Seq(Nodes)] : Chains(Lists, Nodes, q) /\ Placed(q)
  BY DEF IInv, Queues
<1>1. LinksTypeOK(Lists, Nodes) /\ n \in Nodes
  BY IInvFacts, LiveFacts DEF ControlTypeOK
<1>2. CASE Within(n, q[l])
  <2> PICK k \in 1..Len(q[l]) : q[l][k] = n
    BY <1>2 DEF Within
  <2> DEFINE Q == [q EXCEPT ![l] = Without(q[l], k)]
  <2>1. Chains(Lists, Nodes, Q)'
    BY <1>1, NullNoNode, DequeueChains
  <2>2. \A x \in Claimable' : x # q[l][k]
    OBVIOUS
  <2> HIDE DEF Q
  <2>4. \A x, y \in Claimable' : Before(Q, x, y) <=> Before(q, x, y)
    BY <2>2, TakenOutOrder DEF Q
  <2>3. Q \in [Lists -> Seq(Nodes)]
    BY <2>1 DEF Chains
  <2> QED
    BY <2>1, <2>3, <2>4 DEF OrderKept
<1>3. CASE ~Within(n, q[l])
  <2>1. \A m \in Lists : ~Within(n, q[m])
    BY <1>1, <1>3 DEF Placed
  <2>2. UNCHANGED linkVars
    BY <1>1, <2>1, NullNoNode, DequeueUnlinked
  <2> QED
    BY <2>2, LinksSame
<1> QED
  BY <1>2, <1>3

\* A node is enqueued: it stands behind those of its list.
LEMMA AppendedOrder ==
  ASSUME NEW q \in [Lists -> Seq(Nodes)], NEW l \in Lists, NEW x,
         \A g \in Lists : ~Within(x, q[g]),
         NEW m, NEW n
  PROVE  Before([q EXCEPT ![l] = Append(q[l], x)], m, n)
           <=> Before(q, m, n) \/ (n = x /\ Within(m, q[l]))
<1> PICK Q : Q = [q EXCEPT ![l] = Append(q[l], x)]
  OBVIOUS
<1> PICK s : s = q[l]
  OBVIOUS
<1> PICK t : t = Append(s, x)
  OBVIOUS
<1>1. /\ s \in Seq(Nodes) /\ Len(s) \in Nat /\ Len(t) = Len(s) + 1
      /\ \A i \in 1..Len(t) : t[i] = IF i <= Len(s) THEN s[i] ELSE x
  OBVIOUS
<1>2. Q[l] = t /\ \A g \in Lists : g # l => Q[g] = q[g]
  OBVIOUS
<1>3. \A i \in 1..Len(s) : s[i] # x
  BY DEF Within
<1>4. (\E i, j \in 1..Len(t) : i < j /\ t[i] = m /\ t[j] = n)
        <=> \/ \E i, j \in 1..Len(s) : i < j /\ s[i] = m /\ s[j] = n
            \/ n = x /\ Within(m, s)
  <2>1. ASSUME NEW i \in 1..Len(t), NEW j \in 1..Len(t), i < j, t[i] = m, t[j] = n
        PROVE  \/ \E a, b \in 1..Len(s) : a < b /\ s[a] = m /\ s[b] = n
               \/ n = x /\ Within(m, s)
    <3>1. i \in 1..Len(s) /\ s[i] = m
      BY <1>1, <2>1
    <3>2. CASE j \in 1..Len(s)
      BY <1>1, <2>1, <3>1, <3>2
    <3>3. CASE j \notin 1..Len(s)
      <4>1. t[j] = x
        BY <1>1, <3>3
      <4> QED
        BY <2>1, <3>1, <4>1 DEF Within
    <3> QED
      BY <3>2, <3>3
  <2>2. ASSUME NEW i \in 1..Len(s), NEW j \in 1..Len(s), i < j, s[i] = m, s[j] = n
        PROVE  \E a, b \in 1..Len(t) : a < b /\ t[a] = m /\ t[b] = n
    BY <1>1, <2>2
  <2>3. ASSUME n = x, Within(m, s)
        PROVE  \E a, b \in 1..Len(t) : a < b /\ t[a] = m /\ t[b] = n
    <3> PICK a \in 1..Len(s) : s[a] = m
      BY <2>3 DEF Within
    <3> PICK b : b = Len(s) + 1
      OBVIOUS
    <3>1. a \in 1..Len(t) /\ b \in 1..Len(t) /\ a < b /\ t[a] = m /\ t[b] = x
      BY <1>1
    <3> QED
      BY <2>3, <3>1
  <2> QED
    BY <2>1, <2>2, <2>3
<1>5. Before(Q, m, n)
        <=> \/ \E g \in Lists \ {l} :
                 \E i, j \in 1..Len(q[g]) : i < j /\ q[g][i] = m /\ q[g][j] = n
            \/ \E i, j \in 1..Len(t) : i < j /\ t[i] = m /\ t[j] = n
  BY <1>2 DEF Before
<1>6. Before(q, m, n)
        <=> \/ \E g \in Lists \ {l} :
                 \E i, j \in 1..Len(q[g]) : i < j /\ q[g][i] = m /\ q[g][j] = n
            \/ \E i, j \in 1..Len(s) : i < j /\ s[i] = m /\ s[j] = n
  BY DEF Before
<1> QED
  BY <1>4, <1>5, <1>6

-----------------------------------------------------------------------------
(* What AtomicSelect sees of a coroutine.                                  *)

\* Where r is in its selection is where it was.
Quiet(r) == Served(r)' = Served(r) /\ Tried(r)' = Tried(r) /\ Got(r)' = Got(r)

\* Alternative i of r has taken effect, and v is what r received.
ServedBy(r, i, v) == Served(r)' = i /\ Tried(r)' = 0 /\ Got(r)' = v

LEMMA Unnoticed ==
  ASSUME NEW r, Still(r), token'[r] = token[r], slot'[r] = slot[r]
  PROVE  Quiet(r)
<1>1. Served(r)' = Served(r) /\ Alts(r)' = Alts(r)
  BY DEF Still, Served, Alts
<1> QED
  BY <1>1 DEF Quiet, Still, Tried, Got, Received

LEMMA SameGot ==
  ASSUME NEW r, Served(r)' = Served(r), sel'[r] = sel[r], slot'[r] = slot[r]
  PROVE  Got(r)' = Got(r)
<1>1. Alts(r)' = Alts(r)
  BY DEF Alts
<1> QED
  BY <1>1 DEF Got, Received

LEMMA TakesEffect ==
  ASSUME NEW r, NEW i \in Nat \ {0}, Served(r)' = i, sel'[r] = sel[r], NEW v,
         IF Alts(r)[i].kind = "read" THEN slot'[r][Alts(r)[i].op] = v ELSE v = Null
  PROVE  ServedBy(r, i, v)
<1>1. Alts(r)' = Alts(r)
  BY DEF Alts
<1> QED
  BY <1>1 DEF ServedBy, Tried, Got, Received

-----------------------------------------------------------------------------
(* From there to the actions of AtomicSelect.                              *)

\* Both modules say the same of selections and of the lists of a channel.
LEMMA SameSelections ==
  /\ Atomic!NoSelection = NoSelection
  /\ \A c : Atomic!WriterList(c) = WriterList(c)
  /\ \A a : Atomic!ListOf(a) = ListOf(a) /\ Atomic!PeerList(a) = PeerList(a)
BY DEF Atomic!NoSelection, NoSelection, Atomic!ListOf, Atomic!PeerList, Atomic!ReaderList,
       Atomic!WriterList, ListOf, PeerList, ReaderList, WriterList

LEMMA AheadStays ==
  ASSUME AheadQueued, AheadQueued', OrderKept, Claimable' = Claimable
  PROVE  Ahead' = Ahead
<1>1. Ahead' = {e \in Ahead : e[1] \in Claimable' /\ e[2] \in Claimable'}
  BY AheadShrinks
<1>2. \A e \in Ahead : e[1] \in Claimable /\ e[2] \in Claimable
  BY DEF Ahead
<1> QED
  BY <1>1, <1>2

LEMMA NothingHappens ==
  ASSUME AheadQueued, AheadQueued', OrderKept, Claimable' = Claimable,
         \A r \in Procs : Quiet(r), UNCHANGED <<round, sel, buffer, results>>
  PROVE  UNCHANGED Atomic!vars
<1>1. Ahead' = Ahead
  BY AheadStays
<1>2. \A r \in Procs : Served(r)' = Served(r) /\ Tried(r)' = Tried(r) /\ Got(r)' = Got(r)
  BY DEF Quiet
<1>3. /\ [r \in Procs |-> Served(r)]' = [r \in Procs |-> Served(r)]
      /\ [r \in Procs |-> Tried(r)]' = [r \in Procs |-> Tried(r)]
      /\ [r \in Procs |-> Got(r)]' = [r \in Procs |-> Got(r)]
  BY <1>2
<1> QED
  BY <1>1, <1>3 DEF Atomic!vars

\* ps is who is served by the step.
LEMMA WhoWithdraws ==
  ASSUME AheadQueued, AheadQueued', OrderKept,
         NEW ps, Claimable' = {m \in Claimable : m[1] \notin ps}
  PROVE  Atomic!Withdraw(ps)
<1>1. Ahead' = {e \in Ahead : e[1] \in Claimable' /\ e[2] \in Claimable'}
  BY AheadShrinks
<1>2. \A e \in Ahead : e[1] \in Claimable /\ e[2] \in Claimable
  BY DEF Ahead
<1>3. Ahead' = {e \in Ahead : e[1][1] \notin ps /\ e[2][1] \notin ps}
  BY <1>1, <1>2
<1> QED
  BY <1>3 DEF Atomic!Withdraw

LEMMA OneIsServed ==
  ASSUME AheadQueued, AheadQueued', OrderKept,
         NEW p \in Procs, NEW i, NEW v, ServedBy(p, i, v),
         \A r \in Procs \ {p} : Quiet(r),
         Claimable' = {m \in Claimable : m[1] # p}
  PROVE  Atomic!Serve(<<p, i>>, v)
<1> PICK n : n = <<p, i>>
  OBVIOUS
<1>1. n[1] = p /\ n[2] = i
  OBVIOUS
<1>2. Atomic!Withdraw({n[1]})
  <2>1. Claimable' = {m \in Claimable : m[1] \notin {n[1]}}
    BY <1>1
  <2> QED
    BY <2>1, WhoWithdraws
<1>3. [r \in Procs |-> Served(r)]' = [[r \in Procs |-> Served(r)] EXCEPT ![n[1]] = n[2]]
  BY <1>1 DEF ServedBy, Quiet
<1>4. [r \in Procs |-> Got(r)]' = [[r \in Procs |-> Got(r)] EXCEPT ![n[1]] = v]
  BY <1>1 DEF ServedBy, Quiet
<1>5. [r \in Procs |-> Tried(r)]' = [[r \in Procs |-> Tried(r)] EXCEPT ![n[1]] = 0]
  BY <1>1 DEF ServedBy, Quiet
<1>6. Atomic!Serve(n, v)
  BY <1>2, <1>3, <1>4, <1>5 DEF Atomic!Serve
<1> QED
  BY <1>6

LEMMA TwoAreServed ==
  ASSUME AheadQueued, AheadQueued', OrderKept,
         NEW p \in Procs, NEW i, NEW u, ServedBy(p, i, u),
         NEW n, n[1] \in Procs, n[1] # p, NEW v, ServedBy(n[1], n[2], v),
         \A r \in Procs \ {p, n[1]} : Quiet(r),
         Claimable' = {m \in Claimable : m[1] \notin {p, n[1]}}
  PROVE  Atomic!ServeBoth(<<p, i>>, u, n, v)
<1> PICK m : m = <<p, i>>
  OBVIOUS
<1> PICK q \in Procs : q = n[1]
  OBVIOUS
<1>1. m[1] = p /\ m[2] = i
  OBVIOUS
<1>2. Atomic!Withdraw({m[1], n[1]})
  <2>1. Claimable' = {x \in Claimable : x[1] \notin {m[1], n[1]}}
    BY <1>1
  <2> QED
    BY <2>1, WhoWithdraws
<1>3. [r \in Procs |-> Served(r)]' =
        [[r \in Procs |-> Served(r)] EXCEPT ![m[1]] = m[2], ![n[1]] = n[2]]
  BY <1>1 DEF ServedBy, Quiet
<1>4. [r \in Procs |-> Got(r)]' = [[r \in Procs |-> Got(r)] EXCEPT ![m[1]] = u, ![n[1]] = v]
  BY <1>1 DEF ServedBy, Quiet
<1>5. [r \in Procs |-> Tried(r)]' =
        [[r \in Procs |-> Tried(r)] EXCEPT ![m[1]] = 0, ![n[1]] = 0]
  BY <1>1 DEF ServedBy, Quiet
<1>6. Atomic!ServeBoth(m, u, n, v)
  BY <1>2, <1>3, <1>4, <1>5 DEF Atomic!ServeBoth
<1> QED
  BY <1>6

\* Whoever can be claimed at an end of a channel waits there.
LEMMA WaitsThere ==
  ASSUME IInv, NEW c
  PROVE  /\ Atomic!WaitingIn(ReaderList(c)) = Waiting("read", c)
         /\ Atomic!WaitingIn(WriterList(c)) = Waiting("write", c)
<1>1. ASSUME NEW n \in Claimable
      PROVE  /\ n \in Nodes /\ n[2] \in queued[n[1]] /\ avail[n[1]]
             /\ ListOf(AltOf(n)) = ReaderList(c) <=> AltOf(n).kind = "read" /\ AltOf(n).chan = c
             /\ ListOf(AltOf(n)) = WriterList(c) <=> AltOf(n).kind = "write" /\ AltOf(n).chan = c
  <2>1. n \in Live /\ avail[n[1]]
    BY DEF Claimable
  <2> QED
    BY <2>1, LiveFacts DEF ListOf, ReaderList, WriterList
<1>2. \A k : \A n \in Waiting(k, c) : n \in Claimable
  BY DEF Waiting, Claimable, Live
<1>3. /\ Atomic!WaitingIn(ReaderList(c)) = {n \in Claimable : ListOf(AltOf(n)) = ReaderList(c)}
      /\ Atomic!WaitingIn(WriterList(c)) = {n \in Claimable : ListOf(AltOf(n)) = WriterList(c)}
  BY SameSelections DEF Atomic!WaitingIn, Atomic!AltOf, AltOf
<1> QED
  BY <1>1, <1>2, <1>3 DEF Waiting

\* The alternative p attempts is the one it submits.
LEMMA Attempting ==
  ASSUME WInv, NEW p \in Procs, pc[p] \in {"buffer", "scan"}, Served(p) = 0
  PROVE  /\ Atomic!Turn(p) = <<p, at[p]>> /\ Atomic!Alt(p) = Alt(p) /\ Alt(p) = Alts(p)[at[p]]
         /\ Tried(p) = at[p] - 1
         /\ at[p] \in 1..Len(Alts(p)) /\ at[p] \in Nat \ {0}
         /\ Alt(p).kind \in {"read", "write"} /\ Chan(p) \in Channels
         /\ Waiting("write", Chan(p)) # {} => Full(Chan(p))
         /\ Waiting("read", Chan(p)) # {} => Empty(Chan(p)) /\ Waiting("write", Chan(p)) = {}
         /\ Atomic!Attempts(p)
<1>1. /\ IInv /\ pc[p] \in Critical /\ at[p] \in 1..Len(Alts(p)) /\ at[p] \in Nat \ {0}
      /\ Alt(p).kind \in {"read", "write"} /\ Chan(p) \in Channels
  BY IInvFacts, CriticalFacts DEF WInv, Critical
<1>2. Tried(p) = at[p] - 1
  BY DEF Tried
<1>3. Atomic!Turn(p) = <<p, at[p]>>
  BY <1>1, <1>2 DEF Atomic!Turn
<1>4. Atomic!Alt(p) = Alt(p) /\ Alt(p) = Alts(p)[at[p]]
  BY <1>3 DEF Atomic!Alt, Atomic!AltOf, Alt, Alts
<1>5. ~Refilling(Chan(p))
  BY <1>1, OwnerAlone DEF Refilling, Critical
<1>6. MetOf(Chan(p))
  BY <1>1 DEF WInv, Met
<1>7. /\ Waiting("write", Chan(p)) # {} => Full(Chan(p))
      /\ Waiting("read", Chan(p)) # {} => Empty(Chan(p)) /\ Waiting("write", Chan(p)) = {}
  BY <1>5, <1>6 DEF MetOf
<1>8. Atomic!Restocked(Chan(p))
  BY <1>1, <1>7, WaitsThere, SameSelections DEF Atomic!Restocked, Atomic!Full, Full
<1>9. Atomic!Attempts(p)
  BY <1>1, <1>2, <1>4, <1>8 DEF Atomic!Attempts, Atomic!Alts, Alts, Chan
<1> QED
  BY <1>1, <1>2, <1>3, <1>4, <1>7, <1>9

\* What CanMeet, CanTake and CanStore say of it.
LEMMA Chances ==
  ASSUME WInv, NEW p \in Procs, pc[p] \in {"buffer", "scan"}, Served(p) = 0
  PROVE  /\ Atomic!CanMeet(p) <=>
              /\ Waiting(PeerKind(p), Chan(p)) # {}
              /\ Alt(p).kind = "read" => BuffSize[Chan(p)] = 0
         /\ Atomic!CanTake(p) <=> Alt(p).kind = "read" /\ ~Empty(Chan(p))
         /\ Atomic!CanStore(p) <=>
              Alt(p).kind = "write" /\ ~Atomic!CanMeet(p) /\ ~Full(Chan(p))
<1>1. IInv /\ Atomic!Alt(p) = Alt(p) /\ Alt(p).kind \in {"read", "write"}
  BY Attempting DEF WInv
<1>2. Atomic!WaitingIn(PeerList(Alt(p))) = Waiting(PeerKind(p), Chan(p))
  BY <1>1, WaitsThere DEF PeerList, PeerKind, Chan
<1> QED
  BY <1>1, <1>2, SameSelections
     DEF Atomic!CanMeet, Atomic!CanTake, Atomic!CanStore, Atomic!Full, Full, Empty, Chan

\* Those p is claimed with withdraw.
LEMMA ClaimedAway ==
  ASSUME ControlTypeOK, UNCHANGED <<queued, sel>>, NEW ps,
         \A r \in Procs : avail'[r] <=> avail[r] /\ r \notin ps
  PROVE  Claimable' = {n \in Claimable : n[1] \notin ps}
<1>1. Live' = Live /\ \A n \in Live : n[1] \in Procs
  BY DEF Live, Nodes
<1> QED
  BY <1>1 DEF Claimable

-----------------------------------------------------------------------------
(* The steps.                                                              *)

RInv == WInv /\ AheadQueued

\* Steps that AtomicSelect does not see: the submission of p goes on without p
\* being served, or, if it was served before, in whatever way.
LEMMA NoAttempt ==
  ASSUME RInv, AheadQueued', NEW p \in Procs,
         \/ Lock(p) \/ RefillNone(p) \/ LoseClaim(p) \/ EndSubmit(p) \/ Resume(p)
  PROVE  UNCHANGED Atomic!vars
<1>1. /\ IInv /\ ControlTypeOK /\ ControlOf(p) /\ SettledOf(p)
  BY IInvFacts DEF RInv, WInv
<1>2. UNCHANGED <<linkVars, round, sel, buffer, slot, queued, avail, results>>
  BY DEF Lock, RefillNone, LoseClaim, EndSubmit, Resume, chanVars
<1>3. OrderKept /\ Claimable' = Claimable
  BY <1>1, <1>2, LinksSame DEF Claimable, Live
<1>4. ASSUME NEW r \in Procs, r # p
      PROVE  Quiet(r)
  <2>1. Still(r)
    BY <1>1, <1>4, OthersStill DEF Submit, Complete
  <2>2. token'[r] = token[r]
    BY <1>1, <1>4 DEF Lock, RefillNone, LoseClaim, EndSubmit, Resume, ControlTypeOK
  <2> QED
    BY <1>2, <2>1, <2>2, Unnoticed
<1>5. ASSUME Served(p)' = Served(p), Tried(p)' = Tried(p)
      PROVE  Quiet(p)
  BY <1>2, <1>5, SameGot DEF Quiet
<1>6. ASSUME Lock(p) \/ EndSubmit(p)
      PROVE  Quiet(p)
  <2>1. pc[p] = "lock" /\ pc'[p] \in {"buffer", "scan", "done"} /\ UNCHANGED <<token, at>>
    BY <1>1, <1>6 DEF Lock, EndSubmit, Finish, ControlTypeOK
  <2>2. Served(p)' = Served(p)
    BY <2>1 DEF Served
  <2> QED
    BY <1>5, <2>1, <2>2 DEF Tried
<1>7. ASSUME Resume(p)
      PROVE  Quiet(p)
  <2>1. UNCHANGED <<token, at, pc>>
    BY <1>7 DEF Resume
  <2>2. Served(p)' = Served(p)
    BY <2>1 DEF Served
  <2> QED
    BY <1>5, <2>1, <2>2 DEF Tried
<1>8. ASSUME RefillNone(p)
      PROVE  Quiet(p)
  <2>1. pc[p] = "refill" /\ pc'[p] = "done" /\ token'[p] = at[p] /\ at' = at /\ token[p] = 0
    BY <1>1, <1>8 DEF RefillNone, Finish, ControlTypeOK, ControlOf
  <2>2. at[p] # 0
    BY <1>1, <2>1, IInvFacts, CriticalFacts DEF Critical
  <2>3. Served(p) = at[p] /\ Served(p)' = at[p]
    BY <2>1, <2>2 DEF Served
  <2> QED
    BY <1>5, <2>2, <2>3 DEF Tried
<1>9. ASSUME LoseClaim(p)
      PROVE  Quiet(p)
  <2>1. /\ pc[p] \in {"buffer", "scan"} /\ sel[p].wait /\ ~avail[p]
        /\ pc'[p] = "lock" /\ token' = token
    BY <1>1, <1>9 DEF LoseClaim, NoPeer, SkipOperation, SubmitNext, ControlTypeOK
  <2>2. Served(p) # 0 /\ Served(p)' = Served(p)
    BY <1>1, <2>1 DEF SettledOf, ClaimableOf, Served
  <2> QED
    BY <1>5, <2>2 DEF Tried
<1>10. \A r \in Procs : Quiet(r)
  BY <1>4, <1>6, <1>7, <1>8, <1>9
<1> QED
  BY <1>2, <1>3, <1>10, NothingHappens DEF RInv

LEMMA DropIsNothing ==
  ASSUME RInv, AheadQueued', NEW p \in Procs, DropClaimed(p)
  PROVE  UNCHANGED Atomic!vars
<1> PICK l : l = PeerList(Alt(p))
  OBVIOUS
<1>1. /\ pc[p] \in Critical /\ first[l] # Null /\ ~avail[first[l][1]] /\ PopFirst(l)
      /\ UNCHANGED <<chanVars, procVars>>
  BY DEF DropClaimed, BothContextsLocked, First, Critical
<1>2. l \in Lists /\ IInv
  BY <1>1, IInvFacts, CriticalFacts DEF RInv, WInv
<1>3. Claimable' = Claimable
  BY <1>1 DEF procVars, Claimable, Live
<1>4. first[l] \notin Claimable'
  BY <1>1, <1>3 DEF Claimable
<1>5. OrderKept
  BY <1>1, <1>2, <1>4, PopKeeps
<1>6. \A r \in Procs : Quiet(r)
  BY <1>1, Unnoticed DEF procVars, Still
<1> QED
  BY <1>1, <1>3, <1>5, <1>6, NothingHappens DEF RInv, chanVars, procVars

LEMMA ClearIsNothing ==
  ASSUME RInv, AheadQueued', NEW p \in Procs, ClearWait(p)
  PROVE  UNCHANGED Atomic!vars
<1> PICK i \in ToClear(p) :
       /\ Dequeue(ClearedThrough(Alts(p)[i]), <<p, i>>)
       /\ queued' = [queued EXCEPT ![p] = @ \ {i}]
  BY DEF ClearWait
<1> PICK n : n = <<p, i>>
  OBVIOUS
<1> PICK l : l = ClearedThrough(Alts(p)[i])
  OBVIOUS
<1>1. /\ IInv /\ ControlTypeOK /\ token[p] # 0
      /\ UNCHANGED <<chanVars, round, sel, pc, at, avail, token, slot, results>>
  BY IInvFacts DEF RInv, WInv, ClearWait
<1>2. ~avail[p]
  BY <1>1, IInvFacts DEF ControlOf
<1>3. n \in Nodes /\ n[1] = p /\ n[2] = i /\ n \in Live
  BY <1>1 DEF Nodes, Live, ToClear, ControlTypeOK
<1>4. l = ListOf(AltOf(n)) /\ l \in Lists
  <2>1. AltOf(n) = Alts(p)[i]
    BY <1>3 DEF AltOf, Alts
  <2> QED
    BY <1>1, <1>3, <2>1, ClearedIsOwn, LiveFacts
<1>5. Claimable' = Claimable
  <2>1. \A r \in Procs : r # p => queued'[r] = queued[r]
    BY <1>1 DEF ControlTypeOK
  <2>2. \A m \in Nodes : m[1] \in Procs
    BY DEF Nodes
  <2> QED
    BY <1>1, <1>2, <2>1, <2>2 DEF Claimable, Live
<1>6. n \notin Claimable'
  BY <1>1, <1>2, <1>3 DEF Claimable
<1>7. OrderKept
  BY <1>1, <1>3, <1>4, <1>6, DequeueKeeps
<1>8. \A r \in Procs : Quiet(r)
  BY <1>1, Unnoticed DEF Still
<1> QED
  BY <1>1, <1>5, <1>7, <1>8, NothingHappens DEF RInv, chanVars

LEMMA BeginsAtomically ==
  ASSUME RInv, AheadQueued', NEW p \in Procs, Begin(p)
  PROVE  Atomic!Begin(p)
<1> PICK s \in Script[p][round[p] + 1] :
       sel' = [sel EXCEPT ![p] = s] /\ avail' = [avail EXCEPT ![p] = s.wait]
       /\ \E f : slot' = [slot EXCEPT ![p] = f]
  BY DEF Begin
<1>1. /\ IInv /\ ControlTypeOK /\ DataTypeOK /\ ControlOf(p)
      /\ pc[p] = "idle" /\ round[p] < Len(Script[p]) /\ round' = [round EXCEPT ![p] = @ + 1]
      /\ pc' = [pc EXCEPT ![p] = "lock"] /\ at' = [at EXCEPT ![p] = 1]
      /\ UNCHANGED <<linkVars, chanVars, token, queued, results>>
  BY IInvFacts DEF RInv, WInv, Begin, SubmitNext
<1>2. sel[p] = NoSelection /\ queued[p] = {} /\ token[p] = 0
  BY <1>1 DEF ControlOf
<1>3. pc'[p] = "lock" /\ at'[p] = 1
  BY <1>1 DEF ControlTypeOK
<1>4. Quiet(p)
  BY <1>1, <1>2, <1>3 DEF Quiet, Served, Tried, Got, Received
<1>5. ASSUME NEW r \in Procs, r # p
      PROVE  Quiet(r)
  <2>1. slot'[r] = slot[r] /\ token'[r] = token[r] /\ Still(r)
    BY <1>1, <1>5, OthersStill DEF DataTypeOK
  <2> QED
    BY <2>1, Unnoticed
<1>6. Claimable' = Claimable
  <2>1. \A m \in Nodes : m[1] \in Procs
    BY DEF Nodes
  <2>2. \A r \in Procs : r # p => avail'[r] = avail[r]
    BY <1>1 DEF ControlTypeOK
  <2>3. queued' = queued
    BY <1>1
  <2> QED
    BY <1>2, <2>1, <2>2, <2>3 DEF Claimable, Live
<1>7. OrderKept
  BY <1>1, LinksSame
<1>8. Ahead' = Ahead
  BY <1>6, <1>7, AheadStays DEF RInv
<1>9. /\ [r \in Procs |-> Served(r)]' = [r \in Procs |-> Served(r)]
      /\ [r \in Procs |-> Tried(r)]' = [r \in Procs |-> Tried(r)]
      /\ [r \in Procs |-> Got(r)]' = [r \in Procs |-> Got(r)]
  BY <1>4, <1>5 DEF Quiet
<1> QED
  BY <1>1, <1>2, <1>6, <1>8, <1>9, SameSelections DEF Atomic!Begin, chanVars

LEMMA TakesAtomically ==
  ASSUME RInv, AheadQueued', NEW p \in Procs, TakeBuffered(p)
  PROVE  Atomic!Take(p)
<1> PICK c : c = Chan(p)
  OBVIOUS
<1> PICK v : v = Head(buffer[c])
  OBVIOUS
<1>1. /\ IInv /\ WInv /\ ControlTypeOK /\ DataTypeOK /\ ControlOf(p)
      /\ pc[p] = "buffer" /\ ~Empty(c) /\ CallerAvailable(p)
      /\ avail' = [avail EXCEPT ![p] = FALSE]
      /\ buffer' = [buffer EXCEPT ![c] = Tail(@)]
      /\ slot' = [slot EXCEPT ![p][Alt(p).op] = v]
      /\ UNCHANGED <<linkVars, round, sel, at, queued, results>>
  BY IInvFacts DEF RInv, WInv, TakeBuffered, Dequeued, Finish
<1>2. /\ Served(p) = 0 /\ token[p] = 0 /\ Alt(p).kind = "read"
  BY <1>1, SubmittingUnserved DEF ControlOf
<1>3. /\ Atomic!Turn(p) = <<p, at[p]>> /\ Atomic!Alt(p) = Alt(p) /\ Alt(p) = Alts(p)[at[p]]
      /\ at[p] \in Nat \ {0} /\ Atomic!Attempts(p) /\ Alt(p).op \in Ops
  BY <1>1, <1>2, Attempting, IInvFacts, CriticalFacts DEF Critical
<1>4. Atomic!CanTake(p)
  BY <1>1, <1>2, Chances
<1>5. ServedBy(p, at[p], v)
  <2>1. Served(p)' = at[p]
    <3>1. \/ pc' = [pc EXCEPT ![p] = "done"] /\ token' = [token EXCEPT ![p] = at[p]]
          \/ pc' = [pc EXCEPT ![p] = "refill"] /\ token' = token
      BY DEF TakeBuffered, Finish
    <3>2. \/ token'[p] = at[p]
          \/ pc'[p] = "refill" /\ token'[p] = 0
      BY <1>1, <1>2, <3>1 DEF ControlTypeOK
    <3> QED
      BY <1>1, <1>3, <3>2 DEF Served
  <2>2. slot'[p][Alt(p).op] = v
    BY <1>1, <1>3 DEF DataTypeOK
  <2> QED
    BY <1>1, <1>2, <1>3, <2>1, <2>2, TakesEffect
<1>6. ASSUME NEW r \in Procs \ {p}
      PROVE  Quiet(r)
  <2>1. Still(r)
    BY <1>1, OthersStill DEF Submit
  <2>2. token'[r] = token[r] /\ slot'[r] = slot[r]
    <3>1. token' = [token EXCEPT ![p] = at[p]] \/ token' = token
      BY DEF TakeBuffered
    <3> QED
      BY <1>1, <3>1 DEF ControlTypeOK, DataTypeOK
  <2> QED
    BY <2>1, <2>2, Unnoticed
<1>7. Claimable' = {m \in Claimable : m[1] # p}
  <2>1. \A r \in Procs : avail'[r] <=> avail[r] /\ r \notin {p}
    BY <1>1 DEF ControlTypeOK
  <2>2. Claimable' = {m \in Claimable : m[1] \notin {p}}
    BY <1>1, <2>1, ClaimedAway
  <2> QED
    BY <2>2
<1>8. Atomic!Serve(Atomic!Turn(p), v)
  <2>1. OrderKept
    BY <1>1, LinksSame
  <2> QED
    BY <1>3, <1>5, <1>6, <1>7, <2>1, OneIsServed DEF RInv
<1> QED
  BY <1>1, <1>3, <1>4, <1>8 DEF Atomic!Take, Chan

LEMMA StoresAtomically ==
  ASSUME RInv, AheadQueued', NEW p \in Procs, Store(p)
  PROVE  Atomic!Store(p)
<1> PICK c : c = Chan(p)
  OBVIOUS
<1> PICK k : k = Alt(p).op
  OBVIOUS
<1>1. /\ IInv /\ WInv /\ ControlTypeOK /\ DataTypeOK /\ ControlOf(p) /\ NoPeer(p)
      /\ pc[p] = "scan" /\ Alt(p).kind = "write" /\ ~Full(c) /\ CallerAvailable(p)
      /\ avail' = [avail EXCEPT ![p] = FALSE]
      /\ buffer' = [buffer EXCEPT ![c] = Append(@, slot[p][k])]
      /\ slot' = [slot EXCEPT ![p][k] = Null]
      /\ token' = [token EXCEPT ![p] = at[p]]
      /\ UNCHANGED <<linkVars, round, sel, at, queued, results>>
  BY IInvFacts DEF RInv, WInv, Store, NoPeer, Enqueued, Finish
<1>2. Served(p) = 0
  BY <1>1, SubmittingUnserved
<1>3. /\ Atomic!Turn(p) = <<p, at[p]>> /\ Atomic!Alt(p) = Alt(p) /\ Alt(p) = Alts(p)[at[p]]
      /\ at[p] \in Nat \ {0} /\ Atomic!Attempts(p) /\ at[p] \in 1..Len(Alts(p))
      /\ sel[p] \in SelectionsOfChannels
  BY <1>1, <1>2, Attempting, IInvFacts, CriticalFacts DEF Critical
<1>4. Atomic!CanStore(p)
  <2>1. Waiting(PeerKind(p), c) = {}
    BY <1>1, NoPeerNone
  <2> QED
    BY <1>1, <1>2, <2>1, Chances
<1>5. ServedBy(p, at[p], Null)
  <2>1. Served(p)' = at[p]
    BY <1>1, <1>3 DEF Served, ControlTypeOK
  <2> QED
    BY <1>1, <1>3, <2>1, TakesEffect
<1>6. ASSUME NEW r \in Procs \ {p}
      PROVE  Quiet(r)
  <2>1. Still(r)
    BY <1>1, OthersStill DEF Submit
  <2>2. token'[r] = token[r] /\ slot'[r] = slot[r]
    BY <1>1 DEF ControlTypeOK, DataTypeOK
  <2> QED
    BY <2>1, <2>2, Unnoticed
<1>7. Claimable' = {m \in Claimable : m[1] # p}
  <2>1. \A r \in Procs : avail'[r] <=> avail[r] /\ r \notin {p}
    BY <1>1 DEF ControlTypeOK
  <2>2. Claimable' = {m \in Claimable : m[1] \notin {p}}
    BY <1>1, <2>1, ClaimedAway
  <2> QED
    BY <2>2
<1>8. Atomic!Serve(Atomic!Turn(p), Null)
  <2>1. OrderKept
    BY <1>1, LinksSame
  <2> QED
    BY <1>3, <1>5, <1>6, <1>7, <2>1, OneIsServed DEF RInv
<1>9. slot[p][k] = Atomic!Sends(Atomic!Turn(p))
  <2>1. slot[p][k] = <<p, round[p], k>>
    BY <1>1, <1>2, <1>3, ToSend
  <2> QED
    BY <1>3, <2>1 DEF Atomic!Sends, Atomic!Alt
<1> QED
  BY <1>1, <1>3, <1>4, <1>8, <1>9 DEF Atomic!Store, Chan


\* The first node of a list has waited longest.
LEMMA FirstForemost ==
  ASSUME RInv, NEW l \in Lists, first[l] # Null, avail[first[l][1]]
  PROVE  /\ first[l] \in Claimable /\ first[l] \in Live /\ ListOf(AltOf(first[l])) = l
         /\ first[l] \in Atomic!WaitingIn(l) /\ Atomic!Foremost(first[l])
<1> PICK n : n = first[l]
  OBVIOUS
<1>1. IInv /\ n \in Live /\ ListOf(AltOf(n)) = l /\ n \in Claimable
  BY FirstLive DEF RInv, WInv, Claimable
<1> PICK q \in [Lists -> Seq(Nodes)] : Chains(Lists, Nodes, q)
  BY <1>1 DEF IInv, Queues
<1>2. Ahead = {e \in Claimable \X Claimable : Before(q, e[1], e[2])}
  BY DEF RInv, AheadQueued
<1>3. q[l] \in Seq(Nodes) /\ q[l] # <<>> /\ n = q[l][1]
  BY DEF Chains, Spells
<1>4. 1 \in 1..Len(q[l])
  BY <1>3, EmptyLen
<1>5. ASSUME NEW m, Before(q, m, n) PROVE FALSE
  <2>1. PICK g \in Lists : \E i, j \in 1..Len(q[g]) : i < j /\ q[g][i] = m /\ q[g][j] = n
    BY <1>5 DEF Before
  <2>2. PICK i \in 1..Len(q[g]), j \in 1..Len(q[g]) : i < j /\ q[g][i] = m /\ q[g][j] = n
    BY <2>1
  <2>3. j = 1
    BY <1>3, <1>4, <2>2 DEF Chains
  <2> QED
    BY <2>2, <2>3
<1>6. \A m : <<m, n>> \notin Ahead
  BY <1>2, <1>5
<1> QED
  BY <1>1, <1>6, SameSelections DEF Atomic!WaitingIn, Atomic!Foremost, Atomic!AltOf, AltOf

LEMMA RestocksAtomically ==
  ASSUME RInv, AheadQueued', NEW p \in Procs, Refill(p)
  PROVE  Atomic!Restock(Chan(p))
<1> PICK c : c = Chan(p)
  OBVIOUS
<1> PICK l : l = WriterList(c)
  OBVIOUS
<1> PICK n : n = first[l]
  OBVIOUS
<1> PICK q : q = n[1]
  OBVIOUS
<1> PICK k : k = AltOf(n).op
  OBVIOUS
<1>0. IInv
  BY DEF RInv, WInv
<1>1. /\ IInv /\ WInv /\ ControlTypeOK /\ DataTypeOK /\ ControlOf(p) /\ SettledOf(p)
      /\ pc[p] = "refill" /\ n # Null /\ avail[q] /\ PopFirst(l)
      /\ avail' = [avail EXCEPT ![q] = FALSE]
      /\ buffer' = [buffer EXCEPT ![c] = Append(@, slot[q][k])]
      /\ slot' = [slot EXCEPT ![q][k] = Null]
      /\ token' = [token EXCEPT ![q] = n[2], ![p] = at[p]]
      /\ pc' = [pc EXCEPT ![p] = "done"]
      /\ UNCHANGED <<round, sel, at, queued, results>>
  BY IInvFacts DEF RInv, WInv, Refill, Enqueued, Finish
<1>2. l \in Lists /\ c \in Channels /\ at[p] # 0 /\ Alts(p)' = Alts(p)
  BY <1>1, IInvFacts, CriticalFacts DEF Critical, WriterList, Lists, Alts
<1>3. /\ n \in Claimable /\ n \in Live /\ ListOf(AltOf(n)) = l
      /\ n \in Atomic!WaitingIn(l) /\ Atomic!Foremost(n)
  BY <1>1, <1>2, FirstForemost
<1>4. /\ q \in Procs /\ q # p /\ n = <<q, n[2]>> /\ n[2] \in Nat \ {0}
      /\ n[2] \in 1..Len(Alts(q)) /\ sel[q] \in SelectionsOfChannels
      /\ AltOf(n) = Alts(q)[n[2]] /\ AltOf(n).kind = "write" /\ k \in Ops
  <2>1. AltOf(n).kind = "write"
    BY <1>1, <1>3, LiveFacts DEF ListOf, ReaderList, WriterList
  <2> QED
    BY <1>1, <1>3, <2>1, LiveFacts DEF ControlOf
<1>5. Served(q) = 0 /\ pc[q] # "idle"
  BY <1>1, <1>4, ClaimableUnserved
<1>6. ServedBy(q, n[2], Null)
  <2>1. Served(q)' = n[2]
    BY <1>1, <1>4 DEF Served, ControlTypeOK
  <2>2. sel'[q] = sel[q] /\ Alts(q)[n[2]].kind = "write"
    BY <1>1, <1>4
  <2> QED
    BY <1>4, <2>1, <2>2, TakesEffect
<1>7. Quiet(p)
  <2>1. token'[p] = at[p] /\ pc'[p] = "done" /\ slot'[p] = slot[p] /\ token[p] = 0
    BY <1>1, <1>4 DEF ControlTypeOK, DataTypeOK, ControlOf
  <2>2. Served(p) = at[p] /\ Served(p)' = at[p]
    BY <1>1, <1>2, <2>1 DEF Served
  <2> QED
    BY <1>2, <2>1, <2>2 DEF Quiet, Tried, Got, Received
<1>8. ASSUME NEW r \in Procs \ {q}
      PROVE  Quiet(r)
  <2>1. CASE r = p
    BY <1>7, <2>1
  <2>2. CASE r # p
    <3>1. Still(r)
      BY <1>1, <2>2, OthersStill DEF Submit
    <3>2. token'[r] = token[r] /\ slot'[r] = slot[r]
      BY <1>1, <2>2 DEF ControlTypeOK, DataTypeOK
    <3> QED
      BY <3>1, <3>2, Unnoticed
  <2> QED
    BY <2>1, <2>2
<1>9. Claimable' = {m \in Claimable : m[1] # q}
  <2>1. \A r \in Procs : avail'[r] <=> avail[r] /\ r \notin {q}
    BY <1>1 DEF ControlTypeOK
  <2>2. Claimable' = {m \in Claimable : m[1] \notin {q}}
    BY <1>1, <2>1, ClaimedAway
  <2> QED
    BY <2>2
<1>10. Atomic!Serve(n, Null)
  <2>1. n \notin Claimable'
    BY <1>9
  <2>2. OrderKept
    BY <1>1, <1>2, <2>1, PopKeeps
  <2> QED
    BY <1>4, <1>6, <1>8, <1>9, <2>2, OneIsServed DEF RInv
<1>11. slot[q][k] = Atomic!Sends(n)
  <2>1. slot[q][k] = <<q, round[q], k>>
    <3> PICK i \in 1..Len(Alts(q)) : i = n[2]
      BY <1>4
    <3>1. slot[q][Alts(q)[i].op] =
            IF Alts(q)[i].kind = "write" THEN <<q, round[q], Alts(q)[i].op>> ELSE Null
      BY <1>0, <1>4, <1>5, ToSend
    <3> QED
      BY <1>4, <3>1
  <2> QED
    BY <2>1 DEF Atomic!Sends, Atomic!AltOf, AltOf
<1>12. ~Atomic!Restocked(c)
  <2>1. ~Full(c)
    BY <1>1, <1>2 DEF SettledOf, RoomOf, Full, DataTypeOK
  <2> QED
    BY <1>3, <2>1, SameSelections DEF Atomic!Restocked, Atomic!Full, Full
<1>13. buffer' = [buffer EXCEPT ![c] = Append(@, Atomic!Sends(n))]
  BY <1>1, <1>11
<1> QED
  BY <1>1, <1>3, <1>10, <1>12, <1>13, SameSelections DEF Atomic!Restock

LEMMA MeetsAtomically ==
  ASSUME RInv, AheadQueued', NEW p \in Procs, MeetPeer(p)
  PROVE  Atomic!MeetPeer(p)
<1> PICK l : l = PeerList(Alt(p))
  OBVIOUS
<1> PICK n : n = first[l]
  OBVIOUS
<1> PICK q : q = n[1]
  OBVIOUS
<1> PICK k : k = AltOf(n).op
  OBVIOUS
<1> PICK h : h = Alt(p).op
  OBVIOUS
<1>0. IInv
  BY DEF RInv, WInv
<1>1. /\ IInv /\ WInv /\ ControlTypeOK /\ DataTypeOK /\ ControlOf(p) /\ ReadsFrom(p)
      /\ pc[p] = "scan" /\ n # Null /\ avail[q] /\ PopFirst(l) /\ CallerAvailable(p)
      /\ avail' = [avail EXCEPT ![p] = FALSE, ![q] = FALSE]
      /\ slot' = [slot EXCEPT ![p][h] = slot[q][k], ![q][k] = slot[p][h]]
      /\ token' = [token EXCEPT ![q] = n[2], ![p] = at[p]]
      /\ pc' = [pc EXCEPT ![p] = "done"]
      /\ UNCHANGED <<round, sel, at, queued, buffer, results>>
  BY IInvFacts DEF RInv, WInv, Met, MeetPeer, BothContextsLocked, BothClaimed, First, Finish
<1>2. l \in Lists /\ h \in Ops /\ sel[p] \in SelectionsOfChannels
  BY <1>1, IInvFacts, CriticalFacts DEF Critical
<1>3. /\ n \in Claimable /\ n \in Live /\ ListOf(AltOf(n)) = l
      /\ n \in Atomic!WaitingIn(l) /\ Atomic!Foremost(n)
  BY <1>1, <1>2, FirstForemost
<1>4. /\ q \in Procs /\ n = <<q, n[2]>> /\ n[2] \in Nat \ {0}
      /\ n[2] \in 1..Len(Alts(q)) /\ sel[q] \in SelectionsOfChannels
      /\ AltOf(n) = Alts(q)[n[2]] /\ AltOf(n).kind \in {"read", "write"} /\ k \in Ops
  <2>1. /\ n \in Nodes /\ n[1] \in Procs /\ n[2] \in 1..MaxAlts /\ n[2] \in 1..Len(Alts(n[1]))
        /\ n = <<n[1], n[2]>> /\ sel[n[1]] \in SelectionsOfChannels
        /\ AltOf(n) = Alts(n[1])[n[2]] /\ AltOf(n).op \in Ops
        /\ AltOf(n).kind \in {"read", "write"}
    BY <1>0, <1>3, LiveFacts
  <2> QED
    BY <2>1
<1>5. q # p
  <2>1. n = First(p) /\ BothContextsLocked(p)
    BY DEF MeetPeer, First
  <2>2. q = p => sel[p].wait
    BY <1>1 DEF ControlOf
  <2> QED
    BY <1>1, <2>1, <2>2 DEF BothContextsLocked, WithOwnContext
<1>6. Served(p) = 0 /\ Served(q) = 0
  BY <1>1, <1>4, ClaimableUnserved, SubmittingUnserved
<1>7. /\ Atomic!Turn(p) = <<p, at[p]>> /\ Atomic!Alt(p) = Alt(p) /\ Alt(p) = Alts(p)[at[p]]
      /\ at[p] \in Nat \ {0} /\ Atomic!Attempts(p) /\ at[p] \in 1..Len(Alts(p))
      /\ Alt(p).kind \in {"read", "write"}
  BY <1>1, <1>6, Attempting
<1>8. Alt(p).kind = "write" <=> AltOf(n).kind = "read"
  BY <1>3, <1>4, <1>7, PeerKinds
<1>9. Atomic!CanMeet(p)
  <2>1. Atomic!WaitingIn(PeerList(Atomic!Alt(p))) # {}
    BY <1>3, <1>7
  <2>2. Alt(p).kind = "read" => BuffSize[Alt(p).chan] = 0
    BY <1>1 DEF ReadsFrom, Chan
  <2> QED
    BY <1>7, <2>1, <2>2, SameSelections DEF Atomic!CanMeet
<1>10. /\ slot'[p][h] = slot[q][k] /\ slot'[q][k] = slot[p][h]
       /\ token'[p] = at[p] /\ token'[q] = n[2]
  BY <1>1, <1>2, <1>4, <1>5 DEF ControlTypeOK, DataTypeOK
<1>11. Served(p)' = at[p] /\ Served(q)' = n[2]
  BY <1>4, <1>7, <1>10 DEF Served
<1>12. /\ slot[p][h] = IF Alt(p).kind = "write" THEN <<p, round[p], h>> ELSE Null
       /\ slot[q][k] = IF AltOf(n).kind = "write" THEN <<q, round[q], k>> ELSE Null
  <2>1. slot[p][h] = IF Alt(p).kind = "write" THEN <<p, round[p], h>> ELSE Null
    BY <1>1, <1>2, <1>6, <1>7, ToSend
  <2>2. slot[q][k] = IF AltOf(n).kind = "write" THEN <<q, round[q], k>> ELSE Null
    BY <1>1, <1>4, <1>6, ToSend
  <2> QED
    BY <2>1, <2>2
<1>13. slot[p][h] = (IF Alt(p).kind = "write" THEN Atomic!Sends(Atomic!Turn(p)) ELSE Null)
  <2>1. Atomic!Sends(Atomic!Turn(p)) = <<p, round[p], h>>
    BY <1>7 DEF Atomic!Sends, Atomic!Alt
  <2> QED
    BY <1>12, <2>1
<1>14. slot[q][k] = (IF AltOf(n).kind = "write" THEN Atomic!Sends(n) ELSE Null)
  <2>1. Atomic!Sends(n) = <<q, round[q], k>>
    BY DEF Atomic!Sends, Atomic!AltOf, AltOf
  <2> QED
    BY <1>12, <2>1
<1>15. ServedBy(p, at[p], slot[q][k])
  <2>1. sel'[p] = sel[p]
    BY <1>1
  <2>2. IF Alts(p)[at[p]].kind = "read" THEN slot'[p][Alts(p)[at[p]].op] = slot[q][k]
                                        ELSE slot[q][k] = Null
    BY <1>7, <1>8, <1>4, <1>10, <1>12
  <2> QED
    BY <1>7, <1>11, <2>1, <2>2, TakesEffect
<1>16. ServedBy(q, n[2], slot[p][h])
  <2>1. sel'[q] = sel[q]
    BY <1>1
  <2>2. IF Alts(q)[n[2]].kind = "read" THEN slot'[q][Alts(q)[n[2]].op] = slot[p][h]
                                       ELSE slot[p][h] = Null
    BY <1>7, <1>8, <1>4, <1>10, <1>12
  <2> QED
    BY <1>4, <1>11, <2>1, <2>2, TakesEffect
<1>17. ASSUME NEW r \in Procs \ {p, q}
       PROVE  Quiet(r)
  <2>1. Still(r)
    BY <1>1, OthersStill DEF Submit
  <2>2. token'[r] = token[r] /\ slot'[r] = slot[r]
    BY <1>1, <1>4 DEF ControlTypeOK, DataTypeOK
  <2> QED
    BY <2>1, <2>2, Unnoticed
<1>18. Claimable' = {m \in Claimable : m[1] \notin {p, q}}
  <2>1. \A r \in Procs : avail'[r] <=> avail[r] /\ r \notin {p, q}
    BY <1>1, <1>4 DEF ControlTypeOK
  <2> QED
    BY <1>1, <2>1, ClaimedAway
<1>19. Atomic!ServeBoth(Atomic!Turn(p), slot[q][k], n, slot[p][h])
  <2>1. n \notin Claimable'
    BY <1>18
  <2>2. OrderKept
    BY <1>1, <1>2, <2>1, PopKeeps
  <2> QED
    BY <1>4, <1>5, <1>7, <1>15, <1>16, <1>17, <1>18, <2>2, TwoAreServed DEF RInv
<1>20. IF Alt(p).kind = "read"
       THEN Atomic!ServeBoth(Atomic!Turn(p), Atomic!Sends(n), n, Null)
       ELSE Atomic!ServeBoth(Atomic!Turn(p), Null, n, Atomic!Sends(Atomic!Turn(p)))
  <2>1. CASE Alt(p).kind = "read"
    <3>1. slot[q][k] = Atomic!Sends(n) /\ slot[p][h] = Null
      BY <1>4, <1>8, <1>13, <1>14, <2>1
    <3> QED
      BY <1>19, <2>1, <3>1
  <2>2. CASE Alt(p).kind # "read"
    <3>1. slot[q][k] = Null /\ slot[p][h] = Atomic!Sends(Atomic!Turn(p))
      BY <1>7, <1>8, <1>13, <1>14, <2>2
    <3> QED
      BY <1>19, <2>2, <3>1
  <2> QED
    BY <2>1, <2>2
<1> QED
  BY <1>1, <1>3, <1>5, <1>7, <1>9, <1>20, SameSelections DEF Atomic!MeetPeer

\* Neither a peer nor the buffer can serve the alternative.
LEMMA Unlucky ==
  ASSUME WInv, NEW p \in Procs, Unserved(p), Served(p) = 0
  PROVE  Atomic!CanDoNothing(p)
<1>1. /\ IInv /\ ControlOf(p) /\ SettledOf(p) /\ ReadsFrom(p) /\ pc[p] \in {"buffer", "scan"}
  BY IInvFacts DEF WInv, Met, Unserved, NoPeer
<1>2. Alt(p).kind \in {"read", "write"} /\ Chan(p) \in Channels
  BY <1>1, Attempting
<1>3. CASE pc[p] = "buffer"
  <2>1. Alt(p).kind = "read" /\ Empty(Chan(p)) /\ BuffSize[Chan(p)] # 0
    BY <1>1, <1>3 DEF ControlOf, ReadsFrom, Unserved, NoPeer
  <2> QED
    BY <1>1, <2>1, Chances DEF Atomic!CanDoNothing
<1>4. CASE pc[p] = "scan"
  <2>1. NoPeer(p) /\ (Alt(p).kind = "write" => Full(Chan(p)))
    BY <1>4 DEF Unserved
  <2>2. CallerAvailable(p)
    BY <1>1 DEF CallerAvailable, SettledOf, ClaimableOf
  <2>3. Waiting(PeerKind(p), Chan(p)) = {}
    BY <1>1, <2>1, <2>2, NoPeerNone
  <2>4. Alt(p).kind = "read" => Empty(Chan(p))
    <3> SUFFICES ASSUME Alt(p).kind = "read" PROVE Empty(Chan(p))
      OBVIOUS
    <3>1. BuffSize[Chan(p)] = 0
      BY <1>1, <1>4 DEF ReadsFrom
    <3>2. buffer[Chan(p)] \in Seq(Values) /\ Len(buffer[Chan(p)]) <= 0
      BY <1>1, <1>2, <3>1, IInvFacts, ChannelAssumption DEF ChannelAssumption, DataTypeOK
    <3> QED
      BY <3>2, EmptyLen DEF Empty
  <2> QED
    BY <1>1, <2>1, <2>3, <2>4, Chances DEF Atomic!CanDoNothing
<1> QED
  BY <1>1, <1>3, <1>4


\* What Park does to the lists: the node stands behind all others of its list.
LEMMA ParkOrder ==
  ASSUME RInv, AheadQueued', NEW p \in Procs, Park(p)
  PROVE  \A m, n : <<m, n>> \in Ahead' <=>
           /\ m \in Claimable' /\ n \in Claimable'
           /\ \/ <<m, n>> \in Ahead
              \/ n = <<p, at[p]>> /\ m \in Claimable /\ ListOf(AltOf(m)) = ListOf(Alt(p))
<1> PICK l : l = ListOf(Alt(p))
  OBVIOUS
<1> PICK x : x = <<p, at[p]>>
  OBVIOUS
<1> PICK q \in [Lists -> Seq(Nodes)] : Chains(Lists, Nodes, q) /\ Placed(q)
  BY DEF RInv, WInv, IInv, Queues
<1> DEFINE Q == [q EXCEPT ![l] = Append(q[l], x)]
<1>1. /\ IInv /\ ControlTypeOK /\ ControlOf(p) /\ SettledOf(p) /\ pc[p] \in Critical
      /\ Enqueue(l, x) /\ queued' = [queued EXCEPT ![p] = @ \cup {at[p]}] /\ avail' = avail
  BY IInvFacts DEF RInv, WInv, Park, Unserved, NoPeer, Critical
<1>2. /\ LinksTypeOK(Lists, Nodes) /\ l \in Lists /\ at[p] \in 1..MaxAlts /\ x \in Nodes
      /\ x[1] = p /\ x[2] = at[p]
  BY <1>1, IInvFacts, CriticalFacts DEF ControlTypeOK, Nodes
<1>3. \A i \in queued[p] : i < at[p]
  BY <1>1 DEF ControlOf, Submitting
<1>4. x \notin Live
  <2>1. at[p] \in Nat
    BY <1>2
  <2> QED
    BY <1>2, <1>3, <2>1 DEF Live
<1>5. \A g \in Lists : ~Within(x, q[g])
  BY <1>2, <1>4 DEF Placed
<1>6. Chains(Lists, Nodes, Q)'
  BY <1>1, <1>2, <1>5, NullNoNode, EnqueueChains
<1> HIDE DEF Q
<1>7. Q \in [Lists -> Seq(Nodes)]
  BY <1>6 DEF Chains
<1>8. \A m, n : Before(Q, m, n) <=> Before(q, m, n) \/ (n = x /\ Within(m, q[l]))
  <2>1. ASSUME NEW m, NEW n
        PROVE  Before([q EXCEPT ![l] = Append(q[l], x)], m, n)
                 <=> Before(q, m, n) \/ (n = x /\ Within(m, q[l]))
    <3>1. l \in Lists
      BY <1>2
    <3> QED
      BY <3>1, <1>5, AppendedOrder
  <2> QED
    BY <2>1 DEF Q
<1>9. /\ Ahead = {e \in Claimable \X Claimable : Before(q, e[1], e[2])}
      /\ Ahead' = {e \in Claimable' \X Claimable' : Before(Q, e[1], e[2])}
  BY <1>6, <1>7 DEF RInv, AheadQueued, Before
<1>10. \A m \in Claimable' : m = x \/ m \in Claimable
  <2>1. ASSUME NEW m \in Claimable'
        PROVE  m = x \/ m \in Claimable
    <3>1. m \in Nodes /\ m[2] \in queued'[m[1]] /\ avail[m[1]]
      BY <1>1 DEF Claimable, Live
    <3>2. m[1] \in Procs /\ m = <<m[1], m[2]>>
      BY <3>1 DEF Nodes
    <3>3. m[2] \in queued[m[1]] \/ (m[1] = p /\ m[2] = at[p])
      BY <1>1, <3>1, <3>2 DEF ControlTypeOK
    <3> QED
      BY <3>1, <3>2, <3>3 DEF Claimable, Live
  <2> QED
    BY <2>1
<1>11. \A m \in Claimable : m \in Nodes /\ m # x /\ (Within(m, q[l]) <=> ListOf(AltOf(m)) = l)
  <2>1. ASSUME NEW m \in Claimable
        PROVE  m \in Nodes /\ m # x /\ (Within(m, q[l]) <=> ListOf(AltOf(m)) = l)
    <3>1. m \in Live /\ avail[m[1]] /\ m \in Nodes
      BY DEF Claimable, Live
    <3>2. Within(m, q[ListOf(AltOf(m))])
      BY <3>1 DEF Placed
    <3>3. Within(m, q[l]) => ListOf(AltOf(m)) = l
      BY <1>2, <3>1 DEF Placed
    <3> QED
      BY <1>4, <3>1, <3>2, <3>3
  <2> QED
    BY <2>1
<1>12. \A m : Before(q, m, x) \/ Before(q, x, m) \/ Within(x, q[l]) => FALSE
  BY <1>2, <1>5 DEF Before, Within
<1>13. ASSUME NEW m, NEW n
       PROVE  <<m, n>> \in Ahead' <=> m \in Claimable' /\ n \in Claimable' /\ Before(Q, m, n)
  BY <1>9
<1>14. ASSUME NEW m, NEW n
       PROVE  <<m, n>> \in Ahead <=> m \in Claimable /\ n \in Claimable /\ Before(q, m, n)
  BY <1>9
<1>15. ASSUME NEW m \in Claimable', NEW n \in Claimable'
       PROVE  Before(Q, m, n) <=>
                \/ m \in Claimable /\ n \in Claimable /\ Before(q, m, n)
                \/ n = x /\ m \in Claimable /\ ListOf(AltOf(m)) = l
  BY <1>8, <1>10, <1>11, <1>12
<1> QED
  BY <1>13, <1>14, <1>15

\* Park or PassOver of a selection that was not served before.
LEMMA FailsAtomically ==
  ASSUME RInv, AheadQueued', NEW p \in Procs, Park(p) \/ PassOver(p), Served(p) = 0
  PROVE  Atomic!Unready(p)
<1> PICK l : l = ListOf(Alt(p))
  OBVIOUS
<1> PICK x : x = <<p, at[p]>>
  OBVIOUS
<1>1. /\ IInv /\ WInv /\ ControlTypeOK /\ ControlOf(p) /\ SettledOf(p) /\ Unserved(p)
      /\ pc[p] \in {"buffer", "scan"}
      /\ pc' = [pc EXCEPT ![p] = "lock"] /\ at' = [at EXCEPT ![p] = at[p] + 1]
      /\ UNCHANGED <<buffer, round, sel, avail, token, slot, results>>
  BY IInvFacts DEF RInv, WInv, Park, PassOver, Unserved, NoPeer, SubmitNext
<1>2. /\ Atomic!Turn(p) = x /\ Atomic!Alt(p) = Alt(p) /\ Tried(p) = at[p] - 1
      /\ at[p] \in Nat \ {0} /\ Atomic!Attempts(p) /\ x[1] = p /\ x[2] = at[p]
      /\ Alt(p).kind \in {"read", "write"} /\ Alt(p) = Alts(p)[at[p]]
  BY <1>1, Attempting
<1>3. Atomic!CanDoNothing(p)
  BY <1>1, Unlucky
<1>4. pc'[p] = "lock" /\ at'[p] = at[p] + 1
  BY <1>1 DEF ControlTypeOK
<1>5. Served(p)' = 0 /\ Tried(p)' = Tried(p) + 1 /\ Got(p)' = Got(p)
  <2>1. Served(p)' = 0
    BY <1>1, <1>4 DEF Served
  <2>2. Tried(p)' = at[p]
    BY <1>2, <1>4, <2>1 DEF Tried
  <2> QED
    BY <1>2, <2>1, <2>2 DEF Got, Received
<1>6. ASSUME NEW r \in Procs \ {p}
      PROVE  Quiet(r)
  <2>1. Still(r)
    BY <1>1, OthersStill DEF Submit
  <2> QED
    BY <1>1, <2>1, Unnoticed
<1>7. /\ [r \in Procs |-> Served(r)]' = [r \in Procs |-> Served(r)]
      /\ [r \in Procs |-> Got(r)]' = [r \in Procs |-> Got(r)]
  BY <1>5, <1>6 DEF Quiet
<1>8. [r \in Procs |-> Tried(r)]' =
        [[r \in Procs |-> Tried(r)] EXCEPT ![p] = [r \in Procs |-> Tried(r)][p] + 1]
  BY <1>5, <1>6 DEF Quiet
<1>9. IF sel[p].wait
      THEN /\ Claimable' = Claimable \cup {x}
           /\ Ahead' = Ahead \cup (Atomic!WaitingIn(l) \X {x})
      ELSE Claimable' = Claimable /\ Ahead' = Ahead
  <2>1. CASE sel[p].wait
    <3>1. Park(p) /\ avail[p] /\ queued' = [queued EXCEPT ![p] = @ \cup {at[p]}]
      BY <1>1, <2>1 DEF Park, PassOver, SettledOf, ClaimableOf
    <3>2. Claimable' = Claimable \cup {x}
      <4>1. ASSUME NEW m \in Nodes
            PROVE  m \in Claimable' <=> m \in Claimable \/ m = x
        <5>1. m[1] \in Procs /\ m = <<m[1], m[2]>>
          BY DEF Nodes
        <5>2. m[2] \in queued'[m[1]] <=> m[2] \in queued[m[1]] \/ (m[1] = p /\ m[2] = at[p])
          BY <1>1, <3>1, <5>1 DEF ControlTypeOK
        <5> QED
          BY <1>1, <1>2, <3>1, <5>1, <5>2 DEF Claimable, Live
      <4>2. x \in Nodes
        BY <1>1, IInvFacts, CriticalFacts DEF Nodes, Critical
      <4>3. Claimable' \subseteq Nodes /\ Claimable \subseteq Nodes
        BY DEF Claimable, Live
      <4> QED
        BY <4>1, <4>2, <4>3
    <3>3. ASSUME NEW m, NEW n
          PROVE  <<m, n>> \in Ahead' <=> <<m, n>> \in Ahead \/ (m \in Atomic!WaitingIn(l) /\ n = x)
      <4>1. <<m, n>> \in Ahead => m \in Claimable /\ n \in Claimable
        BY DEF Ahead
      <4>2. m \in Atomic!WaitingIn(l) <=> m \in Claimable /\ ListOf(AltOf(m)) = l
        BY SameSelections DEF Atomic!WaitingIn, Atomic!AltOf, AltOf
      <4>3. <<m, n>> \in Ahead' <=>
              /\ m \in Claimable' /\ n \in Claimable'
              /\ \/ <<m, n>> \in Ahead
                 \/ n = x /\ m \in Claimable /\ ListOf(AltOf(m)) = l
        BY <3>1, ParkOrder
      <4> QED
        BY <3>2, <4>1, <4>2, <4>3
    <3>4. Ahead' \subseteq Claimable' \X Claimable' /\ Ahead \subseteq Claimable \X Claimable
      BY DEF Ahead
    <3>5. Ahead' = Ahead \cup (Atomic!WaitingIn(l) \X {x})
      <4>1. ASSUME NEW e \in Ahead' PROVE e \in Ahead \cup (Atomic!WaitingIn(l) \X {x})
        <5>1. e = <<e[1], e[2]>>
          BY <3>4
        <5> QED
          BY <3>3, <5>1
      <4>2. ASSUME NEW e \in Ahead \cup (Atomic!WaitingIn(l) \X {x}) PROVE e \in Ahead'
        <5>1. e = <<e[1], e[2]>>
          BY <3>4
        <5> QED
          BY <3>3, <5>1
      <4> QED
        BY <4>1, <4>2
    <3> QED
      BY <2>1, <3>2, <3>5
  <2>2. CASE ~sel[p].wait
    <3>1. UNCHANGED <<linkVars, queued>>
      BY <2>2 DEF Park, PassOver
    <3>2. Claimable' = Claimable
      BY <1>1, <3>1 DEF Claimable, Live
    <3>3. OrderKept
      BY <1>1, <3>1, LinksSame
    <3>4. Ahead' = Ahead
      BY <3>2, <3>3, AheadStays DEF RInv
    <3> QED
      BY <2>2, <3>2, <3>4
  <2> QED
    BY <2>1, <2>2
<1> QED
  BY <1>1, <1>2, <1>3, <1>7, <1>8, <1>9, SameSelections DEF Atomic!Unready

\* A selection that was served before parks its node all the same: nobody can
\* claim it through it.
LEMMA ParkIsNothing ==
  ASSUME RInv, AheadQueued', NEW p \in Procs, Park(p), Served(p) # 0
  PROVE  UNCHANGED Atomic!vars
<1>1. /\ IInv /\ ControlTypeOK /\ ControlOf(p) /\ SettledOf(p)
      /\ pc[p] \in {"buffer", "scan"}
      /\ pc' = [pc EXCEPT ![p] = "lock"]
      /\ queued' = [queued EXCEPT ![p] = @ \cup {at[p]}]
      /\ UNCHANGED <<buffer, round, sel, avail, token, slot, results>>
  BY IInvFacts DEF RInv, WInv, Park, Unserved, NoPeer, SubmitNext
<1>2. token[p] # 0 /\ ~avail[p]
  BY <1>1 DEF Served, ControlOf
<1>3. Quiet(p)
  <2>1. pc'[p] = "lock"
    BY <1>1 DEF ControlTypeOK
  <2>2. Served(p)' = Served(p) /\ Alts(p)' = Alts(p)
    BY <1>1, <1>2 DEF Served, Alts
  <2> QED
    BY <1>1, <2>1, <2>2 DEF Quiet, Tried, Got, Received
<1>4. ASSUME NEW r \in Procs, r # p
      PROVE  Quiet(r)
  <2>1. Still(r)
    BY <1>1, <1>4, OthersStill DEF Submit
  <2> QED
    BY <1>1, <2>1, Unnoticed
<1>5. Claimable' = Claimable
  <2>1. \A r \in Procs : r # p => queued'[r] = queued[r]
    BY <1>1 DEF ControlTypeOK
  <2>2. \A m \in Nodes : m[1] \in Procs
    BY DEF Nodes
  <2> QED
    BY <1>1, <1>2, <2>1, <2>2 DEF Claimable, Live
<1>6. Ahead' = Ahead
  <2>1. Ahead' \subseteq Claimable' \X Claimable' /\ Ahead \subseteq Claimable \X Claimable
    BY DEF Ahead
  <2>2. <<p, at[p]>> \notin Claimable
    BY <1>2 DEF Claimable
  <2>3. ASSUME NEW m, NEW n PROVE <<m, n>> \in Ahead' <=> <<m, n>> \in Ahead
    BY <1>5, <2>1, <2>2, ParkOrder
  <2>4. ASSUME NEW e PROVE e \in Ahead' <=> e \in Ahead
    <3>1. e \in Ahead' \/ e \in Ahead => e = <<e[1], e[2]>>
      BY <2>1
    <3> QED
      BY <2>3, <3>1
  <2> QED
    BY <2>4
<1>7. /\ [r \in Procs |-> Served(r)]' = [r \in Procs |-> Served(r)]
      /\ [r \in Procs |-> Tried(r)]' = [r \in Procs |-> Tried(r)]
      /\ [r \in Procs |-> Got(r)]' = [r \in Procs |-> Got(r)]
  BY <1>3, <1>4 DEF Quiet
<1> QED
  BY <1>1, <1>5, <1>6, <1>7 DEF Atomic!vars

LEMMA TakesNothingAtomically ==
  ASSUME RInv, AheadQueued', NEW p \in Procs, TakeNothing(p)
  PROVE  Atomic!TakeNothing(p)
<1>1. /\ IInv /\ Inv1 /\ ControlTypeOK /\ ControlOf(p)
      /\ pc[p] = "lock" /\ at[p] <= Len(Alts(p)) /\ Alt(p).kind = "nothing"
      /\ token' = [token EXCEPT ![p] = at[p]] /\ pc' = [pc EXCEPT ![p] = "done"]
      /\ UNCHANGED <<linkVars, chanVars, round, sel, at, avail, queued, slot, results>>
  BY IInvFacts DEF RInv, WInv, TakeNothing, Finish
<1>2. ~sel[p].wait /\ at[p] \in 1..Len(Alts(p)) /\ at[p] \in Nat \ {0}
  BY <1>1, AltFacts DEF Submitting
<1>3. Served(p) = 0 /\ queued[p] = {} /\ ~avail[p]
  BY <1>1, <1>2 DEF ControlOf, Served, Submitting
<1>4. Tried(p) = at[p] - 1 /\ Alt(p) = Alts(p)[at[p]]
  BY <1>1, <1>3 DEF Tried, Alt, Alts
<1>5. Atomic!Turn(p) = <<p, at[p]>>
  BY <1>2, <1>4 DEF Atomic!Turn
<1>6. Atomic!Alt(p) = Alt(p)
  BY <1>5 DEF Atomic!Alt, Atomic!AltOf, Alt
<1>7. ServedBy(p, at[p], Null)
  <2>1. Served(p)' = at[p]
    BY <1>1, <1>2 DEF Served, ControlTypeOK
  <2> QED
    BY <1>1, <1>2, <1>4, <2>1, TakesEffect
<1>8. ASSUME NEW r \in Procs \ {p}
      PROVE  Quiet(r)
  <2>1. Still(r)
    BY <1>1, OthersStill DEF Submit
  <2>2. token'[r] = token[r] /\ slot'[r] = slot[r]
    BY <1>1 DEF ControlTypeOK
  <2> QED
    BY <2>1, <2>2, Unnoticed
<1>9. Claimable' = {m \in Claimable : m[1] # p}
  <2>1. Claimable' = Claimable
    BY <1>1 DEF Claimable, Live
  <2> QED
    BY <1>3, <2>1 DEF Claimable
<1>10. Atomic!Serve(Atomic!Turn(p), Null)
  <2>1. OrderKept
    BY <1>1, LinksSame
  <2> QED
    BY <1>5, <1>7, <1>8, <1>9, <2>1, OneIsServed DEF RInv
<1> QED
  BY <1>1, <1>2, <1>3, <1>4, <1>6, <1>10 DEF Atomic!TakeNothing, Atomic!Alts, Alts, chanVars

LEMMA ReturnsAtomically ==
  ASSUME RInv, AheadQueued', NEW p \in Procs, Return(p)
  PROVE  Atomic!Return(p)
<1> PICK a : a = Alts(p)[token[p]]
  OBVIOUS
<1>1. /\ IInv /\ ControlTypeOK /\ ControlOf(p) /\ token[p] # 0
      /\ results' = [results EXCEPT ![p] = Append(@,
           CASE a.kind = "read" -> [kind |-> "read", chan |-> a.chan, val |-> slot[p][a.op]]
             [] a.kind = "write" ->
                  [kind |-> "write", chan |-> a.chan, val |-> <<p, round[p], a.op>>]
             [] OTHER -> [kind |-> "nothing"])]
      /\ sel' = [sel EXCEPT ![p] = NoSelection]
      /\ pc' = [pc EXCEPT ![p] = "idle"]
      /\ avail' = [avail EXCEPT ![p] = FALSE]
      /\ token' = [token EXCEPT ![p] = 0]
      /\ queued' = [queued EXCEPT ![p] = {}]
      /\ slot' = [slot EXCEPT ![p] = EmptySlots]
      /\ UNCHANGED <<linkVars, chanVars, round>>
  BY IInvFacts DEF RInv, WInv, Return
<1>2. ~avail[p] /\ Served(p) = token[p] /\ Tried(p) = 0
  BY <1>1 DEF ControlOf, Served, Tried
<1>3. Served(p)' = 0 /\ Tried(p)' = 0 /\ Got(p)' = Null
  <2>1. token'[p] = 0 /\ pc'[p] = "idle"
    BY <1>1 DEF ControlTypeOK
  <2> QED
    BY <2>1 DEF Served, Tried, Got, Received
<1>4. ASSUME NEW r \in Procs, r # p
      PROVE  Quiet(r)
  <2>1. Still(r)
    BY <1>1, <1>4, OthersStill DEF Complete
  <2>2. token'[r] = token[r] /\ slot'[r] = slot[r]
    BY <1>1, <1>4, IInvFacts DEF ControlTypeOK, DataTypeOK
  <2> QED
    BY <2>1, <2>2, Unnoticed
<1>5. Claimable' = Claimable
  <2>1. \A m \in Nodes : m[1] \in Procs
    BY DEF Nodes
  <2>2. ~avail'[p] /\ \A r \in Procs : r # p => avail'[r] = avail[r] /\ queued'[r] = queued[r]
    BY <1>1 DEF ControlTypeOK
  <2> QED
    BY <1>2, <2>1, <2>2 DEF Claimable, Live
<1>6. Ahead' = Ahead
  <2>1. OrderKept
    BY <1>1, LinksSame
  <2> QED
    BY <1>5, <2>1, AheadStays DEF RInv
<1>7. [r \in Procs |-> Served(r)]' = [[r \in Procs |-> Served(r)] EXCEPT ![p] = 0]
  BY <1>3, <1>4 DEF Quiet
<1>8. [r \in Procs |-> Got(r)]' = [[r \in Procs |-> Got(r)] EXCEPT ![p] = Null]
  BY <1>3, <1>4 DEF Quiet
<1>9. [r \in Procs |-> Tried(r)]' = [r \in Procs |-> Tried(r)]
  BY <1>2, <1>3, <1>4 DEF Quiet
<1>10. a.kind = "read" => Got(p) = slot[p][a.op]
  BY <1>1, <1>2 DEF Got, Received
<1>11. Atomic!Sends(<<p, Served(p)>>) = <<p, round[p], a.op>>
  BY <1>2 DEF Atomic!Sends, Atomic!AltOf, Alts
<1>12. Atomic!Alts(p)[Served(p)] = a
  BY <1>2 DEF Atomic!Alts, Alts
<1>13. results' = [results EXCEPT ![p] = Append(@,
           CASE a.kind = "read" -> [kind |-> "read", chan |-> a.chan, val |-> Got(p)]
             [] a.kind = "write" ->
                  [kind |-> "write", chan |-> a.chan, val |-> Atomic!Sends(<<p, Served(p)>>)]
             [] OTHER -> [kind |-> "nothing"])]
  BY <1>1, <1>10, <1>11
<1> QED
  BY <1>1, <1>2, <1>5, <1>6, <1>7, <1>8, <1>9, <1>12, <1>13, SameSelections
     DEF Atomic!Return, chanVars

-----------------------------------------------------------------------------
LEMMA StartsAtomically ==
  ASSUME Init
  PROVE  Atomic!Init
<1>1. Live = {}
  BY DEF Init, Live, Nodes
<1>2. Claimable = {} /\ Ahead = {}
  BY <1>1 DEF Claimable, Ahead
<1>3. \A r \in Procs : Served(r) = 0 /\ Tried(r) = 0 /\ Got(r) = Null
  BY DEF Init, Served, Tried, Got, Received
<1> QED
  BY <1>2, <1>3, SameSelections DEF Init, Atomic!Init

LEMMA StepsAtomically ==
  ASSUME RInv, AheadQueued', [Next]_vars
  PROVE  [Atomic!Next]_Atomic!vars
<1>1. CASE UNCHANGED vars
  <2>1. UNCHANGED <<linkVars, round, sel, buffer, results, queued, avail>>
    BY <1>1 DEF vars, chanVars, procVars
  <2>2. OrderKept /\ Claimable' = Claimable
    BY <2>1, LinksSame DEF RInv, WInv, Claimable, Live
  <2>3. \A r \in Procs : Quiet(r)
    BY <1>1, Unnoticed DEF Still, vars, procVars
  <2> QED
    BY <2>1, <2>2, <2>3, NothingHappens DEF RInv
<1>2. ASSUME NEW p \in Procs, Begin(p) \/ Submit(p) \/ Complete(p)
      PROVE  [Atomic!Next]_Atomic!vars
  <2>1. CASE \/ Lock(p) \/ RefillNone(p) \/ LoseClaim(p) \/ EndSubmit(p) \/ Resume(p)
             \/ DropClaimed(p) \/ ClearWait(p)
    BY <2>1, NoAttempt, DropIsNothing, ClearIsNothing
  <2>2. CASE Begin(p)
    BY <2>2, BeginsAtomically DEF Atomic!Next
  <2>3. CASE TakeBuffered(p)
    BY <2>3, TakesAtomically DEF Atomic!Next
  <2>4. CASE Refill(p)
    <3>1. Chan(p) \in Channels
      BY <2>4, IInvFacts, CriticalFacts DEF RInv, WInv, Refill, Critical
    <3> QED
      BY <2>4, <3>1, RestocksAtomically DEF Atomic!Next
  <2>5. CASE MeetPeer(p)
    BY <2>5, MeetsAtomically DEF Atomic!Next
  <2>6. CASE Store(p)
    BY <2>6, StoresAtomically DEF Atomic!Next
  <2>7. CASE Park(p)
    BY <2>7, ParkIsNothing, FailsAtomically DEF Atomic!Next
  <2>8. CASE PassOver(p)
    <3>1. Served(p) = 0
      <4>1. IInv /\ ~sel[p].wait /\ pc[p] \in {"buffer", "scan"}
        BY <2>8 DEF RInv, WInv, PassOver, Unserved, NoPeer
      <4> QED
        BY <4>1, SubmittingUnserved DEF CallerAvailable
    <3> QED
      BY <2>8, <3>1, FailsAtomically DEF Atomic!Next
  <2>9. CASE TakeNothing(p)
    BY <2>9, TakesNothingAtomically DEF Atomic!Next
  <2>10. CASE Return(p)
    BY <2>10, ReturnsAtomically DEF Atomic!Next
  <2> QED
    BY <1>2, <2>1, <2>2, <2>3, <2>4, <2>5, <2>6, <2>7, <2>8, <2>9, <2>10 DEF Submit, Complete
<1> QED
  BY <1>1, <1>2 DEF Next, Terminated

\* Select implements AtomicSelect: with any number of coroutines, channels,
\* threads in the middle of a submission and nodes left in the lists by
\* selections that were served elsewhere, every step of select() is one atomic
\* attempt, on the waiter that has waited longest, or nothing at all.
THEOREM SelectIsAtomic ==
  ASSUME OrderlyScript
  PROVE  Spec => IsAtomic
<1>1. Init => Atomic!Init
  BY StartsAtomically
<1>2. WInv => AheadQueued
  BY AheadIsQueued DEF WInv
<1>3. WInv /\ AheadQueued /\ AheadQueued' /\ [Next]_vars => [Atomic!Next]_Atomic!vars
  BY StepsAtomically DEF RInv
<1> QED
  BY <1>1, <1>2, <1>3, WInvHolds, PTL DEF Spec, IsAtomic, Atomic!Spec

=============================================================================
