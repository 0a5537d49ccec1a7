----------------------------- MODULE WaiterList -----------------------------
(***************************************************************************)
(* detail/channel_waiter_list.hpp: the intrusive doubly linked lists in    *)
(* which a channel keeps the readers, and the writers, that wait.          *)
(*                                                                         *)
(* The nodes live in the coroutine frames of the selects that wait, so a   *)
(* list only ever holds pointers: first and last are the two pointers of   *)
(* every list, prev and next those of every node.  The modules that use    *)
(* the lists say which lists and which nodes there are; here they are the  *)
(* domains of the four functions.  Every operation runs under the mutex of *)
(* the channel the list belongs to and is one step.                        *)
(***************************************************************************)
EXTENDS Naturals, Sequences, FiniteSets

CONSTANT Null   \* nullptr, and whatever else is not there

VARIABLES
  first,        \* [Lists -> Nodes \cup {Null}]  first_
  last,         \* [Lists -> Nodes \cup {Null}]  last_
  prev,         \* [Nodes -> Nodes \cup {Null}]  node.prev
  next          \* [Nodes -> Nodes \cup {Null}]  node.next

linkVars == <<first, last, prev, next>>

LinksInit(Lists, Nodes) ==
  /\ first = [l \in Lists |-> Null]
  /\ last  = [l \in Lists |-> Null]
  /\ prev  = [n \in Nodes |-> Null]
  /\ next  = [n \in Nodes |-> Null]

LinksTypeOK(Lists, Nodes) ==
  /\ first \in [Lists -> Nodes \cup {Null}]
  /\ last  \in [Lists -> Nodes \cup {Null}]
  /\ prev  \in [Nodes -> Nodes \cup {Null}]
  /\ next  \in [Nodes -> Nodes \cup {Null}]

-----------------------------------------------------------------------------
(* The three operations that change a list.                                *)

\* A faulty Enqueue that leaves last_ where it was when the list is not empty.
EnqueueKeepsLast(l, n) ==
  /\ prev' = [prev EXCEPT ![n] = last[l]]
  /\ next' = IF first[l] = Null
             THEN [next EXCEPT ![n] = Null]
             ELSE [next EXCEPT ![n] = Null, ![last[l]] = n]
  /\ first' = IF first[l] = Null THEN [first EXCEPT ![l] = n] ELSE first
  /\ last' = IF first[l] = Null THEN [last EXCEPT ![l] = n] ELSE last

\* A faulty Enqueue that puts the node before those that wait already.
EnqueueAtFront(l, n) ==
  /\ next' = [next EXCEPT ![n] = first[l]]
  /\ prev' = IF first[l] = Null
             THEN [prev EXCEPT ![n] = Null]
             ELSE [prev EXCEPT ![n] = Null, ![first[l]] = n]
  /\ first' = [first EXCEPT ![l] = n]
  /\ last' = IF first[l] = Null THEN [last EXCEPT ![l] = n] ELSE last

\* Append node n to list l.
Enqueue(l, n) ==
  /\ prev' = [prev EXCEPT ![n] = last[l]]
  /\ next' = IF first[l] = Null
             THEN [next EXCEPT ![n] = Null]
             ELSE [next EXCEPT ![n] = Null, ![last[l]] = n]
  /\ first' = IF first[l] = Null THEN [first EXCEPT ![l] = n] ELSE first
  /\ last' = [last EXCEPT ![l] = n]

\* Unlink node n through list l.  first_ and last_ of l move only if they
\* point to n; the neighbours of n are joined whatever list they are in.  A
\* node that was popped before has no neighbours and nothing happens.
Dequeue(l, n) ==
  /\ first' = IF first[l] = n THEN [first EXCEPT ![l] = next[n]] ELSE first
  /\ last' = IF last[l] = n THEN [last EXCEPT ![l] = prev[n]] ELSE last
  /\ next' = [m \in DOMAIN next |-> IF m = n THEN Null
                                    ELSE IF m = prev[n] THEN next[n]
                                    ELSE next[m]]
  /\ prev' = [m \in DOMAIN prev |-> IF m = n THEN Null
                                    ELSE IF m = next[n] THEN prev[n]
                                    ELSE prev[m]]

\* The two assertions at the head of dequeue.
DequeueAsserts(l, n) ==
  /\ prev[n] # Null \/ first[l] = n \/ (prev[n] = Null /\ next[n] = Null)
  /\ next[n] # Null \/ last[l] = n \/ (prev[n] = Null /\ next[n] = Null)

\* A faulty pop that forgets to reset the links between the node that leaves
\* the list and the one that becomes its first.
PopFirstKeepsLinks(l) ==
  LET n == first[l] IN
  /\ first' = [first EXCEPT ![l] = next[n]]
  /\ last' = IF next[n] = Null THEN [last EXCEPT ![l] = Null] ELSE last
  /\ UNCHANGED <<prev, next>>

\* pop(), the local function of dequeue_first_available: unlink the first
\* node of list l, which is not empty.
PopFirst(l) ==
  LET n == first[l] IN
  /\ first' = [first EXCEPT ![l] = next[n]]
  /\ last' = IF next[n] = Null THEN [last EXCEPT ![l] = Null] ELSE last
  /\ next' = [next EXCEPT ![n] = Null]
  /\ prev' = [m \in DOMAIN prev |-> IF m = next[n] THEN Null ELSE prev[m]]

-----------------------------------------------------------------------------
(* What the pointers stand for.                                            *)

\* The pointers of list l spell the sequence s.
Spells(l, s) ==
  /\ first[l] = IF s = <<>> THEN Null ELSE s[1]
  /\ last[l] = IF s = <<>> THEN Null ELSE s[Len(s)]
  /\ \A i \in 1..Len(s) :
       /\ next[s[i]] = IF i = Len(s) THEN Null ELSE s[i + 1]
       /\ prev[s[i]] = IF i = 1 THEN Null ELSE s[i - 1]

\* Node n stands in the sequence s.
Within(n, s) == \E i \in 1..Len(s) : s[i] = n

\* The lists are queues: q says which nodes each of them holds in which order,
\* no node is in two places, and the pointers of all other nodes are null.
Chains(Lists, Nodes, q) ==
  /\ q \in [Lists -> Seq(Nodes)]
  /\ \A l \in Lists : Spells(l, q[l])
  /\ \A l, m \in Lists : \A i \in 1..Len(q[l]), j \in 1..Len(q[m]) :
       q[l][i] = q[m][j] => l = m /\ i = j
  /\ \A n \in Nodes : (\A l \in Lists : ~Within(n, q[l])) =>
       prev[n] = Null /\ next[n] = Null

\* The sequence s without its element k.
Without(s, k) == [i \in 1..(Len(s) - 1) |-> IF i < k THEN s[i] ELSE s[i + 1]]

\* Where one is after k steps from first_ along next, as in the loop of
\* dequeue_first_available; cut off after as many steps as there are nodes.
Hops(l) ==
  LET hop[k \in 0..Cardinality(DOMAIN next)] ==
        IF k = 0 THEN first[l]
        ELSE IF hop[k - 1] = Null THEN Null
        ELSE next[hop[k - 1]]
  IN  hop

\* The sequence met by that walk.
Forward(l) ==
  LET met == {k \in 0..(Cardinality(DOMAIN next) - 1) : Hops(l)[k] # Null}
  IN  [k \in 1..Cardinality(met) |-> Hops(l)[k - 1]]

=============================================================================
