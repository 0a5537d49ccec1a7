-------------------------- MODULE SelectProperties --------------------------
(***************************************************************************)
(* What select() and select_ready() promise: the properties of Select.     *)
(***************************************************************************)
EXTENDS Select

\* The selections the promises on waiting hold for: a select() that waits has
\* reads for alternatives, or only one.  (With a write among several, or both
\* ends of one channel, the code does not keep them: see MCSelect.)
Orderly(s) ==
  s.wait => Len(s.alts) = 1 \/ \A i \in 1..Len(s.alts) : s.alts[i].kind = "read"

OrderlyScript ==
  \A p \in Procs : \A r \in 1..Len(Script[p]) : \A s \in Script[p][r] : Orderly(s)

\* The part of the type invariant that says where every submission stands.
ControlTypeOK ==
  /\ LinksTypeOK(Lists, Nodes)
  /\ round \in [Procs -> Nat]
  /\ sel \in [Procs -> SelectionsOfChannels \cup {NoSelection}]
  /\ pc \in [Procs -> PCs]
  /\ at \in [Procs -> 0..(MaxAlts + 1)]
  /\ suspended \in [Procs -> BOOLEAN]
  /\ avail \in [Procs -> BOOLEAN]
  /\ token \in [Procs -> 0..MaxAlts]
  /\ queued \in [Procs -> SUBSET (1..MaxAlts)]
  /\ owner \in [Channels -> Procs \cup {Null}]

\* The part that is about the values: slots, buffers, results.
DataTypeOK ==
  /\ slot \in [Procs -> [Ops -> Values \cup {Null}]]
  /\ buffer \in [Channels -> Seq(Values)]
  /\ \A c \in Channels : BuffSize[c] # Unbounded => Len(buffer[c]) <= BuffSize[c]
  /\ results \in [Procs -> Seq(Results)]

\* Every variable holds values of its type, and no buffer holds more than its
\* size nor an empty slot.  (The state of select.hpp, channel_shared_state.hpp,
\* channel_buffer.hpp and channel_waiter_list.hpp.)
TypeOK == ControlTypeOK /\ DataTypeOK

-----------------------------------------------------------------------------
(* One selection, one transfer.                                            *)

\* The alternative of the selection of p that took effect: the one whose
\* token was posted, or the read that refills the buffer it has taken from.
Served(p) == IF token[p] # 0 THEN token[p]
             ELSE IF pc[p] = "refill" THEN at[p]
             ELSE 0

\* The slot of operation k is as the operation's constructor left it.
Untouched(p, k) ==
  slot[p][k] = IF WritesInOp(sel[p], k) THEN <<p, round[p], k>> ELSE Null

\* The alternative of p that took effect belongs to operation k and moved a value.
Moved(p, k) ==
  /\ Served(p) # 0
  /\ Alts(p)[Served(p)].op = k /\ Alts(p)[Served(p)].kind # "nothing"

\* A selection moves exactly one value: from the moment an alternative has
\* taken effect its operation, and no other one of the selection, has given
\* its value away or received one.  "Cancellation is fully deterministic. For
\* example, when you await reads on two different channels, only one of these
\* will have a value consumed." (README.md)
OneAlternative ==
  \A p \in Procs : \A k \in Ops : Untouched(p, k) <=> ~Moved(p, k)

\* A promise is fulfilled at most once: a posted token is not replaced by
\* another one.  (assert(valid()) in async_promise::set_value)
SetValueOnce ==
  [][\A p \in Procs : token[p] # 0 => token'[p] \in {token[p], 0}]_vars

-----------------------------------------------------------------------------
(* Values.                                                                 *)

\* Every value some write was given so far.
ValuesOfWrites == UNION {{p} \X (1..round[p]) \X (1..MaxAlts) : p \in Procs}

\* The write of value v took effect: it has returned, or its token is posted.
Sent(v) ==
  LET p == v[1] IN
  \/ v[2] \in DOMAIN results[p] /\ results[p][v[2]].kind = "write"
       /\ results[p][v[2]].val = v
  \/ /\ v[2] = round[p] /\ token[p] # 0
     /\ Alts(p)[token[p]].kind = "write" /\ Alts(p)[token[p]].op = v[3]

\* The places beyond its writer where value v is.
InBuffers(v) ==
  UNION {{<<"buffer", c, i>> : i \in {j \in DOMAIN buffer[c] : buffer[c][j] = v}} :
           c \in Channels}
InSlots(v) ==
  UNION {{<<"slot", q, k>> : k \in {o \in Ops :
            slot[q][o] = v /\ ~WritesInOp(sel[q], o)}} : q \in Procs}
InResults(v) ==
  UNION {{<<"result", q, i>> : i \in {j \in DOMAIN results[q] :
            results[q][j].kind = "read" /\ results[q][j].val = v}} : q \in Procs}

Holders(v) == InBuffers(v) \cup InSlots(v) \cup InResults(v)

\* No value is lost, duplicated or delivered without having been sent: a value
\* whose write took effect is in exactly one buffer, slot of a reader or
\* result of a read; a value that was not sent is in none.
ValuesConserved ==
  \A v \in ValuesOfWrites : Cardinality(Holders(v)) = IF Sent(v) THEN 1 ELSE 0

\* What one coroutine reads of another through one channel it reads in the
\* order of the writes, whether the values went through the buffer, from
\* waiting writers into it, or from hand to hand.  "Readers and writers are
\* queued in FIFO order." (README.md)
ReadInOrder ==
  \A q \in Procs : \A i, j \in DOMAIN results[q] :
    LET a == results[q][i]
        b == results[q][j]
    IN  /\ i < j /\ a.kind = "read" /\ b.kind = "read"
        /\ a.chan = b.chan /\ a.val[1] = b.val[1]
        => a.val[2] < b.val[2]

-----------------------------------------------------------------------------
(* Waiting.                                                                *)

\* The alternatives of kind k on channel c that wait and can still be matched.
Waiting(k, c) ==
  {n \in Nodes : /\ n[2] \in queued[n[1]] /\ avail[n[1]]
                 /\ AltOf(n).kind = k /\ AltOf(n).chan = c}

\* No wake-up is missed: when no thread is inside the channel, readers wait
\* only on an empty buffer, writers only on a full one, and no reader waits
\* beside a writer of another coroutine.  ("Buffer was empty with readers
\* waiting", "Buffer was full with writers waiting": write_op.hpp, read_op.hpp)
NoMissedMatch ==
  \A c \in Channels : owner[c] = Null =>
    /\ Waiting("read", c) # {} => Empty(c)
    /\ Waiting("write", c) # {} => Full(c)
    /\ \A r \in Waiting("read", c), w \in Waiting("write", c) : r[1] = w[1]

\* A wait node is live from its submission until its wait is cleared.
Live == {n \in Nodes : n[2] \in queued[n[1]]}

\* No pointer outlives what it points to: the lists of every channel, and the
\* live nodes in them, point to live nodes only, so that no one follows a
\* pointer into the frame of a select that has returned.  "The first ready
\* operation will cancel all others." (README.md)
NoDanglingPointer ==
  /\ \A l \in Lists : {first[l], last[l]} \subseteq Live \cup {Null}
  /\ \A n \in Live : {prev[n], next[n]} \subseteq Live \cup {Null}

\* Whoever can still be matched can be found: a live node whose coroutine is
\* available is met when its list is walked from first_, exactly once.
WaitersReachable ==
  \A l \in Lists :
    LET walk == Forward(l) IN
    \A n \in Live : avail[n[1]] /\ ListOf(AltOf(n)) = l =>
      \E i \in DOMAIN walk : walk[i] = n /\ \A j \in DOMAIN walk : walk[j] = n => j = i

\* The assertions of channel_waiter_list::dequeue hold whenever clear_wait
\* unlinks a node.
DequeueAssertions ==
  \A p \in Procs : ~suspended[p] /\ token[p] # 0 =>
    \A i \in ToClear(p) : owner[Alts(p)[i].chan] = Null =>
      DequeueAsserts(ClearedThrough(Alts(p)[i]), <<p, i>>)

-----------------------------------------------------------------------------
(* Progress.                                                               *)

\* A submission comes to its end: no coroutine is stuck inside a channel.
SubmissionEnds ==
  \A p \in Procs : (pc[p] \in Critical) ~> (pc[p] \notin Critical)

\* A coroutine whose selection was matched returns from it.
MatchedReturns == \A p \in Procs : (token[p] # 0) ~> (pc[p] = "idle")

\* All coroutines come to the end of their scripts (for scripts whose reads
\* and writes balance, like the tasks of tests/asiochan/test_channel.cpp).
AllReturn == <>(\A p \in Procs : ScriptDone(p))

=============================================================================
