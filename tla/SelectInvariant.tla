-------------------------- MODULE SelectInvariant --------------------------
(***************************************************************************)
(* The inductive invariant of Select.  Control and Exclusion hold for      *)
(* every script, the rest for orderly ones.                                *)
(***************************************************************************)
EXTENDS SelectProperties

\* Where a submission stands, who can still be claimed, what was submitted.
ControlOf(p) ==
  /\ pc[p] = "idle" => /\ sel[p] = NoSelection /\ queued[p] = {}
                       /\ token[p] = 0 /\ ~avail[p] /\ ~suspended[p]
  /\ pc[p] # "idle" => sel[p] \in SelectionsOfChannels
  /\ avail[p] \/ suspended[p] \/ queued[p] # {} => sel[p].wait
  /\ avail[p] \/ pc[p] = "refill" => token[p] = 0
  /\ avail[p] => pc[p] # "refill"
  /\ queued[p] \subseteq 1..Len(Alts(p))
  /\ pc[p] \in Submitting =>
       /\ IF sel[p].wait THEN suspended[p] ELSE token[p] = 0
       /\ at[p] \in 1..(Len(Alts(p)) + 1)
       /\ \A i \in queued[p] : i < at[p]
  /\ pc[p] \in Critical => at[p] <= Len(Alts(p)) /\ Alt(p).kind # "nothing"
  /\ pc[p] \in {"buffer", "refill"} => Alt(p).kind = "read"

Control == \A p \in Procs : ControlOf(p)

\* A channel is the critical section of at most one coroutine.
ExclusionOf(p) == pc[p] \in Critical => owner[Chan(p)] = p

Exclusion == \A p \in Procs : ExclusionOf(p)

-----------------------------------------------------------------------------
(* What is in the lists.                                                   *)

\* The nodes in the queues are those of alternatives that wait: every one that
\* can still be matched is there, and the one that was matched is not.
Placed(q) ==
  /\ \A l \in Lists : \A n \in Nodes :
       Within(n, q[l]) => n \in Live /\ ListOf(AltOf(n)) = l
  /\ \A n \in Live : avail[n[1]] => Within(n, q[ListOf(AltOf(n))])
  /\ \A n \in Live : token[n[1]] = n[2] => \A l \in Lists : ~Within(n, q[l])

Queues == \E q \in [Lists -> Seq(Nodes)] : Chains(Lists, Nodes, q) /\ Placed(q)

\* The witness TLC is given: what is met by following the pointers.
QueuesWalked ==
  LET q == [l \in Lists |-> Forward(l)] IN Chains(Lists, Nodes, q) /\ Placed(q)

-----------------------------------------------------------------------------
(* What holds of the selection of every coroutine.                         *)

\* A coroutine that has taken from a buffer has made room in it; a posted
\* token is that of an alternative that was submitted.
RoomOf(p) ==
  /\ pc[p] = "refill" => /\ BuffSize[Chan(p)] # Unbounded
                         /\ Len(buffer[Chan(p)]) < BuffSize[Chan(p)]
  /\ token[p] # 0 => token[p] \in 1..Len(Alts(p))
  /\ pc[p] \in Submitting => token[p] < at[p]

\* A selection that waits and was not served can still be claimed.
ClaimableOf(p) == sel[p].wait /\ Served(p) = 0 => avail[p]

\* It is served once: OneAlternative for coroutine p.
MovedOnce(p) == \A k \in Ops : Untouched(p, k) <=> ~Moved(p, k)

SettledOf(p) == Orderly(sel[p]) /\ RoomOf(p) /\ ClaimableOf(p) /\ MovedOnce(p)

Settled == \A p \in Procs : SettledOf(p)

-----------------------------------------------------------------------------
(* Who can wait beside what is in the buffer.                              *)

\* A coroutine has taken from the buffer of c and not looked for a writer yet.
Refilling(c) == \E p \in Procs : pc[p] = "refill" /\ Chan(p) = c

\* A read looks at the buffer first if there is one.
ReadsFrom(p) ==
  pc[p] \in {"buffer", "scan"} /\ Alt(p).kind = "read" =>
    (pc[p] = "buffer" <=> BuffSize[Chan(p)] # 0)

\* NoMissedMatch, at all times: what is in the buffer of c goes to nobody who
\* waits, and there is no room for what a waiting writer has but that which a
\* refilling read has just made.
MetOf(c) ==
  /\ Waiting("read", c) # {} => Empty(c) /\ ~Refilling(c) /\ Waiting("write", c) = {}
  /\ Waiting("write", c) # {} =>
       IF Refilling(c) THEN BuffSize[c] # Unbounded /\ Len(buffer[c]) + 1 = BuffSize[c]
                       ELSE Full(c)

Met == (\A p \in Procs : ReadsFrom(p)) /\ (\A c \in Channels : MetOf(c))

-----------------------------------------------------------------------------
(* What has become of the values.                                          *)

\* Every select that has returned has left its result.
CountedOf(p) == Len(results[p]) = IF pc[p] = "idle" THEN round[p] ELSE round[p] - 1

Counted == \A p \in Procs : CountedOf(p)

\* Of two values of one writer, v was written before w.
Older(v, w) == v[1] = w[1] => v[2] < w[2]

\* The results q has of reads of c; what q has read through c and not returned.
ReadFrom(q, c) == {i \in DOMAIN results[q] : results[q][i].kind = "read" /\ results[q][i].chan = c}
InHand(q, c) ==
  Served(q) # 0 /\ Alts(q)[Served(q)].kind = "read" /\ Alts(q)[Served(q)].chan = c
Hand(q) == slot[q][Alts(q)[Served(q)].op]

\* The results of q, what q has in hand and what is in the buffer are three
\* parts of one queue, for every channel c and every reader q of it.
OrderedOf(c) ==
  /\ \A i, j \in DOMAIN buffer[c] : i < j => Older(buffer[c][i], buffer[c][j])
  /\ \A q \in Procs : \A i \in ReadFrom(q, c) : \A j \in DOMAIN buffer[c] :
       Older(results[q][i].val, buffer[c][j])
  /\ \A q \in Procs : InHand(q, c) =>
       /\ \A j \in DOMAIN buffer[c] : Older(Hand(q), buffer[c][j])
       /\ \A i \in ReadFrom(q, c) : Older(results[q][i].val, Hand(q))

\* A read does not return without a value.
Delivered ==
  \A q \in Procs : \A i \in DOMAIN results[q] :
    results[q][i].kind = "read" => results[q][i].val \in Values

Ordered == Delivered /\ ReadInOrder /\ \A c \in Channels : OrderedOf(c)

-----------------------------------------------------------------------------
(* Who holds a mutex.                                                      *)

\* p, which is inside a channel, finds the guards of an action true.  All of them
\* fail for one that would lock its own context twice.
GoesOn(p) ==
  \/ pc[p] = "buffer" /\ ~Empty(Chan(p))                      \* TakeBuffered, LoseClaim
  \/ pc[p] = "refill" /\ (First(p) = Null \/ avail[First(p)[1]])  \* RefillNone, Refill
  \/ BothContextsLocked(p) /\ ~avail[First(p)[1]]             \* DropClaimed
  \/ pc[p] = "scan" /\ BothContextsLocked(p) /\ CallerAvailable(p)  \* MeetPeer
  \/ NoPeer(p) /\ Alt(p).kind = "write" /\ ~Full(Chan(p))     \* Store, LoseClaim
  \/ Unserved(p)                                             \* Park, PassOver

\* A mutex is held only by who is inside its channel.
HeldOf(c) == \A p \in Procs : owner[c] = p => pc[p] \in Critical /\ Chan(p) = c

Held == \A c \in Channels : HeldOf(c)

\* Who waits for the mutex of a channel waits for somebody who can take a step:
\* the safety half of SubmissionEnds.  (dequeue_first_available; std::scoped_lock
\* in submit_with_wait, submit_if_ready and clear_wait)
NobodyStuck == Held /\ \A c \in Channels : owner[c] # Null => GoesOn(owner[c])

-----------------------------------------------------------------------------
IInv == TypeOK /\ Control /\ Exclusion /\ Settled /\ Queues

IInvWalked == TypeOK /\ Control /\ Exclusion /\ Settled /\ QueuesWalked /\ Met
                /\ Counted /\ Ordered /\ NobodyStuck

=============================================================================
