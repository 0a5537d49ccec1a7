------------------------------- MODULE Select -------------------------------
(***************************************************************************)
(* select.hpp, read_op.hpp, write_op.hpp, nothing_op.hpp and the parts of  *)
(* detail/ they run on: coroutines that select among reads and writes of   *)
(* shared channels.                                                        *)
(*                                                                         *)
(* A coroutine p goes through its script: one select() or select_ready()   *)
(* per round.  select() suspends the coroutine and submits the             *)
(* alternatives one by one while the coroutine is suspended: pc[p] is      *)
(* where that submission stands, suspended[p] where the coroutine does.    *)
(* Another thread may match a submitted alternative, and post the          *)
(* resumption of p, before the submission is over.                         *)
(*                                                                         *)
(* Steps.  A channel's mutex is owner[c].  While a thread holds it, the    *)
(* only state others can change under it is the avail_flag of a wait       *)
(* context, so a critical section is cut at every place where it looks at  *)
(* one.  Once a flag is claimed, the transfer of the value, the posting of *)
(* the resumption and the release of the mutex commute with the steps of   *)
(* all others and are part of the claiming step.                           *)
(***************************************************************************)
EXTENDS WaiterList, Selections

CONSTANTS
  Procs,       \* the coroutines
  Script       \* per coroutine, per round: the selections it may make

ASSUME ScriptAssumption ==
  /\ Null \notin Procs
  /\ Null \notin Procs \X (1..MaxAlts)
  /\ Null \notin Procs \X Nat \X Ops
  /\ Script \in [Procs -> Seq(SUBSET SelectionsOfChannels)]

ASSUME ProcsAssumption == IsFiniteSet(Procs)

VARIABLES
  round,       \* round[p]: selects begun
  sel,         \* sel[p]: the selection under way
  pc,          \* pc[p]: the submission: see PCs
  at,          \* at[p]: the alternative being submitted
  suspended,   \* suspended[p]: the coroutine waits for its promise
  avail,       \* avail[p]: select_wait_context::avail_flag
  token,       \* token[p]: the token posted to p, 0 if none was
  queued,      \* queued[p]: alternatives whose wait node was emplaced
  slot,        \* slot[p][k]: send_slot of operation k
  owner,       \* owner[c]: who holds the mutex of c
  buffer,      \* buffer[c]: channel_buffer
  results      \* results[p]: what the selects of p returned, a history

chanVars == <<owner, buffer>>
procVars == <<round, sel, pc, at, suspended, avail, token, queued, slot, results>>
vars == <<linkVars, chanVars, procVars>>

\* idle   between two selects        lock    to submit alternative at[p]
\* buffer holds the mutex, reads     scan    looks for a waiting peer
\* refill has taken from the buffer, looks for a waiting writer
\* done   the submission is over, submit_mutex is free
PCs == {"idle", "lock", "buffer", "scan", "refill", "done"}
Critical == {"buffer", "scan", "refill"}
Submitting == {"lock"} \cup Critical

Nodes == Procs \X (1..MaxAlts)
Values == Procs \X Nat \X Ops          \* who sent it, in which round, in which op
Results == [kind : {"read", "write"}, chan : Channels, val : Values \cup {Null}]
             \cup [kind : {"nothing"}]

Alts(p) == sel[p].alts
Alt(p) == sel[p].alts[at[p]]
Chan(p) == Alt(p).chan
AltOf(n) == sel[n[1]].alts[n[2]]

EmptySlots == [k \in Ops |-> Null]

Empty(c) == buffer[c] = <<>>
\* A faulty full() that lets the buffer grow one past its size.
FullTooLate(c) == BuffSize[c] # Unbounded /\ Len(buffer[c]) > BuffSize[c]
Full(c) == BuffSize[c] # Unbounded /\ Len(buffer[c]) = BuffSize[c]

Init ==
  /\ LinksInit(Lists, Nodes)
  /\ round = [p \in Procs |-> 0]
  /\ sel = [p \in Procs |-> NoSelection]
  /\ pc = [p \in Procs |-> "idle"]
  /\ at = [p \in Procs |-> 0]
  /\ suspended = [p \in Procs |-> FALSE]
  /\ avail = [p \in Procs |-> FALSE]
  /\ token = [p \in Procs |-> 0]
  /\ queued = [p \in Procs |-> {}]
  /\ slot = [p \in Procs |-> EmptySlots]
  /\ owner = [c \in Channels |-> Null]
  /\ buffer = [c \in Channels |-> <<>>]
  /\ results = [p \in Procs |-> <<>>]

-----------------------------------------------------------------------------
(* What critical sections do to buffers and flags.                         *)

\* A faulty enqueue that puts a value before the older ones.
EnqueuedAhead(c, v) == [buffer EXCEPT ![c] = <<v>> \o @]

Enqueued(c, v) == [buffer EXCEPT ![c] = Append(@, v)]

\* A faulty dequeue that leaves the value where it is.
Peeked(c) == buffer

Dequeued(c) == [buffer EXCEPT ![c] = Tail(@)]

\* A faulty submission that does not look at the caller's own flag.
CallerAssumed(p) == TRUE

\* The coroutine that submits has not been claimed through an alternative
\* submitted before.  select_ready() has no flag.
CallerAvailable(p) == sel[p].wait => avail[p]

\* A faulty claim that leaves the flag of the waiter set.
CallerClaimed(p, q) == [avail EXCEPT ![p] = FALSE]

BothClaimed(p, q) == [avail EXCEPT ![p] = FALSE, ![q] = FALSE]

-----------------------------------------------------------------------------
(* Ways to leave a critical section.                                       *)

Unlock(p) == owner' = [owner EXCEPT ![Chan(p)] = Null]

\* Go on with alternative j.
SubmitNext(p, j) ==
  /\ pc' = [pc EXCEPT ![p] = "lock"]
  /\ at' = [at EXCEPT ![p] = j]

\* The alternative is ready: nothing else is submitted.
Finish(p) == pc' = [pc EXCEPT ![p] = "done"] /\ UNCHANGED at

\* `return true` without a ready alternative: the rest of the operation is
\* skipped and select goes on with the next one.
SkipOperation(p) ==
  \E j \in (at[p] + 1)..(Len(Alts(p)) + 1) :
    /\ j <= Len(Alts(p)) => Alts(p)[j].op # Alt(p).op
    /\ \A i \in (at[p] + 1)..(j - 1) : Alts(p)[i].op = Alt(p).op
    /\ SubmitNext(p, j)

-----------------------------------------------------------------------------
(* select() and select_ready(): entry, and taking a channel's mutex.       *)

Begin(p) ==
  /\ pc[p] = "idle"
  /\ round[p] < Len(Script[p])
  /\ \E s \in Script[p][round[p] + 1] :
       /\ sel' = [sel EXCEPT ![p] = s]
       /\ slot' = [slot EXCEPT ![p] =
                     [k \in Ops |-> IF WritesInOp(s, k)
                                    THEN <<p, round[p] + 1, k>> ELSE Null]]
       /\ suspended' = [suspended EXCEPT ![p] = s.wait]
       /\ avail' = [avail EXCEPT ![p] = s.wait]
  /\ round' = [round EXCEPT ![p] = @ + 1]
  /\ SubmitNext(p, 1)
  /\ UNCHANGED <<linkVars, chanVars, token, queued, results>>

\* A read of a channel with a buffer looks at the buffer first.
Lock(p) ==
  /\ pc[p] = "lock"
  /\ at[p] <= Len(Alts(p))
  /\ Alt(p).kind # "nothing"
  /\ owner[Chan(p)] = Null
  /\ owner' = [owner EXCEPT ![Chan(p)] = p]
  /\ pc' = [pc EXCEPT ![p] = IF Alt(p).kind = "read" /\ BuffSize[Chan(p)] # 0
                             THEN "buffer" ELSE "scan"]
  /\ UNCHANGED <<linkVars, buffer, round, sel, at, suspended, avail, token,
                 queued, slot, results>>

-----------------------------------------------------------------------------
(* A read of a channel with a buffer.                                      *)

\* Claim the own context and take the oldest value.  If a writer can be
\* waiting the buffer is refilled next.
TakeBuffered(p) ==
  LET c == Chan(p) IN
  /\ pc[p] = "buffer" /\ ~Empty(c)
  /\ CallerAvailable(p)
  /\ avail' = [avail EXCEPT ![p] = FALSE]
  /\ buffer' = Dequeued(c)
  /\ slot' = [slot EXCEPT ![p][Alt(p).op] = Head(buffer[c])]
  /\ IF BuffSize[c] = Unbounded
     THEN Finish(p) /\ Unlock(p) /\ token' = [token EXCEPT ![p] = at[p]]
     ELSE /\ pc' = [pc EXCEPT ![p] = "refill"]
          /\ UNCHANGED <<at, owner, token>>
  /\ UNCHANGED <<linkVars, round, sel, suspended, queued, results>>

\* Move the value of the oldest available writer into the buffer and wake it.
Refill(p) ==
  LET c == Chan(p)
      n == first[WriterList(c)]
      q == n[1]
  IN
  /\ pc[p] = "refill" /\ n # Null
  /\ avail[q]
  /\ avail' = [avail EXCEPT ![q] = FALSE]
  /\ PopFirst(WriterList(c))
  /\ buffer' = Enqueued(c, slot[q][AltOf(n).op])
  /\ slot' = [slot EXCEPT ![q][AltOf(n).op] = Null]
  /\ token' = [token EXCEPT ![q] = n[2], ![p] = at[p]]
  /\ Finish(p) /\ Unlock(p)
  /\ UNCHANGED <<round, sel, suspended, queued, results>>

\* A faulty read that forgets the writers that wait.
RefillSkipped(p) ==
  /\ pc[p] = "refill"
  /\ token' = [token EXCEPT ![p] = at[p]]
  /\ Finish(p) /\ Unlock(p)
  /\ UNCHANGED <<linkVars, buffer, round, sel, suspended, avail, queued, slot, results>>

\* No writer waits.
RefillNone(p) ==
  /\ pc[p] = "refill" /\ first[WriterList(Chan(p))] = Null
  /\ token' = [token EXCEPT ![p] = at[p]]
  /\ Finish(p) /\ Unlock(p)
  /\ UNCHANGED <<linkVars, buffer, round, sel, suspended, avail, queued, slot, results>>

-----------------------------------------------------------------------------
(* dequeue_first_available: the mutex of the first waiter's context, and   *)
(* with it that of the caller's own one if there is one, is held for one   *)
(* turn of the loop.  A caller whose own node is the first of the list     *)
(* would lock its own context twice: std::lock never returns, p takes no   *)
(* further step and keeps the mutex of the channel.                        *)

\* dequeue_first_available was given the context of the caller.
WithOwnContext(p) == pc[p] = "scan" /\ sel[p].wait

First(p) == first[PeerList(Alt(p))]

BothContextsLocked(p) ==
  /\ pc[p] \in {"scan", "refill"}
  /\ First(p) # Null
  /\ WithOwnContext(p) => First(p)[1] # p

\* A faulty turn of the loop that does not pop a waiter it finds claimed.
SpinOnClaimed(p) ==
  /\ BothContextsLocked(p)
  /\ ~avail[First(p)[1]]
  /\ UNCHANGED vars

\* The first waiter was claimed elsewhere: drop it and look again.
DropClaimed(p) ==
  /\ BothContextsLocked(p)
  /\ ~avail[First(p)[1]]
  /\ PopFirst(PeerList(Alt(p)))
  /\ UNCHANGED <<chanVars, procVars>>

\* The first waiter is available and so is the caller: claim both, hand the
\* value over, wake the waiter.
MeetPeer(p) ==
  LET n == First(p)
      q == n[1]
      k == AltOf(n).op
  IN
  /\ pc[p] = "scan" /\ BothContextsLocked(p)
  /\ avail[q]
  /\ CallerAvailable(p)
  /\ avail' = BothClaimed(p, q)
  /\ PopFirst(PeerList(Alt(p)))
  /\ slot' = [slot EXCEPT ![p][Alt(p).op] = slot[q][k],
                          ![q][k] = slot[p][Alt(p).op]]
  /\ token' = [token EXCEPT ![q] = n[2], ![p] = at[p]]
  /\ Finish(p) /\ Unlock(p)
  /\ UNCHANGED <<buffer, round, sel, suspended, queued, results>>

\* A faulty dequeue_first_available that gives up at a waiter it finds claimed.
NoPeerAtOnce(p) ==
  /\ pc[p] = "scan"
  /\ First(p) # Null => BothContextsLocked(p) /\ ~avail[First(p)[1]]

\* dequeue_first_available returned nullptr: no waiter is left, or the first
\* one is available and the caller no longer is.
NoPeer(p) ==
  /\ pc[p] = "scan"
  /\ \/ First(p) = Null
     \/ BothContextsLocked(p) /\ sel[p].wait /\ avail[First(p)[1]] /\ ~avail[p]

-----------------------------------------------------------------------------
(* Nothing to match with.                                                  *)

\* A write finds room in the buffer.
Store(p) ==
  LET c == Chan(p) IN
  /\ NoPeer(p) /\ Alt(p).kind = "write" /\ ~Full(c)
  /\ CallerAvailable(p)
  /\ avail' = [avail EXCEPT ![p] = FALSE]
  /\ buffer' = Enqueued(c, slot[p][Alt(p).op])
  /\ slot' = [slot EXCEPT ![p][Alt(p).op] = Null]
  /\ token' = [token EXCEPT ![p] = at[p]]
  /\ Finish(p) /\ Unlock(p)
  /\ UNCHANGED <<linkVars, round, sel, suspended, queued, results>>

\* A faulty submission that tries the claim again when it fails.
RetryClaim(p) ==
  /\ \/ pc[p] = "buffer" /\ ~Empty(Chan(p))
     \/ NoPeer(p) /\ Alt(p).kind = "write" /\ ~Full(Chan(p))
  /\ sel[p].wait /\ ~avail[p]
  /\ UNCHANGED vars

\* The buffer could serve the alternative, but claim(select_ctx) fails.
LoseClaim(p) ==
  /\ \/ pc[p] = "buffer" /\ ~Empty(Chan(p))
     \/ NoPeer(p) /\ Alt(p).kind = "write" /\ ~Full(Chan(p))
  /\ sel[p].wait /\ ~avail[p]
  /\ SkipOperation(p) /\ Unlock(p)
  /\ UNCHANGED <<linkVars, buffer, round, sel, suspended, avail, token, queued,
                 slot, results>>

\* Neither a peer nor the buffer can serve the alternative.
Unserved(p) ==
  \/ pc[p] = "buffer" /\ Empty(Chan(p))
  \/ NoPeer(p) /\ (Alt(p).kind = "write" => Full(Chan(p)))

\* submit_with_wait: wait for a value.
Park(p) ==
  /\ Unserved(p) /\ sel[p].wait
  /\ Enqueue(ListOf(Alt(p)), <<p, at[p]>>)
  /\ queued' = [queued EXCEPT ![p] = @ \cup {at[p]}]
  /\ SubmitNext(p, at[p] + 1) /\ Unlock(p)
  /\ UNCHANGED <<buffer, round, sel, suspended, avail, token, slot, results>>

\* submit_if_ready: try the next alternative.
PassOver(p) ==
  /\ Unserved(p) /\ ~sel[p].wait
  /\ SubmitNext(p, at[p] + 1) /\ Unlock(p)
  /\ UNCHANGED <<linkVars, buffer, round, sel, suspended, avail, token, queued,
                 slot, results>>

\* ops::nothing is always ready.
TakeNothing(p) ==
  /\ pc[p] = "lock" /\ at[p] <= Len(Alts(p)) /\ Alt(p).kind = "nothing"
  /\ token' = [token EXCEPT ![p] = at[p]]
  /\ Finish(p)
  /\ UNCHANGED <<linkVars, chanVars, round, sel, suspended, avail, queued, slot, results>>

\* select() has submitted every alternative and lets submit_mutex go.
EndSubmit(p) ==
  /\ pc[p] = "lock" /\ at[p] > Len(Alts(p))
  /\ Finish(p)
  /\ UNCHANGED <<linkVars, chanVars, round, sel, suspended, avail, token, queued,
                 slot, results>>

-----------------------------------------------------------------------------
(* The rest of select(): the resumed coroutine.                            *)

\* The posted resumption runs; the coroutine goes on once it has submit_mutex.
Resume(p) ==
  /\ suspended[p] /\ token[p] # 0
  /\ pc[p] = "done"
  /\ suspended' = [suspended EXCEPT ![p] = FALSE]
  /\ UNCHANGED <<linkVars, chanVars, round, sel, pc, at, avail, token, queued,
                 slot, results>>

\* clear_wait of read and of write both unlink the node through reader_list().
ClearedThrough(a) == ReaderList(a.chan)

\* A faulty clear_wait that only looks behind the successful alternative.
ToClearLater(p) == {i \in queued[p] : i > token[p]}

\* The nodes clear_wait unlinks: submitted, and not the successful one's.
ToClear(p) == queued[p] \ {token[p]}

\* clear_wait, one alternative after the other.
ClearWait(p) ==
  /\ ~suspended[p] /\ token[p] # 0
  /\ \E i \in ToClear(p) :
       /\ \A j \in ToClear(p) : i <= j
       /\ owner[Alts(p)[i].chan] = Null
       /\ Dequeue(ClearedThrough(Alts(p)[i]), <<p, i>>)
       /\ queued' = [queued EXCEPT ![p] = @ \ {i}]
  /\ UNCHANGED <<chanVars, round, sel, pc, at, suspended, avail, token, slot, results>>

\* get_result, and the end of the frame that held the context and the nodes.
Return(p) ==
  LET a == Alts(p)[token[p]] IN
  /\ ~suspended[p] /\ token[p] # 0
  /\ ToClear(p) = {}
  /\ results' = [results EXCEPT ![p] = Append(@,
       CASE a.kind = "read" -> [kind |-> "read", chan |-> a.chan, val |-> slot[p][a.op]]
         [] a.kind = "write" ->
              [kind |-> "write", chan |-> a.chan, val |-> <<p, round[p], a.op>>]
         [] OTHER -> [kind |-> "nothing"])]
  /\ sel' = [sel EXCEPT ![p] = NoSelection]
  /\ pc' = [pc EXCEPT ![p] = "idle"]
  /\ at' = [at EXCEPT ![p] = 0]
  /\ avail' = [avail EXCEPT ![p] = FALSE]
  /\ token' = [token EXCEPT ![p] = 0]
  /\ queued' = [queued EXCEPT ![p] = {}]
  /\ slot' = [slot EXCEPT ![p] = EmptySlots]
  /\ UNCHANGED <<linkVars, chanVars, round, suspended>>

-----------------------------------------------------------------------------
Submit(p) ==
  \/ Lock(p) \/ TakeBuffered(p) \/ Refill(p) \/ RefillNone(p)
  \/ DropClaimed(p) \/ MeetPeer(p) \/ Store(p) \/ LoseClaim(p)
  \/ Park(p) \/ PassOver(p) \/ TakeNothing(p) \/ EndSubmit(p)

Complete(p) == Resume(p) \/ ClearWait(p) \/ Return(p)

ScriptDone(p) == pc[p] = "idle" /\ round[p] = Len(Script[p])

\* All coroutines have come to the end of their scripts.
Terminated == (\A p \in Procs : ScriptDone(p)) /\ UNCHANGED vars

Next ==
  \/ \E p \in Procs : Begin(p) \/ Submit(p) \/ Complete(p)
  \/ Terminated

Spec == Init /\ [][Next]_vars

\* The executor runs what is posted to it and the threads it runs on are
\* scheduled: a coroutine that can take a step takes one.
FairSpec == Spec /\ \A p \in Procs : WF_vars(Begin(p) \/ Submit(p) \/ Complete(p))

=============================================================================
