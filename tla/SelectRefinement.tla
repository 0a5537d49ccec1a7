-------------------------- MODULE SelectRefinement --------------------------
(***************************************************************************)
(* Select implements AtomicSelect, where the selects that wait are         *)
(* orderly.  A selection takes effect when its flag is claimed; what is    *)
(* left in the lists of those claimed elsewhere does not wait any more.    *)
(***************************************************************************)
EXTENDS SelectInvariant

\* How many alternatives of p were not ready.
Tried(p) == IF pc[p] = "idle" \/ Served(p) # 0 THEN 0 ELSE at[p] - 1

\* The alternative of p that took effect received a value.
Received(p) == Served(p) # 0 /\ Alts(p)[Served(p)].kind = "read"

\* What p received.
Got(p) == IF Received(p) THEN slot[p][Alts(p)[Served(p)].op] ELSE Null

\* The nodes whose coroutine can still be claimed.
Claimable == {n \in Live : avail[n[1]]}

\* The pairs of nodes of which the first is met before the second on the way
\* through list l.
MetInOrder(l) ==
  LET walk == Forward(l)
      ordered == {k \in (DOMAIN walk) \X (DOMAIN walk) : k[1] < k[2]}
  IN  {<<walk[k[1]], walk[k[2]]>> : k \in ordered}

\* Of those who can still be claimed, who is met before whom.
Ahead == (UNION {MetInOrder(l) : l \in Lists}) \cap (Claimable \X Claimable)

Atomic == INSTANCE AtomicSelect WITH
  tried   <- [p \in Procs |-> Tried(p)],
  served  <- [p \in Procs |-> Served(p)],
  got     <- [p \in Procs |-> Got(p)],
  waiting <- Claimable,
  ahead   <- Ahead

\* Every step of select() is one atomic attempt or nothing at all: the first
\* peer that waits is met, nobody is overtaken on a channel, and a selection
\* that was served elsewhere is never matched again.  "The first ready
\* operation will cancel all others"; "Readers and writers are queued in FIFO
\* order." (README.md)
IsAtomic == Atomic!Spec

=============================================================================
