---------------------------- MODULE ChannelBuffer ----------------------------
(***************************************************************************)
(* detail/channel_buffer.hpp and detail/send_slot.hpp: the bounded buffer  *)
(* of a channel, a ring of send_slots, and the slots of the operations     *)
(* that are served.  Everything here happens under the channel's mutex.    *)
(*                                                                         *)
(* A transfer swaps two slots, whatever they hold: that one is full and    *)
(* the other one empty is only asserted, and is a property here.           *)
(***************************************************************************)
EXTENDS Integers, Sequences

CONSTANTS Values, NoValue, Size

ASSUME RingAssumption == Size \in Nat \ {0} /\ NoValue \notin Values

VARIABLES
  head,     \* head_
  count,    \* count_
  cells,    \* buff_
  from,     \* the slot of the write that takes effect next
  to        \* the slot of the read that is served next

vars == <<head, count, cells, from, to>>

Indices == 0..(Size - 1)
Slots == Values \cup {NoValue}

Init ==
  /\ head = 0 /\ count = 0
  /\ cells = [i \in Indices |-> NoValue]
  /\ from = NoValue /\ to = NoValue

Empty == count = 0
\* A faulty full() that notices too late.
FullTooLate == count > Size
Full == count = Size

\* A faulty index of the next free cell that does not move with head_.
UnmovedFreeCell == count % Size
\* The cell the next value goes into.
FreeCell == (head + count) % Size

\* A faulty dequeue that goes back to the newest value.
BackwardsHead == (head + count - 1) % Size
\* Where head_ moves when the oldest value leaves.
NextHead == (head + 1) % Size

-----------------------------------------------------------------------------
\* A write operation is constructed with its value: send_slot::write.
Offer ==
  /\ from = NoValue
  /\ from' \in Values
  /\ UNCHANGED <<head, count, cells, to>>

\* enqueue, for a write that finds room, or for a waiting writer after a read.
Enqueue ==
  /\ from # NoValue /\ ~Full
  /\ cells' = [cells EXCEPT ![FreeCell] = from]
  /\ from' = cells[FreeCell]
  /\ count' = count + 1
  /\ UNCHANGED <<head, to>>

\* dequeue, for a read that finds a value.
Dequeue ==
  /\ to = NoValue /\ ~Empty
  /\ cells' = [cells EXCEPT ![head] = to]
  /\ to' = cells[head]
  /\ head' = NextHead
  /\ count' = count - 1
  /\ UNCHANGED from

\* transfer from the slot of a write to that of a read that waits: readers
\* wait only while the buffer is empty (NoMissedMatch of SelectProperties).
HandOver ==
  /\ from # NoValue /\ to = NoValue /\ Empty
  /\ from' = to /\ to' = from
  /\ UNCHANGED <<head, count, cells>>

\* get_result of the read: send_slot::read.
Collect ==
  /\ to # NoValue
  /\ to' = NoValue
  /\ UNCHANGED <<head, count, cells, from>>

Next == Offer \/ Enqueue \/ Dequeue \/ HandOver \/ Collect

Spec == Init /\ [][Next]_vars

-----------------------------------------------------------------------------
(* Properties.                                                             *)

\* The cells in use, from the oldest value to the newest.
Cell(i) == (head + i - 1) % Size

TypeOK ==
  /\ head \in Indices /\ count \in 0..Size
  /\ cells \in [Indices -> Slots] /\ from \in Slots /\ to \in Slots

\* The count and the cells agree, wherever the ring starts.
InUse == {Cell(i) : i \in 1..count}
CellsMatchCount == \A i \in Indices : cells[i] = NoValue <=> i \notin InUse

\* The assertions of transfer hold whenever a buffer operation is called: the
\* cell a value goes into is empty, the one a value is taken from is not.
\* (assert(from.value_.has_value()), assert(not to.value_.has_value()))
TransferAsserts ==
  /\ ~Full => cells[FreeCell] = NoValue
  /\ ~Empty => cells[head] # NoValue

\* The buffer is the FIFO queue of the values in its cells: no value is lost,
\* repeated or overtaken at any wrap-around.  ("Readers and writers are queued
\* in FIFO order", README.md)
Contents == [i \in 1..count |-> cells[Cell(i)]]
Queue == INSTANCE Fifo WITH queue <- Contents
RingIsFifo == Queue!Spec

=============================================================================
