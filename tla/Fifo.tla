-------------------------------- MODULE Fifo --------------------------------
(***************************************************************************)
(* What a buffered channel promises about its values: they leave in the    *)
(* order in which they came, and no more than Size of them are inside.     *)
(*                                                                         *)
(* from is the send_slot of a write that takes effect next, to that of a   *)
(* read that waits for its value or for its get_result.                    *)
(***************************************************************************)
EXTENDS Naturals, Sequences

CONSTANTS
  Values,     \* what is sent
  NoValue,    \* an empty send_slot
  Size        \* buff_size, of a channel that is bounded and buffered

VARIABLES queue, from, to

Init == queue = <<>> /\ from = NoValue /\ to = NoValue

\* A write operation is constructed with its value.
Offer ==
  /\ from = NoValue
  /\ from' \in Values
  /\ UNCHANGED <<queue, to>>

\* The value goes into the buffer, which has room (assert(not full())).
Put ==
  /\ from # NoValue /\ Len(queue) < Size
  /\ queue' = Append(queue, from) /\ from' = NoValue
  /\ UNCHANGED to

\* The oldest value leaves it.
Take ==
  /\ to = NoValue /\ queue # <<>>
  /\ to' = Head(queue) /\ queue' = Tail(queue)
  /\ UNCHANGED from

\* A writer hands its value to a reader that waits.
HandOver ==
  /\ from # NoValue /\ to = NoValue /\ queue = <<>>
  /\ to' = from /\ from' = NoValue
  /\ UNCHANGED queue

\* The reader takes its result.
Collect ==
  /\ to # NoValue /\ to' = NoValue
  /\ UNCHANGED <<queue, from>>

Next == Offer \/ Put \/ Take \/ HandOver \/ Collect

Spec == Init /\ [][Next]_<<queue, from, to>>

=============================================================================
