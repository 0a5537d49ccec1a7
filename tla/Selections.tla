----------------------------- MODULE Selections -----------------------------
(***************************************************************************)
(* What a coroutine can ask of channels: the operations of select_ops      *)
(* (read_op.hpp, write_op.hpp, nothing_op.hpp), the selections that        *)
(* select() and select_ready() accept (select_concepts.hpp), and the       *)
(* channel methods that are selections of one operation                    *)
(* (detail/channel_method_ops.hpp).                                        *)
(*                                                                         *)
(* A selection is flat: the sequence of its alternatives, each with the    *)
(* number of the operation it belongs to.  The index of an alternative in  *)
(* that sequence is its token (base token of the operation + index within  *)
(* the operation, counted from 1).                                         *)
(***************************************************************************)
EXTENDS Naturals, Sequences

CONSTANTS
  Channels,    \* the shared states, one per channel
  BuffSize,    \* buff_size of every channel
  SendType,    \* send_type of every channel
  Unbounded,   \* unbounded_channel_buff
  MaxAlts      \* how many alternatives a selection may have

ASSUME ChannelAssumption ==
  /\ Unbounded \notin Nat
  /\ BuffSize \in [Channels -> Nat \cup {Unbounded}]
  /\ MaxAlts \in Nat \ {0}

-----------------------------------------------------------------------------
Ops == 1..MaxAlts     \* the numbers of the operations of a selection

Alternatives ==
  [op : Ops, kind : {"read", "write"}, chan : Channels]
    \cup [op : Ops, kind : {"nothing"}]

Rd(op, c) == [op |-> op, kind |-> "read", chan |-> c]
Wr(op, c) == [op |-> op, kind |-> "write", chan |-> c]
Nothing(op) == [op |-> op, kind |-> "nothing"]

\* ops::always_waitfree, at the alternative that makes an operation waitfree:
\* `nothing`, or the unbounded channel a write may have as its last target.
AlwaysWaitfree(a) ==
  \/ a.kind = "nothing"
  \/ a.kind = "write" /\ BuffSize[a.chan] = Unbounded

\* Operations are numbered from 1 and each is one object: its alternatives
\* stand together and are all reads or all writes.
OpsInOrder(alts) ==
  /\ alts[1].op = 1
  /\ \A i \in 2..Len(alts) : alts[i].op \in {alts[i - 1].op, alts[i - 1].op + 1}
  /\ \A i, j \in 1..Len(alts) : alts[i].op = alts[j].op => alts[i].kind = alts[j].kind

\* The channels of an operation carry one type, and the result tells the
\* operation: select_result does not compile with two operations of one kind
\* and type.
WellTyped(alts) ==
  \A i, j \in 1..Len(alts) :
    alts[i].kind # "nothing" /\ alts[i].kind = alts[j].kind =>
      (alts[i].op = alts[j].op <=> SendType[alts[i].chan] = SendType[alts[j].chan])

\* waitable_selection: no alternative is waitfree.
WaitableSelection(alts) ==
  \A i \in 1..Len(alts) : ~AlwaysWaitfree(alts[i])

\* waitfree_selection: the last alternative is waitfree, and no other is.
WaitfreeSelection(alts) ==
  \A i \in 1..Len(alts) : AlwaysWaitfree(alts[i]) <=> i = Len(alts)

\* A selection: wait tells select() from select_ready().
SelectionsOfChannels ==
  {s \in [wait : BOOLEAN, alts : Seq(Alternatives)] :
     /\ Len(s.alts) \in 1..MaxAlts
     /\ OpsInOrder(s.alts)
     /\ WellTyped(s.alts)
     /\ IF s.wait THEN WaitableSelection(s.alts) ELSE WaitfreeSelection(s.alts)}

\* Operation k of selection s is a write.
WritesInOp(s, k) ==
  \E i \in 1..Len(s.alts) : s.alts[i].op = k /\ s.alts[i].kind = "write"

\* A coroutine outside select has no selection.
NoSelection == [wait |-> FALSE, alts |-> <<>>]

-----------------------------------------------------------------------------
(* Where an alternative waits, and where those it can be matched with do.  *)

Lists == {"reader", "writer"} \X Channels

ReaderList(c) == <<"reader", c>>
WriterList(c) == <<"writer", c>>
ListOf(a) == IF a.kind = "read" THEN ReaderList(a.chan) ELSE WriterList(a.chan)
PeerList(a) == IF a.kind = "read" THEN WriterList(a.chan) ELSE ReaderList(a.chan)

-----------------------------------------------------------------------------
(* The methods of a channel.                                               *)

Read(c) == [wait |-> TRUE, alts |-> <<Rd(1, c)>>]

TryRead(c) == [wait |-> FALSE, alts |-> <<Rd(1, c), Nothing(2)>>]

Write(c) == IF BuffSize[c] = Unbounded
            THEN [wait |-> FALSE, alts |-> <<Wr(1, c)>>]
            ELSE [wait |-> TRUE, alts |-> <<Wr(1, c)>>]

TryWrite(c) == [wait |-> FALSE, alts |-> <<Wr(1, c), Nothing(2)>>]

=============================================================================
