------------------------------ MODULE MCSelect ------------------------------
(***************************************************************************)
(* Instances of Select for TLC: three or four coroutines, one or two       *)
(* channels, and scripts of one to three selections each.  Where a round   *)
(* offers several selections TLC explores them all.                        *)
(***************************************************************************)
EXTENDS SelectRefinement, TLC

CONSTANTS
  p1, p2, p3, p4,   \* coroutines
  x, y              \* channels

TwoProcs == {p1, p2}
ThreeProcs == {p1, p2, p3}
FourProcs == {p1, p2, p3, p4}
OneChannel == {x}
TwoChannels == {x, y}

\* select() of alternatives, and select_ready().
Waits(alts) == [wait |-> TRUE, alts |-> alts]
Ready(alts) == [wait |-> FALSE, alts |-> alts]

\* One operation, where x and y carry the same type.
ReadYOrX == Waits(<<Rd(1, y), Rd(1, x)>>)
ReadXTwice == Waits(<<Rd(1, x), Rd(1, y), Rd(1, x)>>)

\* Two operations, where they carry different types.
ReadXAndY == Waits(<<Rd(1, x), Rd(2, y)>>)
ReadYAndX == Waits(<<Rd(1, y), Rd(2, x)>>)

TryReadXOrY == Ready(<<Rd(1, x), Rd(1, y), Nothing(2)>>)
WriteXElseY == Ready(<<Wr(1, x), Wr(1, y)>>)           \* y is unbounded

-----------------------------------------------------------------------------
(* Buffer sizes and types of x, or of x and y.                             *)

XUnbuffered == x :> 0
Unbuffered == x :> 0 @@ y :> 0
ZeroAndOne == x :> 0 @@ y :> 1
TwoAndUnbounded == x :> 2 @@ y :> Unbounded

OneType == x :> "int" @@ y :> "int"
TwoTypes == x :> "int" @@ y :> "string"

-----------------------------------------------------------------------------
(* Scripts.                                                                *)

\* Selects between two channels race with writes, some of which do not wait.
RendezvousScript ==
  p1 :> <<{ReadXAndY}, {Read(x), TryRead(y), ReadXAndY}>> @@
  p2 :> <<{Write(x), Write(y)}, {Write(x), TryWrite(x), ReadYAndX}>> @@
  p3 :> <<{Write(y), TryWrite(x), ReadYAndX}, {Write(x), ReadXAndY}>>

\* Two writers fill a bounded buffer and wait, or fall back on an unbounded
\* one; a reader of both, and a writer that turns reader, empty them.
BufferScript ==
  p1 :> <<{Write(x)}, {Write(x), TryWrite(x)}, {Write(x), WriteXElseY}>> @@
  p2 :> <<{Write(x), WriteXElseY}, {Write(x), Read(x), TryRead(x)}>> @@
  p3 :> <<{ReadYOrX, ReadXTwice}, {Read(x), TryReadXOrY}, {Read(x)}>>

\* Reads with a timeout: a coroutine that gives up on x because a timer wrote
\* to y reads again, and the answer comes late.  There are as many writes as
\* reads, and every read accepts either channel, so that all can return.
BalancedScript ==
  p1 :> <<{ReadYAndX}, {ReadXAndY}>> @@
  p2 :> <<{ReadYAndX}>> @@
  p3 :> <<{Write(x)}, {Write(x)}>> @@
  p4 :> <<{Write(y)}>>

\* A select of writes, of which all but one are cancelled, and two others
\* that use the same channels.
CancelledWriteScript ==
  p1 :> <<{Waits(<<Wr(1, x), Wr(1, y)>>)}>> @@
  p2 :> <<{Read(x)}>> @@
  p3 :> <<{Write(y)}>>

\* One coroutine offers to read and to write the same channel.
BothEndsScript ==
  p1 :> <<{Waits(<<Rd(1, x), Wr(2, x)>>)}>> @@
  p2 :> <<{Write(x)}>>

=============================================================================
