----------------------------- MODULE MCHandles -----------------------------
(***************************************************************************)
(* Instances of ChannelHandles for TLC: up to three threads, two addresses *)
(* that are given out twice, and three handles of which one can only read. *)
(***************************************************************************)
EXTENDS ChannelHandles, TLC

CONSTANTS
  h1, h2, h3,   \* handles
  a1, a2,       \* addresses
  l1, l2        \* source locations

TwoThreads == {1, 2}
ThreeThreads == {1, 2, 3}
TwoAddresses == {a1, a2}
TwoLocations == {l1, l2}
ThreeHandles == {h1, h2, h3}

Both == {"readable", "writable"}
OneReads == h1 :> Both @@ h2 :> Both @@ h3 :> {"readable"}

Symmetry == Permutations({a1, a2}) \cup Permutations({l1, l2}) \cup Permutations({h1, h2})

=============================================================================
