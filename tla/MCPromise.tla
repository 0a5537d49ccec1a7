------------------------------ MODULE MCPromise ------------------------------
(***************************************************************************)
(* Instances of AsyncPromise for TLC.                                      *)
(***************************************************************************)
EXTENDS AsyncPromise, TLC

CONSTANTS p1, p2, p3, s1, s2

ThreeTasks == {p1, p2, p3}
TwoSlots == {s1, s2}

\* Clients call set_exception and reset wherever they like.
AnyPromise == Promises

Symmetry == Permutations(ThreeTasks) \cup Permutations(TwoSlots)

==============================================================================
