------------------------------ MODULE MCResult ------------------------------
(***************************************************************************)
(* All selections of up to three alternatives on four channels: two that   *)
(* carry a value, an unbounded one of the same type, and one of void.      *)
(***************************************************************************)
EXTENDS SelectResult, TLC

CONSTANTS x, y, u, v

FourChannels == {x, y, u, v}
Sizes == x :> 0 @@ y :> 1 @@ u :> Unbounded @@ v :> 0
ValueOrVoid == x :> "int" @@ y :> "int" @@ u :> "int" @@ v :> Void

AllSelections ==
  {s \in [wait : BOOLEAN, alts : UNION {[1..n -> Alternatives] : n \in 1..MaxAlts}] :
     /\ OpsInOrder(s.alts) /\ WellTyped(s.alts)
     /\ IF s.wait THEN WaitableSelection(s.alts) ELSE WaitfreeSelection(s.alts)}

=============================================================================
